----------------------- MODULE HostAndJournalProofs -----------------------
(***************************************************************************)
(* Two components that keep their promises for any number of actors.       *)
(*                                                                         *)
(* The host bindings: the C interface is safe for any number of threads,   *)
(* handles and addresses.  The inductive invariant is FfiInv; on it rest   *)
(* the lifetime of buffers, the lifetime of clients and the containment of *)
(* panics.  After it the Electron channels with their rate limit, and the  *)
(* clients of framework components.                                        *)
(*                                                                         *)
(* The Admin journal keeps its audit trail for any number of operations,   *)
(* handlers, cron runs and failures.  The argument: an append needs the    *)
(* caller to have seen the chain's head in the mirror, mirror rows are     *)
(* never removed, so an append happens only when the mirror is complete.   *)
(***************************************************************************)
EXTENDS HostBinding, AdminJournal, TLAPS

(* The tables are empty and every thread is idle. *)
LEMMA FfiInitInv == FfiInit => FfiInv
  BY DEF FfiInit, FfiInv, FfiTypes, ThreadState, BuffersApart, CreationsApart, HIdle, ThreadAt

(* What a thread's record holds once it has become r. *)
LEMMA ThreadAfter ==
  ASSUME FfiTypes, NEW t \in HThread, NEW r, Becomes(t, r)
  PROVE  thread'[t] = r /\ \A u \in HThread \ {t} : thread'[u] = thread[u]
  BY DEF FfiTypes, Becomes

(* A record of the right fields keeps the table's type, also when the      *)
(* client counter has grown.                                               *)
LEMMA ThreadTyped ==
  ASSUME FfiTypes, NEW n \in Nat, drawn.client <= n, NEW t \in HThread,
         NEW r \in ThreadState(n), Becomes(t, r)
  PROVE  thread' \in [HThread -> ThreadState(n)]
  <1>1. ThreadState(drawn.client) \subseteq ThreadState(n)
    BY DEF ThreadState, FfiTypes
  <1>2. thread \in [HThread -> ThreadState(n)]
    BY <1>1 DEF FfiTypes
  <1> QED BY <1>2 DEF Becomes

(* Every call of the C interface keeps the types. *)
LEMMA TypesStep == FfiTypes /\ CreationsApart /\ [FfiNext]_ffiVars => FfiTypes'
  <1> SUFFICES ASSUME FfiTypes, CreationsApart, [FfiNext]_ffiVars PROVE FfiTypes'
    OBVIOUS
  <1>0. /\ drawn \in [client : Nat, buf : Nat] /\ drawn.client \in Nat /\ drawn.buf \in Nat
        /\ \A t \in HThread : thread[t] \in ThreadState(drawn.client)
    BY DEF FfiTypes
  <1>1. ASSUME NEW t \in HThread, CreateDraw(t) PROVE FfiTypes'
    <2>1. drawn' \in [client : Nat, buf : Nat] /\ drawn'.client = drawn.client + 1 /\ drawn'.buf = drawn.buf
      BY <1>0, <1>1 DEF CreateDraw
    <2>2. thread' \in [HThread -> ThreadState(drawn.client + 1)]
      <3>1. ThreadAt("create", drawn.client + 1, 0, "none") \in ThreadState(drawn.client + 1)
        BY <1>0 DEF ThreadAt, ThreadState
      <3> QED BY <1>0, <1>1, <3>1, ThreadTyped DEF CreateDraw
    <2> QED BY <1>1, <2>1, <2>2, <1>0 DEF CreateDraw, FfiTypes
  <1>2. ASSUME NEW t \in HThread, NEW r \in ThreadState(drawn.client), Becomes(t, r),
               UNCHANGED drawn
        PROVE  thread' \in [HThread -> ThreadState(drawn'.client)]
    BY <1>0, <1>2, ThreadTyped
  <1>3. \A t \in HThread, last \in {"ok", "refused", "lost"} :
           ThreadAt("idle", thread[t].h, thread[t].addr, last) \in ThreadState(drawn.client)
    BY <1>0 DEF ThreadAt, ThreadState
  <1>4. ASSUME NEW t \in HThread, Refused(t) PROVE FfiTypes'
    <2>1. ThreadAt("idle", 0, 0, "refused") \in ThreadState(drawn.client)
      BY <1>0 DEF ThreadAt, ThreadState
    <2>2. thread' \in [HThread -> ThreadState(drawn'.client)]
      BY <1>2, <1>4, <2>1, Zenon DEF Refused
    <2> QED BY <1>4, <2>2, Zenon DEF Refused, FfiTypes
  <1>5. ASSUME NEW t \in HThread, CreateInsert(t) PROVE FfiTypes'
    <2>1. thread[t].h \in 1..drawn.client
      BY <1>0, <1>5 DEF CreateInsert, CreationsApart, ThreadState
    <2>2. thread' \in [HThread -> ThreadState(drawn'.client)]
      BY <1>2, <1>3, <1>5, Zenon DEF CreateInsert, Return
    <2> QED BY <1>5, <2>1, <2>2 DEF CreateInsert, FfiTypes
  <1>6. ASSUME NEW t \in HThread, NEW h \in 1..drawn.client, CallLookup(t, h) PROVE FfiTypes'
    <2>1. /\ ThreadAt("idle", h, 0, "lost") \in ThreadState(drawn.client)
          /\ ThreadAt("idle", h, 0, "invalid") \in ThreadState(drawn.client)
          /\ ThreadAt("found", h, 0, "none") \in ThreadState(drawn.client)
      BY <1>0 DEF ThreadAt, ThreadState
    <2> QED BY <1>2, <1>6, <2>1 DEF CallLookup, FfiTypes
  <1>7. \A t \in HThread : thread[t].pc \in {"found", "inside"} => thread[t].h \in 1..drawn.client
    BY <1>0 DEF CreationsApart, ThreadState
  <1>8. ASSUME NEW t \in HThread, CallLock(t) PROVE FfiTypes'
    <2>1. ThreadAt("inside", thread[t].h, 0, "none") \in ThreadState(drawn.client)
      BY <1>0 DEF ThreadAt, ThreadState
    <2>2. thread' \in [HThread -> ThreadState(drawn'.client)]
      BY <1>2, <1>3, <1>8, <2>1 DEF CallLock, Return
    <2> QED BY <1>7, <1>8, <2>2 DEF CallLock, LeaveClient, FfiTypes
  <1>9. ASSUME NEW t \in HThread, NEW outcome \in {"ok", "bytes", "panic"}, CallRun(t, outcome)
        PROVE  FfiTypes'
    <2>1. \A a \in FreeAddr : ThreadAt("output", thread[t].h, a, "none") \in ThreadState(drawn.client)
      BY <1>0 DEF ThreadAt, ThreadState, FreeAddr
    <2>2. thread' \in [HThread -> ThreadState(drawn'.client)]
      BY <1>2, <1>3, <1>9, <2>1, Zenon DEF CallRun, Return
    <2> QED BY <1>7, <1>9, <2>2 DEF CallRun, LeaveClient, FfiTypes
  <1>10. ASSUME NEW t \in HThread, RegisterBuffer(t) PROVE FfiTypes'
    <2>1. drawn' \in [client : Nat, buf : Nat] /\ drawn'.client = drawn.client /\ drawn'.buf = drawn.buf + 1
      BY <1>0, <1>10 DEF RegisterBuffer
    <2>2. ThreadAt("idle", thread[t].h, 0, "ok") \in ThreadState(drawn.client)
      BY <1>0 DEF ThreadAt, ThreadState
    <2>3. thread' \in [HThread -> ThreadState(drawn'.client)]
      BY <1>0, <1>10, <2>1, <2>2, ThreadTyped DEF RegisterBuffer
    <2>4. thread[t].addr \in HAddr \cup {0}
      BY <1>0 DEF ThreadState
    <2>5. bufTable' \in [DOMAIN bufTable' -> HAddr \cup {0}] /\ DOMAIN bufTable' \subseteq 1..drawn'.buf
      BY <1>0, <1>10, <2>1, <2>4 DEF RegisterBuffer, FfiTypes
    <2>6. /\ returned' \subseteq [handle : 1..drawn'.buf, addr : HAddr \cup {0}]
          /\ owned' \subseteq returned'
      BY <1>0, <1>10, <2>1, <2>4 DEF RegisterBuffer, FfiTypes
    <2> QED BY <1>10, <2>1, <2>3, <2>5, <2>6 DEF RegisterBuffer, FfiTypes
  <1>11. ASSUME NEW h \in 1..drawn.client, Destroy(h) PROVE FfiTypes'
    <2>1. dropped' \subseteq dropped \cup {h} /\ poisoned' \subseteq poisoned \cup {0}
      BY <1>11, Zenon DEF Destroy, DropUnderLock, CLIENTS
    <2>2. poisoned' \subseteq 0..drawn.client
      BY <1>0, <2>1 DEF FfiTypes
    <2>3. clientTable' \cup dropped' \subseteq 1..drawn.client
      BY <1>11, <2>1, Zenon DEF Destroy, FfiTypes
    <2> QED BY <1>11, <2>2, <2>3, Zenon DEF Destroy, FfiTypes
  <1>12. ASSUME NEW buf \in returned, FreeBuf(buf) PROVE FfiTypes'
    BY <1>12 DEF FreeBuf, Matches, FfiTypes
  <1>13. CASE UNCHANGED ffiVars
    BY <1>13 DEF ffiVars, FfiTypes
  <1> QED BY <1>1, <1>4, <1>5, <1>6, <1>8, <1>9, <1>10, <1>11, <1>12, <1>13 DEF FfiNext

(* No call of the C interface lets a client under creation be seen, or     *)
(* gives its handle to another thread.                                     *)
LEMMA CreationsStep == FfiTypes /\ CreationsApart /\ [FfiNext]_ffiVars => CreationsApart'
  <1> SUFFICES ASSUME FfiTypes, CreationsApart, [FfiNext]_ffiVars PROVE CreationsApart'
    OBVIOUS
  <1>0. /\ drawn.client \in Nat
        /\ \A t \in HThread : thread[t] \in ThreadState(drawn.client)
        /\ \A t \in HThread : thread[t].h \in 0..drawn.client
        /\ clientTable \cup dropped \subseteq 1..drawn.client
    BY DEF FfiTypes, ThreadState
  <1>1. ASSUME NEW t \in HThread, CreateDraw(t) PROVE CreationsApart'
    <2>1. thread'[t] = ThreadAt("create", drawn.client + 1, 0, "none")
          /\ \A u \in HThread \ {t} : thread'[u] = thread[u]
      BY <1>1, ThreadAfter DEF CreateDraw
    <2>2. thread'[t].pc = "create" /\ thread'[t].h = drawn.client + 1
      BY <2>1 DEF ThreadAt
    <2>3. \A u \in HThread \ {t} : thread'[u].h # drawn.client + 1
      BY <1>0, <2>1
    <2>4. drawn.client + 1 \notin clientTable \cup dropped /\ drawn.client + 1 # 0
      BY <1>0
    <2> QED BY <1>1, <2>1, <2>2, <2>3, <2>4 DEF CreateDraw, CreationsApart
  <1>2. ASSUME NEW t \in HThread, NEW last, Return(t, last),
               clientTable' \cup dropped' \subseteq clientTable \cup dropped \cup {thread[t].h},
               thread[t].pc \in {"create", "found", "inside"}
                 \/ clientTable' \cup dropped' \subseteq clientTable \cup dropped
        PROVE  CreationsApart'
    <2>1. thread'[t].pc = "idle" /\ \A u \in HThread \ {t} : thread'[u] = thread[u]
      BY <1>2, ThreadAfter DEF Return, ThreadAt
    <2> QED BY <1>2, <2>1 DEF CreationsApart
  <1>3. ASSUME NEW t \in HThread, Refused(t) PROVE CreationsApart'
    <2>1. thread'[t].pc = "idle" /\ \A u \in HThread \ {t} : thread'[u] = thread[u]
      BY <1>3, ThreadAfter DEF Refused, ThreadAt
    <2> QED BY <1>3, <2>1 DEF Refused, CreationsApart
  <1>4. ASSUME NEW t \in HThread, CreateInsert(t) PROVE CreationsApart'
    <2>1. /\ \E last : Return(t, last)
          /\ clientTable' \cup dropped' \subseteq clientTable \cup dropped \cup {thread[t].h}
          /\ thread[t].pc = "create"
      BY <1>4, Zenon DEF CreateInsert
    <2> QED BY <1>2, <2>1
  <1>5. ASSUME NEW t \in HThread, NEW h \in 1..drawn.client, CallLookup(t, h) PROVE CreationsApart'
    <2>1. /\ thread'[t].h = h /\ thread'[t].pc \in {"idle", "found"}
          /\ thread'[t].pc = "found" => h \in clientTable
          /\ \A u \in HThread \ {t} : thread'[u] = thread[u]
      BY <1>5, ThreadAfter DEF CallLookup, ThreadAt
    <2> QED BY <1>0, <1>5, <2>1 DEF CallLookup, CreationsApart
  <1>6. ASSUME NEW t \in HThread, CallLock(t) PROVE CreationsApart'
    <2>1. CASE thread[t].h \in poisoned
      BY <1>2, <1>6, <2>1 DEF CallLock, LeaveClient
    <2>2. CASE thread[t].h \notin poisoned
      <3>1. /\ thread'[t].pc = "inside" /\ thread'[t].h = thread[t].h
            /\ \A u \in HThread \ {t} : thread'[u] = thread[u]
        BY <1>6, <2>2, ThreadAfter DEF CallLock, ThreadAt
      <3> QED BY <1>6, <2>2, <3>1 DEF CallLock, CreationsApart
    <2> QED BY <2>1, <2>2
  <1>7. ASSUME NEW t \in HThread, NEW outcome \in {"ok", "bytes", "panic"}, CallRun(t, outcome)
        PROVE  CreationsApart'
    <2>1. CASE outcome \in {"ok", "panic"}
      BY <1>2, <1>7, <2>1, Zenon DEF CallRun, LeaveClient
    <2>2. CASE outcome = "bytes"
      <3>1. thread'[t].pc = "output" /\ \A u \in HThread \ {t} : thread'[u] = thread[u]
        <4>1. PICK a \in FreeAddr : Becomes(t, ThreadAt("output", thread[t].h, a, "none"))
          BY <1>7, <2>2 DEF CallRun
        <4> QED BY <4>1, ThreadAfter DEF ThreadAt
      <3> QED BY <1>7, <3>1 DEF CallRun, LeaveClient, CreationsApart
    <2> QED BY <2>1, <2>2
  <1>8. ASSUME NEW t \in HThread, RegisterBuffer(t) PROVE CreationsApart'
    <2>1. thread'[t].pc = "idle" /\ \A u \in HThread \ {t} : thread'[u] = thread[u]
      BY <1>8, ThreadAfter DEF RegisterBuffer, ThreadAt
    <2> QED BY <1>8, <2>1 DEF RegisterBuffer, CreationsApart
  <1>9. ASSUME NEW h \in 1..drawn.client, Destroy(h) PROVE CreationsApart'
    <2>1. clientTable' \cup dropped' \subseteq clientTable \cup dropped /\ thread' = thread
      BY <1>9, Zenon DEF Destroy, DropUnderLock
    <2> QED BY ONLY <2>1, CreationsApart, Zenon DEF CreationsApart
  <1>10. ASSUME NEW buf \in returned, FreeBuf(buf) PROVE CreationsApart'
    BY <1>10 DEF FreeBuf, CreationsApart
  <1>11. CASE UNCHANGED ffiVars
    BY <1>11 DEF ffiVars, CreationsApart
  <1> QED BY <1>1, <1>3, <1>4, <1>5, <1>6, <1>7, <1>8, <1>9, <1>10, <1>11 DEF FfiNext

(* Buffers keep apart: a handle is drawn once, and the allocator returns   *)
(* an address only when no buffer and no pending output has it.            *)
LEMMA BuffersStep == FfiTypes /\ BuffersApart /\ [FfiNext]_ffiVars => BuffersApart'
  <1> SUFFICES ASSUME FfiTypes, BuffersApart, [FfiNext]_ffiVars PROVE BuffersApart'
    OBVIOUS
  <1>0. ASSUME NEW t \in HThread, NEW r, Becomes(t, r), r.pc # "output",
               UNCHANGED <<bufTable, returned>>
        PROVE  BuffersApart'
    <2>1. thread'[t].pc # "output" /\ \A u \in HThread \ {t} : thread'[u] = thread[u]
      BY <1>0, ThreadAfter
    <2> QED BY <1>0, <2>1 DEF BuffersApart
  <1>1. ASSUME NEW t \in HThread, CreateDraw(t) PROVE BuffersApart'
    BY <1>0, <1>1 DEF CreateDraw, ThreadAt
  <1>2. ASSUME NEW t \in HThread, Refused(t) PROVE BuffersApart'
    BY <1>0, <1>2 DEF Refused, ThreadAt
  <1>3. ASSUME NEW t \in HThread, CreateInsert(t) PROVE BuffersApart'
    BY <1>0, <1>3 DEF CreateInsert, Return, ThreadAt
  <1>4. ASSUME NEW t \in HThread, NEW h \in 1..drawn.client, CallLookup(t, h) PROVE BuffersApart'
    BY <1>0, <1>4 DEF CallLookup, ThreadAt
  <1>5. ASSUME NEW t \in HThread, CallLock(t) PROVE BuffersApart'
    BY <1>0, <1>5 DEF CallLock, Return, ThreadAt
  <1>6. ASSUME NEW t \in HThread, NEW outcome \in {"ok", "bytes", "panic"}, CallRun(t, outcome)
        PROVE  BuffersApart'
    <2>1. CASE outcome \in {"ok", "panic"}
      BY <1>0, <1>6, <2>1, Zenon DEF CallRun, Return, ThreadAt
    <2>2. CASE outcome = "bytes"
      <3>1. PICK a \in FreeAddr : Becomes(t, ThreadAt("output", thread[t].h, a, "none"))
        BY <1>6, <2>2 DEF CallRun
      <3>2. thread'[t].pc = "output" /\ thread'[t].addr = a
            /\ \A u \in HThread \ {t} : thread'[u] = thread[u]
        BY <3>1, ThreadAfter DEF ThreadAt
      <3>3. /\ \A b \in DOMAIN bufTable : bufTable[b] # a
            /\ \A u \in HThread : thread[u].addr # a
        BY <3>1 DEF FreeAddr
      <3>4. UNCHANGED <<bufTable, returned>>
        BY <1>6 DEF CallRun
      <3> QED BY <3>2, <3>3, <3>4 DEF BuffersApart
    <2> QED BY <2>1, <2>2
  <1>7. ASSUME NEW t \in HThread, RegisterBuffer(t) PROVE BuffersApart'
    <2>0. drawn.buf \in Nat /\ drawn.buf + 1 \notin DOMAIN bufTable
          /\ \A b \in returned : b.handle # drawn.buf + 1
      BY DEF FfiTypes
    <2>1. thread'[t].pc = "idle" /\ \A u \in HThread \ {t} : thread'[u] = thread[u]
      BY <1>7, ThreadAfter DEF RegisterBuffer, ThreadAt
    <2>2. /\ DOMAIN bufTable' = DOMAIN bufTable \cup {drawn.buf + 1}
          /\ bufTable'[drawn.buf + 1] = thread[t].addr
          /\ \A b \in DOMAIN bufTable : bufTable'[b] = bufTable[b]
          /\ returned' = returned \cup {[handle |-> drawn.buf + 1, addr |-> thread[t].addr]}
      BY <1>7, <2>0 DEF RegisterBuffer
    <2>3. thread[t].pc = "output"
      BY <1>7 DEF RegisterBuffer
    <2>4. \A a, b \in returned' : a.handle = b.handle => a = b
      BY <2>0, <2>2 DEF BuffersApart
    <2>5. \A b, c \in DOMAIN bufTable' : bufTable'[b] = bufTable'[c] => b = c
      BY <2>0, <2>2, <2>3 DEF BuffersApart
    <2>6. \A u \in HThread : thread'[u].pc = "output" =>
            /\ \A b \in DOMAIN bufTable' : bufTable'[b] # thread'[u].addr
            /\ \A v \in HThread \ {u} : thread'[v].pc = "output" => thread'[v].addr # thread'[u].addr
      BY <2>1, <2>2, <2>3 DEF BuffersApart
    <2> QED BY <2>4, <2>5, <2>6 DEF BuffersApart
  <1>8. ASSUME NEW h \in 1..drawn.client, Destroy(h) PROVE BuffersApart'
    BY <1>8 DEF Destroy, BuffersApart
  <1>9. ASSUME NEW buf \in returned, FreeBuf(buf) PROVE BuffersApart'
    BY <1>9 DEF FreeBuf, BuffersApart
  <1>10. CASE UNCHANGED ffiVars
    BY <1>10 DEF ffiVars, BuffersApart
  <1> QED BY <1>1, <1>2, <1>3, <1>4, <1>5, <1>6, <1>7, <1>8, <1>9, <1>10 DEF FfiNext

(* FfiInv holds of every run of the C interface: handles are drawn once,   *)
(* clients under creation are nobody else's, buffers keep apart            *)
(* (next_handle, register_client, register_buffer).                        *)
THEOREM FfiCorrect == FfiSpec => []FfiInv
  <1>1. FfiInv /\ [FfiNext]_ffiVars => FfiInv'
    BY TypesStep, CreationsStep, BuffersStep DEF FfiInv
  <1> QED BY <1>1, FfiInitInv, PTL DEF FfiSpec

(* For any number of threads, handles and addresses, a buffer the host     *)
(* holds stays in place until the host releases it (cl_free_buf,           *)
(* register_buffer).                                                       *)
THEOREM BuffersSafe == FfiSpec => []BuffersStay
  <1>1. FfiInit => BuffersStay
    BY DEF FfiInit, BuffersStay
  <1>2. FfiInv /\ BuffersStay /\ [FfiNext]_ffiVars => BuffersStay'
    <2> SUFFICES ASSUME FfiInv, BuffersStay, [FfiNext]_ffiVars PROVE BuffersStay'
      OBVIOUS
    <2>1. ASSUME NEW t \in HThread, RegisterBuffer(t) PROVE BuffersStay'
      <3>0. drawn.buf \in Nat /\ drawn.buf + 1 \notin DOMAIN bufTable
        BY DEF FfiInv, FfiTypes
      <3>1. /\ DOMAIN bufTable' = DOMAIN bufTable \cup {drawn.buf + 1}
            /\ bufTable'[drawn.buf + 1] = thread[t].addr
            /\ \A b \in DOMAIN bufTable : bufTable'[b] = bufTable[b]
            /\ owned' = owned \cup {[handle |-> drawn.buf + 1, addr |-> thread[t].addr]}
        BY <2>1, <3>0 DEF RegisterBuffer
      <3>2. \A b \in DOMAIN bufTable : bufTable[b] # thread[t].addr
        BY <2>1 DEF RegisterBuffer, FfiInv, BuffersApart
      <3>3. \A b \in owned : b.addr # thread[t].addr
        BY <3>2 DEF BuffersStay
      <3> QED BY <3>0, <3>1, <3>3 DEF BuffersStay
    <2>2. ASSUME NEW buf \in returned, FreeBuf(buf) PROVE BuffersStay'
      <3>1. owned \subseteq returned /\ \A a \in owned \ {buf} : a.handle # buf.handle
        BY <2>2 DEF FfiInv, FfiTypes, BuffersApart
      <3> QED BY <2>2, <3>1 DEF FreeBuf, Matches, BuffersStay
    <2>3. CASE UNCHANGED <<bufTable, owned>>
      BY <2>3 DEF BuffersStay
    <2> QED BY <2>1, <2>2, <2>3 DEF FfiNext, ffiVars, CreateDraw, Refused, CreateInsert,
              CallLookup, CallLock, CallRun, Destroy
  <1> QED BY <1>1, <1>2, FfiCorrect, PTL DEF FfiSpec

(* For any number of threads and clients, a panic costs the host the       *)
(* client it happened in and no other, unless it is in the drop of a       *)
(* destroyed client under the lock on CLIENTS (with_client, cl_destroy).   *)
THEOREM PanicsContained == FfiSpec => []LossNeedsPanic
  <1>1. FfiInit => LossNeedsPanic
    BY DEF FfiInit, LossNeedsPanic, HIdle, ThreadAt
  <1>2. FfiInv /\ LossNeedsPanic /\ [FfiNext]_ffiVars => LossNeedsPanic'
    <2> SUFFICES ASSUME FfiInv, LossNeedsPanic, [FfiNext]_ffiVars PROVE LossNeedsPanic'
      OBVIOUS
    <2>0. FfiTypes
      BY DEF FfiInv
    <2>1. ASSUME NEW t \in HThread, NEW r, Becomes(t, r), poisoned \subseteq poisoned',
                 r.last = "lost" => r.h \in poisoned' \/ CLIENTS \in poisoned'
          PROVE  LossNeedsPanic'
      <3>1. thread'[t] = r /\ \A u \in HThread \ {t} : thread'[u] = thread[u]
        BY <2>0, <2>1, ThreadAfter
      <3> QED BY <2>1, <3>1, Zenon DEF LossNeedsPanic
    <2>2. ASSUME NEW t \in HThread, CreateDraw(t) PROVE LossNeedsPanic'
      BY <2>1, <2>2 DEF CreateDraw, ThreadAt
    <2>3. ASSUME NEW t \in HThread, Refused(t) PROVE LossNeedsPanic'
      BY <2>1, <2>3 DEF Refused, ThreadAt
    <2>4. ASSUME NEW t \in HThread, CreateInsert(t) PROVE LossNeedsPanic'
      BY <2>0, <2>1, <2>4 DEF CreateInsert, Return, ThreadAt
    <2>5. ASSUME NEW t \in HThread, NEW h \in 1..drawn.client, CallLookup(t, h)
          PROVE  LossNeedsPanic'
      BY <2>0, <2>1, <2>5 DEF CallLookup, ThreadAt
    <2>6. ASSUME NEW t \in HThread, CallLock(t) PROVE LossNeedsPanic'
      BY <2>1, <2>6 DEF CallLock, Return, ThreadAt
    <2>7. ASSUME NEW t \in HThread, NEW outcome \in {"ok", "bytes", "panic"}, CallRun(t, outcome)
          PROVE  LossNeedsPanic'
      BY <2>1, <2>7, Zenon DEF CallRun, Return, ThreadAt
    <2>8. ASSUME NEW t \in HThread, RegisterBuffer(t) PROVE LossNeedsPanic'
      BY <2>1, <2>8 DEF RegisterBuffer, ThreadAt
    <2>9. CASE thread' = thread /\ poisoned \subseteq poisoned'
      BY <2>9, Zenon DEF LossNeedsPanic
    <2> QED BY <2>2, <2>3, <2>4, <2>5, <2>6, <2>7, <2>8, <2>9, Zenon
            DEF FfiNext, ffiVars, Destroy, DropUnderLock, FreeBuf
  <1> QED BY <1>1, <1>2, FfiCorrect, PTL DEF FfiSpec

(* Who uses a client after thread t has moved. *)
LEMMA UsersAfter ==
  ASSUME FfiTypes, NEW t \in HThread, NEW r, Becomes(t, r), NEW h
  PROVE  InUseBy(h)' = IF r.h = h /\ r.pc \in {"found", "inside"} THEN InUseBy(h) \cup {t}
                       ELSE InUseBy(h) \ {t}
  BY ThreadAfter DEF InUseBy

(* For any number of threads and clients, no call runs on a client whose   *)
(* memory was freed, and the last reference to a destroyed client frees it *)
(* (cl_destroy, with_client).                                              *)
THEOREM ClientsSafe == FfiSpec => []ClientsLiveForTheirCalls
  <1>1. FfiInit => ClientsLiveForTheirCalls
    BY DEF FfiInit, ClientsLiveForTheirCalls
  <1>2. FfiInv /\ ClientsLiveForTheirCalls /\ [FfiNext]_ffiVars => ClientsLiveForTheirCalls'
    <2> SUFFICES ASSUME FfiInv, ClientsLiveForTheirCalls, [FfiNext]_ffiVars
                 PROVE  ClientsLiveForTheirCalls'
      OBVIOUS
    <2>0. /\ FfiTypes /\ CreationsApart /\ drawn.client \in Nat
          /\ \A t \in HThread : thread[t].h \in 0..drawn.client
          /\ clientTable \cup dropped \subseteq 1..drawn.client
      BY DEF FfiInv, FfiTypes, ThreadState
    <2> DEFINE Creating(h) == \E t \in HThread : thread[t].h = h /\ thread[t].pc = "create"
               Fine(h) == IF InUseBy(h) # {} \/ h \in clientTable THEN h \notin dropped
                          ELSE ~Creating(h) => h \in dropped
    <2>1. \A h \in 1..drawn.client : Fine(h)
      BY <2>0 DEF ClientsLiveForTheirCalls
    <2>2. SUFFICES \A h \in 1..drawn'.client : Fine(h)'
      BY <2>2 DEF ClientsLiveForTheirCalls
    <2>3. ASSUME NEW t \in HThread, NEW r, Becomes(t, r), NEW h
          PROVE  /\ InUseBy(h)' = IF r.h = h /\ r.pc \in {"found", "inside"}
                                  THEN InUseBy(h) \cup {t} ELSE InUseBy(h) \ {t}
                 /\ Creating(h)' <=> \/ r.h = h /\ r.pc = "create"
                                     \/ \E u \in HThread \ {t} : thread[u].h = h /\ thread[u].pc = "create"
      BY <2>0, <2>3, ThreadAfter, UsersAfter
    <2>4. ASSUME NEW t \in HThread, CreateDraw(t), NEW h \in 1..drawn'.client PROVE Fine(h)'
      <3>1. drawn'.client = drawn.client + 1
        BY <2>4 DEF CreateDraw, FfiInv, FfiTypes
      <3>2. InUseBy(h)' = InUseBy(h) /\ (Creating(h)' <=> h = drawn.client + 1 \/ Creating(h))
        BY <2>3, <2>4 DEF CreateDraw, ThreadAt, InUseBy
      <3>3. CASE h = drawn.client + 1
        <4>1. InUseBy(h) = {} /\ h \notin clientTable
          BY <2>0, <3>3 DEF InUseBy
        <4> QED BY <2>4, <3>2, <3>3, <4>1 DEF CreateDraw
      <3>4. CASE h # drawn.client + 1
        <4>1. h \in 1..drawn.client
          BY <2>0, <3>1, <3>4
        <4> QED BY <2>1, <2>4, <3>2, <3>4, <4>1 DEF CreateDraw
      <3> QED BY <3>3, <3>4
    <2>5. ASSUME NEW t \in HThread, Refused(t), NEW h \in 1..drawn'.client PROVE Fine(h)'
      <3>1. InUseBy(h)' = InUseBy(h) /\ (Creating(h)' <=> Creating(h))
        <4>1. thread[t].pc = "idle" /\ t \notin InUseBy(h)
          BY <2>5 DEF Refused, InUseBy
        <4>2. PICK r : Becomes(t, r) /\ r.pc = "idle"
          BY ONLY <2>5 DEF Refused, ThreadAt
        <4> QED BY <2>3, <4>1, <4>2
      <3> QED BY <2>1, <2>5, <3>1 DEF Refused
    <2>6. ASSUME NEW t \in HThread, CreateInsert(t), NEW h \in 1..drawn'.client PROVE Fine(h)'
      <3>1. /\ InUseBy(h)' = InUseBy(h)
            /\ h # thread[t].h => (Creating(h)' <=> Creating(h))
        <4>1. thread[t].pc = "create" /\ t \notin InUseBy(h)
          BY <2>6 DEF CreateInsert, InUseBy
        <4>2. PICK r : Becomes(t, r) /\ r.pc = "idle"
          BY <2>6 DEF CreateInsert, Return, ThreadAt
        <4> QED BY <2>3, <4>1, <4>2
      <3>2. /\ thread[t].h \notin dropped \cup clientTable /\ UNCHANGED drawn
            /\ \A u \in HThread \ {t} : thread[u].h = thread[t].h =>
                 thread[u].pc \notin {"create", "found", "inside"}
        BY ONLY <2>0, <2>6, Zenon DEF CreateInsert, CreationsApart
      <3>3. CASE CLIENTS \notin poisoned
        <4>1. clientTable' = clientTable \cup {thread[t].h} /\ dropped' = dropped
          BY <2>6, <3>3, Zenon DEF CreateInsert
        <4> QED BY <2>1, <3>1, <3>2, <4>1, Zenon
      <3>4. CASE CLIENTS \in poisoned
        <4>1. clientTable' = clientTable /\ dropped' = dropped \cup {thread[t].h}
          BY <2>6, <3>4, Zenon DEF CreateInsert
        <4>2. InUseBy(thread[t].h) = {}
          BY <2>6, <3>2, Zenon DEF CreateInsert, InUseBy
        <4> QED BY <2>1, <3>1, <3>2, <4>1, <4>2, Zenon
      <3> QED BY <3>3, <3>4
    <2>7. ASSUME NEW t \in HThread, NEW g \in 1..drawn.client, CallLookup(t, g),
                 NEW h \in 1..drawn'.client
          PROVE  Fine(h)'
      <3>1. /\ InUseBy(h)' = InUseBy(h) \/ h \in clientTable
            /\ Creating(h)' <=> Creating(h)
        <4>1. thread[t].pc = "idle" /\ t \notin InUseBy(h)
          BY <2>7 DEF CallLookup, InUseBy
        <4>2. PICK r : /\ Becomes(t, r) /\ r.pc \in {"idle", "found"} /\ r.h = g
                       /\ r.pc = "found" => g \in clientTable
          BY <2>7 DEF CallLookup, ThreadAt
        <4>3. /\ InUseBy(h)' = IF r.h = h /\ r.pc \in {"found", "inside"}
                               THEN InUseBy(h) \cup {t} ELSE InUseBy(h) \ {t}
              /\ Creating(h)' <=> \/ r.h = h /\ r.pc = "create"
                                  \/ \E u \in HThread \ {t} :
                                        thread[u].h = h /\ thread[u].pc = "create"
          BY <2>3, <4>2
        <4>4. InUseBy(h)' = InUseBy(h) \/ h \in clientTable
          BY <4>1, <4>2, <4>3
        <4> QED BY <4>1, <4>2, <4>3, <4>4
      <3> QED BY <2>1, <2>7, <3>1 DEF CallLookup
    <2>8. ASSUME NEW t \in HThread, NEW r, Becomes(t, r), r.pc \in {"idle", "output"},
                 thread[t].pc \in {"found", "inside"}, LeaveClient(t),
                 UNCHANGED <<drawn, clientTable>>, NEW h \in 1..drawn'.client
          PROVE  Fine(h)'
      <3>1. InUseBy(h)' = InUseBy(h) \ {t} /\ (Creating(h)' <=> Creating(h))
        BY <2>3, <2>8
      <3>2. t \in InUseBy(h) <=> h = thread[t].h
        BY <2>8 DEF InUseBy
      <3>3. dropped' = IF thread[t].h \notin clientTable /\ InUseBy(thread[t].h) = {t}
                       THEN dropped \cup {thread[t].h} ELSE dropped
        BY ONLY <2>8, Zenon DEF LeaveClient
      <3>4. h \in 1..drawn.client /\ clientTable' = clientTable
        BY ONLY <2>8, Zenon
      <3>5. Fine(h)
        BY ONLY <2>1, <3>4, Zenon
      <3> QED BY ONLY <3>1, <3>2, <3>3, <3>4, <3>5
    <2>9. ASSUME NEW t \in HThread, CallLock(t), NEW h \in 1..drawn'.client PROVE Fine(h)'
      <3>1. CASE thread[t].h \in poisoned
        BY ONLY <2>8, <2>9, <3>1 DEF CallLock, Return, ThreadAt
      <3>2. CASE thread[t].h \notin poisoned
        <4>1. InUseBy(h)' = InUseBy(h) /\ (Creating(h)' <=> Creating(h))
          <5>1. Becomes(t, ThreadAt("inside", thread[t].h, 0, "none")) /\ thread[t].pc = "found"
            BY <2>9, <3>2, Zenon DEF CallLock
          <5>2. ThreadAt("inside", thread[t].h, 0, "none").h = thread[t].h
                /\ ThreadAt("inside", thread[t].h, 0, "none").pc = "inside"
            BY DEF ThreadAt
          <5> QED BY <2>3, <5>1, <5>2 DEF InUseBy
        <4> QED BY <2>1, <2>9, <3>2, <4>1, Zenon DEF CallLock
      <3> QED BY <3>1, <3>2
    <2>10. ASSUME NEW t \in HThread, NEW outcome \in {"ok", "bytes", "panic"},
                  CallRun(t, outcome), NEW h \in 1..drawn'.client
           PROVE  Fine(h)'
      <3>1. PICK r : Becomes(t, r) /\ r.pc \in {"idle", "output"}
        <4>1. PICK a \in {"idle", "output"} : \E x, y : Becomes(t, ThreadAt(a, thread[t].h, x, y))
          <5>1. CASE outcome \in {"ok", "panic"}
            BY <2>10, <5>1, Zenon DEF CallRun, Return
          <5>2. CASE outcome = "bytes"
            BY <2>10, <5>2 DEF CallRun
          <5> QED BY <5>1, <5>2
        <4> QED BY <4>1 DEF ThreadAt
      <3> QED BY <2>8, <2>10, <3>1 DEF CallRun
    <2>11. ASSUME NEW t \in HThread, RegisterBuffer(t), NEW h \in 1..drawn'.client PROVE Fine(h)'
      <3>1. InUseBy(h)' = InUseBy(h) /\ (Creating(h)' <=> Creating(h))
        BY <2>3, <2>11 DEF RegisterBuffer, ThreadAt, InUseBy
      <3>2. drawn'.client = drawn.client
        BY <2>11 DEF RegisterBuffer, FfiInv, FfiTypes
      <3> QED BY <2>1, <2>11, <3>1, <3>2 DEF RegisterBuffer
    <2>12. ASSUME NEW g \in 1..drawn.client, Destroy(g), NEW h \in 1..drawn'.client PROVE Fine(h)'
      <3>1. InUseBy(h)' = InUseBy(h) /\ (Creating(h)' <=> Creating(h))
        BY <2>12 DEF Destroy, InUseBy
      <3>2. h \in 1..drawn.client /\ clientTable' = clientTable \ {g} /\ g \in clientTable
            /\ dropped' = IF InUseBy(g) = {} THEN dropped \cup {g} ELSE dropped
        BY <2>12, Zenon DEF Destroy, DropUnderLock
      <3>3. Fine(h)
        BY ONLY <2>1, <3>2, Zenon
      <3> QED BY ONLY <3>1, <3>2, <3>3
    <2>13. ASSUME UNCHANGED <<drawn, thread, clientTable, dropped>>, NEW h \in 1..drawn'.client
           PROVE  Fine(h)'
      BY <2>1, <2>13 DEF InUseBy
    <2> HIDE DEF Fine
    <2> QED BY <2>4, <2>5, <2>6, <2>7, <2>9, <2>10, <2>11, <2>12, <2>13, Zenon
            DEF FfiNext, ffiVars, FreeBuf
  <1> QED BY <1>1, <1>2, FfiCorrect, PTL DEF FfiSpec
-----------------------------------------------------------------------------
(* Electron's IPC and the framework bindings *)

(* A client the application gave stays its own, and one created for a      *)
(* component that is gone does not live on where the framework tells of    *)
(* the unmount, for any number of mounts (the bindings' cleanup and the    *)
(* end of a late creation).                                                *)
THEOREM ViewsSafe == ViewSpec => []ViewsRelease
<1> DEFINE Sound(m) == IF m.owner = "caller" THEN m.client = "live"
                       ELSE m.state = "gone" /\ CleansUp(m.kind) => m.client # "live"
           Views == [kind : {"react", "vue", "vue3.4", "svelte"}, owner : {"view", "caller"},
                     state : {"mounted", "gone"},
                     client : {"creating", "live", "disposed", "failed"}]
           VInv == mounts \in Seq(Views) /\ \A i \in DOMAIN mounts : Sound(mounts[i])
<1>1. mounts = << >> => VInv
  OBVIOUS
<1>2. ASSUME NEW kind \in {"react", "vue", "vue3.4", "svelte"}, NEW owner \in {"view", "caller"},
             Mount(kind, owner)
      PROVE  \E v \in Views : Sound(v) /\ mounts' = Append(mounts, v)
  BY <1>2 DEF Mount, View
<1>3. ASSUME NEW i \in DOMAIN mounts, mounts[i] \in Views, Sound(mounts[i]),
             Resolve(i) \/ RejectCreate(i) \/ Unmount(i)
      PROVE  \E v \in Views : Sound(v) /\ mounts' = [mounts EXCEPT ![i] = v]
  <2> DEFINE v(state, client) == View(mounts[i].kind, mounts[i].owner, state, client)
  <2>1. CASE Resolve(i)
    <3>1. v(mounts[i].state, IF mounts[i].state = "gone" /\ CleansUp(mounts[i].kind)
                             THEN "disposed" ELSE "live") \in Views
      BY ONLY <1>3 DEF View
    <3> QED BY <1>3, <2>1, <3>1, Zenon DEF Resolve, Turns, View
  <2>2. CASE RejectCreate(i)
    <3>1. v(mounts[i].state, "failed") \in Views
      BY <1>3 DEF View
    <3> QED BY <1>3, <2>2, <3>1, Zenon DEF RejectCreate, Turns, View
  <2>3. CASE Unmount(i)
    <3>1. v("gone", IF mounts[i].client = "live" /\ mounts[i].owner = "view"
                       /\ CleansUp(mounts[i].kind)
                    THEN "disposed" ELSE mounts[i].client) \in Views
      BY <1>3 DEF View
    <3> QED BY <1>3, <2>3, <3>1, Zenon DEF Unmount, Turns, View
  <2> QED BY <1>3, <2>1, <2>2, <2>3
<1>4. VInv /\ [ViewNext]_mounts => VInv'
  <2> SUFFICES ASSUME VInv, [ViewNext]_mounts PROVE VInv'
    OBVIOUS
  <2> HIDE DEF Views, Sound
  <2> QED BY <1>2, <1>3 DEF ViewNext
<1>5. VInv => ViewsRelease
  BY DEF ViewsRelease
<1> QED BY <1>1, <1>4, <1>5, PTL DEF ViewSpec

(* Attaching, detaching and the application's own use of a channel keep    *)
(* AttachInv: a list that is not empty names all the channels, so the      *)
(* attachment that has it is the only one (attachIpc).                     *)
LEMMA AttachStep == AttachInv /\ [AttachNext \/ LimiterNext]_ipcVars => AttachInv'
<1> DEFINE Lists == [app : HApp, registered : {{}, IPC_CHANNELS}]
<1> SUFFICES ASSUME AttachInv, [AttachNext \/ LimiterNext]_ipcVars PROVE AttachInv'
  OBVIOUS
<1>0. IPC_CHANNELS # {} /\ IPC_CHANNELS \subseteq Int
  BY DEF IPC_CHANNELS
<1>a. ASSUME NEW i \in DOMAIN attached
      PROVE  i \in Nat \ {0} /\ attached[i] \in Lists /\ attached[i].registered \in {{}, IPC_CHANNELS}
  <2>1. attached \in Seq(Lists)
    BY DEF AttachInv
  <2>2. i \in Nat \ {0} /\ attached[i] \in Lists
    <3> HIDE DEF Lists
    <3> QED BY <2>1
  <2> QED BY <2>2
<1>1. CASE UNCHANGED <<channel, attached, current, appChannels>>
  BY <1>1 DEF AttachInv
<1>2. ASSUME NEW app \in HApp, AttachIpc(app) PROVE AttachInv'
  <2> DEFINE id == Len(attached) + 1
             free == \A c \in IPC_CHANNELS : channel[c] = Nobody
             list == Attachment(app, IF free THEN IPC_CHANNELS ELSE {})
  <2>1. /\ attached \in Seq(Lists) /\ attached' = Append(attached, list)
        /\ list \in Lists /\ list.registered = IF free THEN IPC_CHANNELS ELSE {}
    BY <1>2, Zenon DEF AttachInv, AttachIpc, Attachment
  <2>2. /\ attached' \in Seq(Lists) /\ DOMAIN attached' = DOMAIN attached \cup {id}
        /\ attached'[id] = list /\ \A i \in DOMAIN attached : attached'[i] = attached[i] /\ i # id
        /\ id \in Nat \ {0}
    <3> HIDE DEF Lists, list
    <3> QED BY <2>1
  <2>3. CASE free
    <3>1. /\ channel' = [c \in IPC_CHANNELS |-> id] /\ current' = [current EXCEPT ![app] = id]
          /\ appChannels' = appChannels
      BY <1>2, <2>3 DEF AttachIpc
    <3>2. \A i \in DOMAIN attached : attached[i].registered = {}
      <4> SUFFICES ASSUME NEW i \in DOMAIN attached, attached[i].registered # {} PROVE FALSE
        OBVIOUS
      <4>1. attached[i].registered = IPC_CHANNELS /\ i \in Nat \ {0}
        BY <1>a
      <4> QED BY <1>0, <2>3, <4>1, Zenon DEF AttachInv, Nobody
    <3>3. \A a \in HApp : current[a] = 0
      BY <1>0, <3>2 DEF AttachInv
    <3>4. appChannels = {}
      BY <2>3 DEF AttachInv, Nobody, Application
    <3>5. /\ channel' \in [IPC_CHANNELS -> Int] /\ current' \in [HApp -> Nat]
          /\ \A c \in IPC_CHANNELS : channel'[c] = id
          /\ \A a \in HApp : current'[a] = IF a = app THEN id ELSE 0
      BY <2>2, <3>1, <3>3 DEF AttachInv
    <3>6. \A i \in DOMAIN attached' : \A c \in attached'[i].registered : channel'[c] = i
      BY ONLY <2>1, <2>2, <2>3, <3>2, <3>5
    <3>7. \A a \in HApp : current'[a] # 0 => /\ current'[a] \in DOMAIN attached'
                                              /\ attached'[current'[a]].registered = IPC_CHANNELS
      BY <2>1, <2>2, <2>3, <3>5, Zenon
    <3> HIDE DEF id
    <3> QED BY <2>2, <3>1, <3>4, <3>5, <3>6, <3>7, Zenon DEF AttachInv
  <2>4. CASE ~free
    <3>1. UNCHANGED <<channel, current, appChannels>>
      BY <1>2, <2>4 DEF AttachIpc
    <3> QED BY <2>1, <2>2, <2>4, <3>1, Zenon DEF AttachInv
  <2> QED BY <2>3, <2>4
<1>3. ASSUME NEW id \in DOMAIN attached, Detach(id) PROVE AttachInv'
  <2>1. /\ attached \in Seq(Lists) /\ attached' = [attached EXCEPT ![id] = Attachment(attached[id].app, {})]
        /\ appChannels' = appChannels
    BY <1>3 DEF AttachInv, Detach
  <2>2. /\ attached' \in Seq(Lists) /\ DOMAIN attached' = DOMAIN attached
        /\ attached'[id].registered = {}
        /\ \A i \in DOMAIN attached : i # id => attached'[i] = attached[i]
    <3> DEFINE list == Attachment(attached[id].app, {})
    <3>1. list \in Lists /\ list.registered = {}
      BY <1>a DEF Attachment
    <3> HIDE DEF Lists, list
    <3> QED BY <2>1, <3>1 DEF list
  <2>3. CASE attached[id].registered = {}
    <3>1. channel' = channel
      BY <1>3, <2>3 DEF Detach, AttachInv
    <3>2. current' = current
      <4>1. \A a \in HApp : current[a] # id
        BY <1>0, <1>a, <2>3 DEF AttachInv
      <4> QED BY <1>3, <4>1 DEF Detach, AttachInv
    <3>3. \A a \in HApp : current[a] # 0 => current[a] # id
      BY <1>0, <2>3 DEF AttachInv
    <3> QED BY <2>1, <2>2, <3>1, <3>2, <3>3 DEF AttachInv
  <2>4. CASE attached[id].registered = IPC_CHANNELS
    <3>1. channel' = [c \in IPC_CHANNELS |-> Nobody]
      BY <1>3, <2>4 DEF Detach
    <3>2. \A i \in DOMAIN attached : i # id => attached[i].registered = {}
      <4> SUFFICES ASSUME NEW i \in DOMAIN attached, i # id, attached[i].registered # {} PROVE FALSE
        OBVIOUS
      <4>1. attached[i].registered = IPC_CHANNELS
        BY <1>a
      <4> QED BY <1>0, <2>4, <4>1 DEF AttachInv
    <3>3. \A a \in HApp : current[a] \in {0, id}
      BY <1>0, <3>2 DEF AttachInv
    <3>4. current' = [a \in HApp |-> 0]
      BY <1>3, <3>3 DEF Detach
    <3>5. appChannels = {}
      <4>1. id \in Nat \ {0}
        BY <1>a
      <4> QED BY <2>4, <4>1 DEF AttachInv, Application
    <3> QED BY <1>0, <2>1, <2>2, <3>1, <3>2, <3>4, <3>5 DEF AttachInv, Nobody
  <2> QED BY <1>a, <2>3, <2>4
<1>4. ASSUME NEW c \in IPC_CHANNELS, TakeChannel(c) PROVE AttachInv'
  <2>1. /\ channel' = [channel EXCEPT ![c] = Application] /\ appChannels' = {c}
        /\ UNCHANGED <<attached, current>> /\ channel[c] = Nobody
    BY <1>4 DEF TakeChannel
  <2>2. \A i \in DOMAIN attached : attached[i].registered = {}
    <3> SUFFICES ASSUME NEW i \in DOMAIN attached, attached[i].registered # {} PROVE FALSE
      OBVIOUS
    <3>1. attached[i].registered = IPC_CHANNELS /\ i \in Nat \ {0}
      BY <1>a
    <3> QED BY <2>1, <3>1 DEF AttachInv, Nobody
  <2> QED BY <1>0, <2>1, <2>2 DEF AttachInv, Application
<1>5. ASSUME LimiterNext PROVE UNCHANGED <<channel, attached, current, appChannels>>
  BY <1>5 DEF LimiterNext, HostTick, Invoke
<1> QED BY <1>1, <1>2, <1>3, <1>4, <1>5 DEF AttachNext, ipcVars

(* Two calls are related through any call between them: what is counted    *)
(* from the first to the middle one and from there to the last adds up.    *)
LEMMA PairExtends ==
  ASSUME NEW d \in Int, NEW a \in Calls, NEW b \in Calls, NEW c \in Calls, PairInv(d, a, b),
         /\ b.window.startedAt = c.window.startedAt
         /\ c.window.requests = b.window.requests + 1
         /\ c.window.bytes - b.window.bytes = c.sofar - b.sofar
  PROVE  PairInv(d + 1, a, c)
  BY HLimits DEF PairInv, Together, Neighbours, Calls, Windows

(* A call that opens the next window of the limiter is related to those of *)
(* the window before it by what that one had left.                         *)
LEMMA PairOpens ==
  ASSUME NEW d \in Int, NEW a \in Calls, NEW b \in Calls, NEW c \in Calls, PairInv(d, a, b),
         /\ c.window.startedAt >= b.window.startedAt + HWindow
         /\ c.window.requests = 1
         /\ c.window.bytes = c.sofar - b.sofar
  PROVE  PairInv(d + 1, a, c)
  BY HLimits DEF PairInv, Together, Neighbours, Calls, Windows

(* What the history keeps of a call that the limiter accepted.             *)
LEMMA AcceptedCall ==
  ASSUME hostClock \in Nat, BytesSoFar \in Nat, NEW bytes \in Nat, NEW w \in Windows
  PROVE  /\ Accepted(bytes, w) \in Calls
         /\ Accepted(bytes, w).at = hostClock /\ Accepted(bytes, w).bytes = bytes
         /\ Accepted(bytes, w).sofar = BytesSoFar + bytes /\ Accepted(bytes, w).window = w
<1>1. BytesSoFar + bytes \in Nat
  OBVIOUS
<1>2. Accepted(bytes, w) \in Calls
  BY <1>1, Zenon DEF Accepted, Calls
<1> QED BY <1>2, Zenon DEF Accepted

(* The limiter keeps LimiterInv (RateLimiter.consume).                     *)
LEMMA LimiterStep == LimiterInv /\ [AttachNext \/ LimiterNext]_ipcVars => LimiterInv'
<1> SUFFICES ASSUME LimiterInv, [AttachNext \/ LimiterNext]_ipcVars PROVE LimiterInv'
  OBVIOUS
<1>0. /\ HWindow \in Nat \ {0} /\ HMaxRequests \in Nat \ {0} /\ HMaxBytes \in Nat \ {0}
      /\ hostClock \in Nat
  BY HLimits DEF LimiterInv
<1>a. accepted \in Seq(Calls)
  BY DEF LimiterInv
<1>b. ASSUME NEW i \in DOMAIN accepted
      PROVE  /\ accepted[i] \in Calls /\ accepted[i].window \in Windows
             /\ accepted[i].at \in Nat /\ accepted[i].sofar \in Nat /\ accepted[i].bytes \in Nat
  <2>1. accepted[i] \in Calls
    BY <1>a
  <2> QED BY <2>1 DEF Calls
<1>1. CASE UNCHANGED <<hostClock, bucket, accepted>>
  BY <1>1 DEF LimiterInv, CallInv
<1>2. CASE HostTick
  <2>1. hostClock' = hostClock + 1 /\ UNCHANGED <<bucket, accepted>>
    BY <1>2 DEF HostTick
  <2>2. \A i \in DOMAIN accepted : CallInv(accepted[i], hostClock')
    <3> SUFFICES ASSUME NEW i \in DOMAIN accepted PROVE CallInv(accepted[i], hostClock')
      OBVIOUS
    <3> QED BY <1>0, <1>b, <2>1 DEF LimiterInv, CallInv
  <2>3. bucket = NoBucket \/ (bucket \in Windows /\ bucket.startedAt <= hostClock')
    BY <1>0, <2>1 DEF LimiterInv, Windows
  <2> QED BY <1>0, <2>1, <2>2, <2>3 DEF LimiterInv
<1>3. ASSUME NEW bytes \in 0..(HMaxBytes + 1), Invoke(bytes) PROVE LimiterInv'
  <2> DEFINE b == OpenBucket
             n == Len(accepted)
  <2>1. hostClock' = hostClock
    BY <1>3 DEF Invoke
  <2>2. /\ b \in Windows /\ b.startedAt <= hostClock /\ hostClock < b.startedAt + HWindow
    <3>1. CASE bucket = NoBucket \/ hostClock - bucket.startedAt >= HWindow
      BY <1>0, <3>1 DEF OpenBucket, Window, Windows
    <3>2. CASE bucket # NoBucket /\ ~(hostClock - bucket.startedAt >= HWindow)
      BY <1>0, <3>2 DEF OpenBucket, LimiterInv, Windows
    <3> QED BY <3>1, <3>2
  <2>3. IF accepted = << >> THEN b.requests = 0 /\ b.bytes = 0
        ELSE \/ b = accepted[n].window
             \/ /\ b.startedAt >= accepted[n].window.startedAt + HWindow
                /\ b.requests = 0 /\ b.bytes = 0
    <3>1. CASE b = bucket
      BY <3>1 DEF LimiterInv
    <3>2. CASE b # bucket
      <4>1. b = Window(hostClock, 0, 0) /\ (bucket = NoBucket \/ hostClock - bucket.startedAt >= HWindow)
        BY <3>2 DEF OpenBucket
      <4>2. b.startedAt = hostClock /\ b.requests = 0 /\ b.bytes = 0
        BY <4>1 DEF Window
      <4>3. ASSUME accepted # << >> PROVE b.startedAt >= accepted[n].window.startedAt + HWindow
        <5>1. n \in DOMAIN accepted /\ accepted[n].window \in Windows /\ accepted[n].window.startedAt \in Nat
          <6>1. n \in DOMAIN accepted
            BY <1>a, <4>3
          <6> QED BY <1>b, <6>1 DEF Windows
        <5>2. bucket # NoBucket /\ bucket.startedAt >= accepted[n].window.startedAt
          <6>1. bucket = accepted[n].window \/ bucket.startedAt >= accepted[n].window.startedAt + HWindow
            BY <4>3 DEF LimiterInv
          <6>2. NoBucket.startedAt = -1
            BY DEF NoBucket, Window
          <6>3. bucket # NoBucket
            BY <1>0, <5>1, <6>1, <6>2
          <6>4. bucket.startedAt \in Nat
            BY <6>3 DEF LimiterInv, Windows
          <6> QED BY <1>0, <5>1, <6>1, <6>3, <6>4
        <5>3. bucket.startedAt \in Nat
          BY <5>2, Zenon DEF LimiterInv, Windows
        <5> QED BY <1>0, <4>1, <4>2, <5>1, <5>2, <5>3
      <4> QED BY <4>2, <4>3
    <3> QED BY <3>1, <3>2
  <2> HIDE DEF b
  <2>4. CASE ~MayConsume(b, bytes)
    <3>1. bucket' = b /\ accepted' = accepted
      BY <1>3, <2>4 DEF Invoke, b
    <3> QED BY <1>0, <2>1, <2>2, <2>3, <3>1, Zenon DEF LimiterInv, CallInv
  <2>5. CASE MayConsume(b, bytes)
    <3> DEFINE w == Window(b.startedAt, b.requests + 1, b.bytes + bytes)
               last == Accepted(bytes, w)
    <3>1. bucket' = w /\ accepted' = Append(accepted, last)
      BY <1>3, <2>5 DEF Invoke, b
    <3>2. /\ w \in Windows /\ w.startedAt = b.startedAt
          /\ w.requests = b.requests + 1 /\ w.bytes = b.bytes + bytes
      <4>1. /\ b.startedAt \in Nat /\ b.requests + 1 \in 0..HMaxRequests
            /\ b.bytes + bytes \in 0..HMaxBytes
        BY <1>0, <2>2, <2>5 DEF MayConsume, Windows
      <4> QED BY <4>1, Zenon DEF Window, Windows
    <3>3. BytesSoFar \in Nat
      BY <1>a, <1>b DEF BytesSoFar
    <3>4. /\ last \in Calls /\ last.at = hostClock /\ last.bytes = bytes
          /\ last.sofar = BytesSoFar + bytes /\ last.window = w
      <4>1. bytes \in Nat
        BY <1>0
      <4> HIDE DEF w
      <4> QED BY <1>0, <3>2, <3>3, <4>1, AcceptedCall, Zenon
    <3> HIDE DEF w, last
    <3>5. /\ accepted' \in Seq(Calls) /\ DOMAIN accepted' = DOMAIN accepted \cup {n + 1}
          /\ accepted'[n + 1] = last /\ n \in Nat /\ DOMAIN accepted = 1..n
          /\ \A i \in DOMAIN accepted : accepted'[i] = accepted[i]
          /\ accepted' # << >> /\ Len(accepted') = n + 1
      BY <1>a, <3>1, <3>4
    <3>6. CallInv(last, hostClock')
      BY <1>0, <2>1, <2>2, <3>2, <3>4 DEF CallInv, Windows
    <3>7. PairInv(0, last, last)
      BY <3>2, <3>4 DEF PairInv, Together, Calls, Windows
    <3>8. ASSUME NEW i \in DOMAIN accepted PROVE PairInv(n + 1 - i, accepted[i], last)
      <4>1. /\ n \in DOMAIN accepted /\ accepted # << >> /\ i \in Int /\ n \in Int /\ i <= n
            /\ BytesSoFar = accepted[n].sofar
        BY <3>5, <1>a DEF BytesSoFar
      <4>2. PairInv(n - i, accepted[i], accepted[n])
        BY <4>1 DEF LimiterInv
      <4>3. /\ accepted[i] \in Calls /\ accepted[n] \in Calls
            /\ accepted[n].sofar \in Int /\ accepted[n].window \in Windows
            /\ n - i \in Int /\ n - i + 1 = n + 1 - i
        BY <1>b, <4>1
      <4>4. b.bytes \in Int /\ bytes \in Int /\ last.sofar - accepted[n].sofar = bytes
        <5>1. b.bytes \in Int /\ bytes \in Int
          BY <1>0, <2>2 DEF Windows
        <5>2. last.sofar = accepted[n].sofar + bytes
          BY <3>4, <4>1, Zenon
        <5> QED BY <4>3, <5>1, <5>2
      <4>5. CASE b = accepted[n].window
        <5>1. /\ accepted[n].window.startedAt = last.window.startedAt
              /\ last.window.requests = accepted[n].window.requests + 1
              /\ last.window.bytes - accepted[n].window.bytes = last.sofar - accepted[n].sofar
          BY ONLY <3>2, <3>4, <4>4, <4>5
        <5> QED BY <3>4, <4>2, <4>3, <5>1, PairExtends, Zenon
      <4>6. CASE b.startedAt >= accepted[n].window.startedAt + HWindow /\ b.requests = 0 /\ b.bytes = 0
        <5>1. /\ last.window.startedAt >= accepted[n].window.startedAt + HWindow
              /\ last.window.requests = 1
              /\ last.window.bytes = last.sofar - accepted[n].sofar
          BY <3>2, <3>4, <4>4, <4>6
        <5> QED BY <3>4, <4>2, <4>3, <5>1, PairOpens, Zenon
      <4> QED BY <2>3, <4>1, <4>5, <4>6
    <3>9. \A i \in DOMAIN accepted' : CallInv(accepted'[i], hostClock')
      BY <2>1, <3>5, <3>6, Zenon DEF LimiterInv, CallInv
    <3>10. ASSUME NEW i \in DOMAIN accepted', NEW j \in DOMAIN accepted', i <= j
           PROVE  PairInv(j - i, accepted'[i], accepted'[j])
      <4>1. CASE j \in DOMAIN accepted
        <5>1. i \in DOMAIN accepted
          BY <3>5, <3>10, <4>1
        <5> QED BY <3>5, <3>10, <4>1, <5>1, Zenon DEF LimiterInv
      <4>2. CASE j = n + 1 /\ i \in DOMAIN accepted
        BY <3>5, <3>8, <4>2
      <4>3. CASE j = n + 1 /\ i = n + 1
        <5>1. j - i = 0
          BY <3>5, <4>3
        <5> QED BY <3>5, <3>7, <4>3, <5>1
      <4> QED BY <3>5, <4>1, <4>2, <4>3
    <3>11. bucket' \in Windows /\ bucket'.startedAt <= hostClock'
      BY <2>1, <2>2, <3>1, <3>2
    <3>12. accepted'[Len(accepted')].window = bucket'
      BY <3>1, <3>4, <3>5
    <3> QED BY <1>0, <2>1, <3>5, <3>9, <3>10, <3>11, <3>12, Zenon DEF LimiterInv
  <2> QED BY <2>4, <2>5
<1>4. ASSUME AttachNext
      PROVE  \/ UNCHANGED <<hostClock, bucket, accepted>>
             \/ hostClock' = hostClock /\ bucket' = NoBucket /\ accepted' = << >>
  <2>1. ASSUME NEW app \in HApp, AttachIpc(app)
        PROVE  /\ UNCHANGED hostClock
               /\ \/ UNCHANGED <<bucket, accepted>>
                  \/ bucket' = NoBucket /\ accepted' = << >>
    <3> DEFINE free == \A c \in IPC_CHANNELS : channel[c] = Nobody
    <3>1. /\ hostClock' = hostClock
          /\ free => bucket' = NoBucket /\ accepted' = << >>
          /\ ~free => UNCHANGED <<bucket, accepted>>
      BY ONLY <2>1, Zenon DEF AttachIpc
    <3> QED BY ONLY <3>1, Zenon
  <2>2. ASSUME NEW id \in DOMAIN attached, Detach(id) PROVE UNCHANGED <<hostClock, bucket, accepted>>
    BY ONLY <2>2, Zenon DEF Detach
  <2>3. ASSUME NEW c \in IPC_CHANNELS, TakeChannel(c) PROVE UNCHANGED <<hostClock, bucket, accepted>>
    BY ONLY <2>3, Zenon DEF TakeChannel
  <2> QED BY ONLY <1>4, <2>1, <2>2, <2>3, Zenon DEF AttachNext
<1>5. CASE hostClock' = hostClock /\ bucket' = NoBucket /\ accepted' = << >>
  BY ONLY <1>0, <1>5, HLimits DEF LimiterInv, NoBucket, Window
<1> QED BY <1>1, <1>2, <1>3, <1>4, <1>5 DEF LimiterNext, ipcVars

(* However attachments, late detach callbacks and the application share    *)
(* the channels, the handlers stay their owner's; and while one attachment *)
(* lasts, wherever a window of the given length lies across its limiter's  *)
(* own, at most twice the limit passes (attachIpc, RateLimiter.consume).   *)
THEOREM IpcSafe == IpcSpec => []IpcGuarded
<1>1. IpcInit => AttachInv /\ LimiterInv
  <2>1. IpcInit => AttachInv
    <3> SUFFICES ASSUME IpcInit PROVE AttachInv
      OBVIOUS
    <3>1. channel \in [IPC_CHANNELS -> Int] /\ current \in [HApp -> Nat]
      BY DEF IpcInit, Nobody
    <3>2. attached = << >> /\ appChannels = {} /\ \A app \in HApp : current[app] = 0
      BY Zenon DEF IpcInit
    <3> QED BY ONLY <3>1, <3>2 DEF AttachInv
  <2>2. IpcInit => LimiterInv
    BY DEF IpcInit, LimiterInv, NoBucket, Window
  <2> QED BY <2>1, <2>2
<1>2. AttachInv => HandlersBelong
  <2> SUFFICES ASSUME AttachInv PROVE HandlersBelong
    OBVIOUS
  <2>1. /\ \A id \in DOMAIN attached : \A c \in attached[id].registered : channel[c] = id
        /\ \A app \in HApp : current[app] # 0 =>
             /\ current[app] \in DOMAIN attached
             /\ attached[current[app]].registered = IPC_CHANNELS
        /\ \A c \in appChannels : c \in IPC_CHANNELS /\ channel[c] = Application
    BY Zenon DEF AttachInv
  <2> QED BY ONLY <2>1 DEF HandlersBelong
<1>3. LimiterInv => RateBounded
  <2> SUFFICES ASSUME LimiterInv, NEW i \in DOMAIN accepted, NEW j \in DOMAIN accepted, i <= j,
                      accepted[j].at - accepted[i].at < HWindow
               PROVE  /\ j - i + 1 <= 2 * HMaxRequests
                      /\ accepted[j].sofar - accepted[i].sofar + accepted[i].bytes <= 2 * HMaxBytes
    BY DEF RateBounded
  <2> DEFINE a == accepted[i]
             c == accepted[j]
  <2>1. a \in Calls /\ c \in Calls /\ i \in Nat /\ j \in Nat
    BY DEF LimiterInv
  <2>2. CallInv(a, hostClock) /\ CallInv(c, hostClock) /\ PairInv(j - i, a, c)
    BY DEF LimiterInv
  <2>3. c.at - a.at < HWindow
    OBVIOUS
  <2> HIDE DEF a, c
  <2>4. /\ j - i + 1 <= 2 * HMaxRequests
        /\ c.sofar - a.sofar + a.bytes <= 2 * HMaxBytes
    BY ONLY <2>1, <2>2, <2>3, HLimits DEF CallInv, PairInv, Together, Neighbours, Calls, Windows
  <2> QED BY <2>4 DEF a, c
<1> QED BY <1>1, <1>2, <1>3, AttachStep, LimiterStep, PTL DEF IpcSpec, IpcGuarded
-----------------------------------------------------------------------------
(* The Admin journal *)

PC == {"idle", "effect", "mark", "load", "head", "append", "mirror", "send", "check"}
Work == [pc: PC, op: Op \cup {NoOperation}, boot: AuditEvent \cup {Genesis}, ev: Nat]

Inv == JournalTypeOK /\ JournalInv

\* Every worker state a step moves to is well typed.
LEMMA MoveType ==
    ASSUME JournalTypeOK, NEW p \in Worker, NEW w \in Work, Move(p, w)
    PROVE  /\ work' \in [Worker -> Work]
           /\ work'[p] = w
           /\ \A q \in Worker : q # p => work'[q] = work[q]
BY DEF JournalTypeOK, Move, Work, PC

LEMMA AtType ==
    ASSUME NEW pc \in PC, NEW o \in Op \cup {NoOperation}
    PROVE  /\ At(pc, o) \in Work
           /\ At(pc, o).pc = pc /\ At(pc, o).op = o
           /\ At(pc, o).boot = Genesis /\ At(pc, o).ev = 0
BY DEF At, Work, Genesis, AuditEvent

LEMMA IdleType == Idle \in Work /\ Idle.pc = "idle"
BY DEF Idle, Work, PC, Genesis, AuditEvent

\* An index that is not the last one leaves room for the last one but one.
LEMMA Predecessor == \A k \in Nat : \A s \in 1..k : s < k => k - 1 \in 1..k
OBVIOUS

\* The row ensure_audit takes for the head of the mirror is in the mirror, and
\* none has a larger seq.
LEMMA HeadExists ==
    ASSUME JournalTypeOK, MirrorFollowsChain, mirror # {}
    PROVE  \E r \in mirror : \A x \in mirror : x.seq <= r.seq
<1>1. chain \in Seq(Op) /\ mirror \subseteq AuditEvent
  BY DEF JournalTypeOK
<1>2. PICK r \in mirror : TRUE
  OBVIOUS
<1>3. r.seq \in 1..Len(chain) /\ Len(chain) \in Nat
  BY <1>1, <1>2 DEF MirrorFollowsChain
<1>4. \A x \in mirror : x.seq \in 1..Len(chain)
  BY <1>1 DEF MirrorFollowsChain
<1>5. CASE \E x \in mirror : x.seq = Len(chain)
  BY <1>3, <1>4, <1>5
<1>6. CASE \A x \in mirror : x.seq # Len(chain)
  <2>1. r.seq < Len(chain)
    BY <1>3, <1>6
  <2>2. Len(chain) - 1 \in 1..Len(chain)
    BY <1>3, <2>1, Predecessor, Zenon
  <2>3. [seq |-> Len(chain) - 1, op |-> chain[Len(chain) - 1]] \in mirror
    BY <2>2, <1>1 DEF MirrorFollowsChain
  <2>4. \A x \in mirror : x.seq <= Len(chain) - 1
    BY <1>4, <1>6, <1>3
  <2> QED BY <2>3, <2>4
<1> QED BY <1>5, <1>6

LEMMA MirrorHeadType ==
    ASSUME JournalTypeOK, MirrorFollowsChain
    PROVE  MirrorHead \in mirror \cup {Genesis}
<1>1. CASE mirror = {}
  BY <1>1 DEF MirrorHead
<1>2. CASE mirror # {}
  BY <1>2, HeadExists DEF MirrorHead
<1> QED BY <1>1, <1>2

LEMMA MirrorSeqIs ==
    ASSUME JournalTypeOK, NEW o \in Op, Mirrored(o)
    PROVE  [seq |-> MirrorSeq(o), op |-> o] \in mirror /\ MirrorSeq(o) \in Nat
<1>1. \E r \in mirror : r.op = o
  BY DEF Mirrored
<1>2. PICK r \in mirror : r.op = o /\ MirrorSeq(o) = r.seq
  BY <1>1, Zenon DEF MirrorSeq
<1> QED BY <1>2 DEF JournalTypeOK, AuditEvent

LEMMA ChainSeqIs ==
    ASSUME NEW o \in Op, Chained(o)
    PROVE  ChainSeq(o) \in DOMAIN chain /\ chain[ChainSeq(o)] = o
BY DEF Chained, ChainSeq

(***************************************************************************)
(* Steps that leave the trail alone                                        *)
(***************************************************************************)

\* Tables only grow.
Grows ==
    /\ journal \subseteq journal' /\ applied \subseteq applied'
    /\ marked \subseteq marked' /\ mirror \subseteq mirror' /\ queue \subseteq queue'
    /\ \A i \in DOMAIN chain : i \in DOMAIN chain' /\ chain'[i] = chain[i]

\* What the workers hold survives the step of one of them.
LEMMA HoldsKept ==
    ASSUME Grows, NEW p \in Worker, \A q \in Worker : Holds(q), Holds(p)',
           \A q \in Worker : q # p => work'[q] = work[q]
    PROVE  \A q \in Worker : Holds(q)'
<1> SUFFICES ASSUME NEW q \in Worker, q # p PROVE Holds(q)'
  OBVIOUS
<1>1. Holds(q) /\ work'[q] = work[q]
  OBVIOUS
<1> QED BY <1>1, Zenon DEF Holds, Grows

\* A step of p that grows no table of the trail.
Quiet(p, w) ==
    /\ Move(p, w)
    /\ UNCHANGED <<store, trail, outlet>>
    /\ stage' \in [Cron -> {"side", "pending"}] /\ fails' \in Nat

LEMMA QuietKeeps ==
    ASSUME Inv, NEW p \in Worker, NEW w \in Work, Quiet(p, w), Holds(p)'
    PROVE  Inv'
<1>1. work' \in [Worker -> Work] /\ \A q \in Worker : q # p => work'[q] = work[q]
  BY MoveType DEF Inv, Quiet
<1>2. JournalTypeOK'
  BY <1>1, Zenon DEF Inv, JournalTypeOK, Quiet, store, trail, outlet, Work, PC
<1>3. MirrorFollowsChain' /\ CompletedIsRecorded' /\ (marked \subseteq applied)'
  BY Zenon DEF Inv, JournalInv, MirrorFollowsChain, CompletedIsRecorded, Quiet, store, trail, outlet
<1>4. Grows
  BY DEF Quiet, store, trail, outlet, Grows
<1>5. \A q \in Worker : Holds(q)'
  BY <1>1, <1>4, HoldsKept DEF Inv, JournalInv
<1> QED BY <1>2, <1>3, <1>5 DEF Inv, JournalInv

\* Where complete_operation begins.
LEMMA EntryHolds ==
    ASSUME Inv, NEW p \in Worker, NEW o \in journal, Quiet(p, FirstStep(o))
    PROVE  Inv'
<1>1. o \in Op
  BY DEF Inv, JournalTypeOK
<1>2. FirstStep(o) \in Work /\ FirstStep(o).op = o /\ FirstStep(o).pc \in {"effect", "load"}
      /\ (FirstStep(o).pc = "load" /\ o \in HasEffect => o \in marked)
  BY ONLY <1>1, AtType DEF FirstStep, PC, EffectPending
<1>3. work'[p] = FirstStep(o)
  BY <1>2, MoveType, Zenon DEF Inv, Quiet
<1>4. Holds(p)'
  BY <1>2, <1>3, Zenon DEF Holds, Quiet, store
<1> QED BY <1>2, <1>4, QuietKeeps

LEMMA IdleHolds ==
    ASSUME Inv, NEW p \in Worker, Quiet(p, Idle)
    PROVE  Inv'
<1>1. work'[p] = Idle
  <2>1. JournalTypeOK /\ Move(p, Idle)
    BY DEF Inv, Quiet
  <2> QED BY <2>1, IdleType, MoveType, Zenon
<1>2. Holds(p)'
  BY <1>1, IdleType, Zenon DEF Holds
<1> QED BY <1>2, IdleType, QuietKeeps

\* Replay, the two searches of the cron, load_audit, reading the head, a failure.
LEMMA QuietSteps ==
    ASSUME Inv, NEW p \in Worker,
           \/ \E o \in Op : p \in Client /\ Replay(p, o)
           \/ p \in Cron /\ (CronSide(p) \/ CronPending(p))
           \/ LoadAudit(p) \/ ReadHead(p) \/ Fail(p)
    PROVE  Inv'
<1>0. stage \in [Cron -> {"side", "pending"}] /\ fails \in Nat /\ work \in [Worker -> Work]
      /\ journal \subseteq Op
  BY DEF Inv, JournalTypeOK, Work, PC
<1>1. CASE \E o \in Op : Replay(p, o)
  <2>1. PICK o \in Op : Replay(p, o)
    BY <1>1
  <2>2. o \in journal /\ Quiet(p, FirstStep(o))
    BY <1>0, <2>1 DEF Replay, Quiet
  <2> QED BY <2>2, EntryHolds
<1>2. CASE p \in Cron /\ (CronSide(p) \/ CronPending(p))
  <2>1. PICK S \in SUBSET journal : TakeFirst(p, S)
    BY <1>2, Zenon DEF CronSide, CronPending
  <2>2. UNCHANGED <<store, trail, outlet, fails>> /\ stage' \in [Cron -> {"side", "pending"}]
    BY ONLY <1>0, <1>2 DEF CronSide, CronPending
  <2>3. CASE Move(p, Idle)
    BY <1>0, <2>2, <2>3, IdleHolds DEF Quiet
  <2>4. CASE \E o \in S : Move(p, FirstStep(o))
    <3>1. PICK o \in journal : Move(p, FirstStep(o))
      BY <2>4
    <3> QED BY <1>0, <2>2, <3>1, EntryHolds DEF Quiet
  <2> QED BY <2>1, <2>3, <2>4, Zenon DEF TakeFirst
<1>3. CASE Fail(p)
  <2>1. Quiet(p, Idle)
    BY ONLY <1>0, <1>3 DEF Fail, Quiet
  <2> QED BY <2>1, IdleHolds
<1>4. CASE LoadAudit(p) \/ ReadHead(p)
  <2> DEFINE o == work[p].op
  <2>1. o \in journal /\ o \in Op /\ (o \in HasEffect => o \in marked)
    BY <1>0, <1>4, Zenon DEF Inv, JournalInv, Holds, LoadAudit, ReadHead
  <2>2. UNCHANGED <<store, trail, outlet, fails, stage>>
    BY <1>4 DEF LoadAudit, ReadHead
  <2>3. CASE LoadAudit(p) /\ Mirrored(o)
    <3> DEFINE w == [At("send", o) EXCEPT !.ev = MirrorSeq(o)]
    <3>1. w \in Work /\ w.pc = "send" /\ w.op = o /\ w.ev = MirrorSeq(o)
      BY <2>1, <2>3, MirrorSeqIs, AtType, Zenon DEF Work, PC, At, Inv
    <3>2. Quiet(p, w)
      BY <1>0, <2>2, <2>3 DEF LoadAudit, Quiet
    <3>3. work'[p] = w
      BY <3>1, <3>2, MoveType DEF Inv, Quiet
    <3>4. Holds(p)'
      <4>1. [seq |-> MirrorSeq(o), op |-> o] \in mirror /\ o \in journal
            /\ (o \in HasEffect => o \in marked)
        BY <2>1, <2>2, <2>3, MirrorSeqIs, Zenon DEF Holds, Inv
      <4>2. UNCHANGED <<journal, marked, mirror>>
        BY <2>1, <2>2, <2>3, <3>2 DEF Quiet, store, trail
      <4> HIDE DEF w
      <4> QED BY <3>1, <3>3, <4>1, <4>2, Zenon DEF Holds
    <3> QED BY <3>1, <3>2, <3>4, QuietKeeps
  <2>4. CASE LoadAudit(p) /\ ~Mirrored(o)
    <3>1. At("head", o) \in Work /\ At("head", o).pc = "head" /\ At("head", o).op = o
      BY ONLY <2>1, AtType, Zenon DEF PC
    <3>2. Quiet(p, At("head", o))
      BY <1>0, <2>2, <2>4 DEF LoadAudit, Quiet
    <3>3. work'[p] = At("head", o)
      BY <3>1, <3>2, MoveType, Zenon DEF Inv, Quiet
    <3>4. Holds(p)'
      BY <2>1, <2>2, <3>1, <3>3, Zenon DEF Holds, store
    <3> QED BY <3>1, <3>2, <3>4, QuietKeeps, Zenon
  <2>5. CASE ReadHead(p)
    <3> DEFINE w == [At("append", o) EXCEPT !.boot = MirrorHead]
    <3>0. MirrorHead \in mirror \cup {Genesis} /\ MirrorHead \in AuditEvent \cup {Genesis}
      BY MirrorHeadType, Zenon DEF Inv, JournalInv, JournalTypeOK
    <3>1. w \in Work /\ w.pc = "append" /\ w.op = o /\ w.boot = MirrorHead
      BY <2>1, <3>0, AtType DEF Work, PC, At
    <3>2. Quiet(p, w)
      BY <1>0, <2>2, <2>5 DEF ReadHead, Quiet
    <3>3. work'[p] = w
      BY <3>1, <3>2, MoveType DEF Inv, Quiet
    <3>4. Holds(p)'
      BY <2>1, <2>2, <3>0, <3>1, <3>3 DEF Holds, store, trail
    <3> QED BY <3>1, <3>2, <3>4, QuietKeeps
  <2> QED BY <1>4, <2>3, <2>4, <2>5
<1> QED BY <1>1, <1>2, <1>3, <1>4

(***************************************************************************)
(* Steps that write to the journal                                         *)
(***************************************************************************)
LEMMA JournalSteps ==
    ASSUME Inv, NEW p \in Worker,
           \/ \E o \in Op : Submit(p, o)
           \/ CallEffect(p) \/ Mark(p) \/ SendAudit(p) \/ Checkpoint(p)
    PROVE  Inv'
<1>0. JournalTypeOK /\ Holds(p) /\ work[p] \in Work /\ marked \subseteq applied
  BY DEF Inv, JournalInv, JournalTypeOK, Work, PC
<1>1. \E w \in Work : Move(p, w) /\ Holds(p)'
  <2>0. work[p].op \in Op \cup {NoOperation} /\ "mark" \in PC /\ "load" \in PC
    BY <1>0, Zenon DEF Work, PC
  <2>1. CASE \E o \in Op : Submit(p, o)
    <3>1. PICK o \in Op : Submit(p, o)
      BY <2>1, Zenon
    <3>2. FirstStep(o) \in Work /\ FirstStep(o).op = o /\ FirstStep(o).pc \in {"effect", "load"}
          /\ (FirstStep(o).pc = "load" /\ o \in HasEffect => o \in marked)
      BY ONLY AtType DEF FirstStep, PC, EffectPending
    <3>3. work'[p] = FirstStep(o)
      BY <1>0, <3>1, <3>2, MoveType, Zenon DEF Submit
    <3> QED BY <3>1, <3>2, <3>3, Zenon DEF Submit, Holds
  <2>2. CASE \/ CallEffect(p) /\ work[p].op \in Rejected
             \/ Checkpoint(p)
             \/ Mark(p) /\ work[p].op \in done
    <3>1. Move(p, Idle)
      BY <2>2, Zenon DEF CallEffect, Checkpoint, Mark
    <3>2. work'[p] = Idle
      BY <1>0, <3>1, IdleType, MoveType, Zenon
    <3> QED BY <3>1, <3>2, IdleType, Zenon DEF Holds
  <2>3. CASE CallEffect(p) /\ work[p].op \notin Rejected
    <3>1. At("mark", work[p].op) \in Work /\ At("mark", work[p].op).pc = "mark"
          /\ At("mark", work[p].op).op = work[p].op
      BY <2>0, AtType, Zenon
    <3>2. Move(p, At("mark", work[p].op))
      BY <2>3, Zenon DEF CallEffect
    <3>3. work'[p] = At("mark", work[p].op)
      BY <1>0, <3>1, <3>2, MoveType, Zenon
    <3> QED BY <1>0, <2>3, <3>1, <3>2, <3>3, Zenon DEF CallEffect, Holds
  <2>4. CASE Mark(p) /\ work[p].op \notin done
    <3>1. At("load", work[p].op) \in Work /\ At("load", work[p].op).pc = "load"
          /\ At("load", work[p].op).op = work[p].op
      BY <2>0, AtType, Zenon
    <3>2. Move(p, At("load", work[p].op))
      BY <2>4, Zenon DEF Mark
    <3>3. work'[p] = At("load", work[p].op)
      BY <1>0, <3>1, <3>2, MoveType, Zenon
    <3> QED BY <1>0, <2>4, <3>1, <3>2, <3>3, Zenon DEF Mark, Holds
  <2>5. CASE SendAudit(p)
    <3> DEFINE w == [work[p] EXCEPT !.pc = "check"]
    <3>1. w \in Work /\ w.pc = "check" /\ w.op = work[p].op /\ w.ev = work[p].ev
      BY <1>0 DEF Work, PC
    <3>2. Move(p, w)
      BY <2>5 DEF SendAudit
    <3>3. work'[p] = w
      BY <1>0, <3>1, <3>2, MoveType
    <3>4. /\ work[p].pc = "send" /\ UNCHANGED <<journal, marked, mirror>>
          /\ [seq |-> work[p].ev, op |-> work[p].op] \in queue'
      BY <2>5 DEF SendAudit, store, trail
    <3>5. /\ work[p].op \in journal /\ (work[p].op \in HasEffect => work[p].op \in marked)
          /\ [seq |-> work[p].ev, op |-> work[p].op] \in mirror
      BY <1>0, <3>4, Zenon DEF Holds
    <3>6. Holds(p)'
      <4> HIDE DEF w
      <4> QED BY <3>1, <3>3, <3>4, <3>5, Zenon DEF Holds
    <3> HIDE DEF w
    <3> QED BY <3>1, <3>2, <3>6, Zenon
  <2> QED BY <2>1, <2>2, <2>3, <2>4, <2>5
<1>2. work' \in [Worker -> Work] /\ \A q \in Worker : q # p => work'[q] = work[q]
  BY <1>0, <1>1, MoveType
<1>3. Grows /\ UNCHANGED trail
  BY DEF Submit, CallEffect, Mark, SendAudit, Checkpoint, store, trail, outlet, Grows
<1>4. \A q \in Worker : Holds(q)'
  BY <1>1, <1>2, <1>3, HoldsKept DEF Inv, JournalInv
<1>5. JournalTypeOK'
  <2>1. work[p].pc # "idle" => work[p].op \in journal /\ work[p].op \in Op
    BY <1>0, Zenon DEF Holds, JournalTypeOK
  <2>2. SendAudit(p) => [seq |-> work[p].ev, op |-> work[p].op] \in AuditEvent
    BY <1>0 DEF SendAudit, Holds, JournalTypeOK
  <2>3. /\ journal' \subseteq Op /\ applied' \subseteq journal'
        /\ marked' \subseteq journal' /\ done' \subseteq journal'
    <3>1. CASE \E o \in Op : Submit(p, o)
      BY <1>0, <3>1, Zenon DEF Submit, JournalTypeOK
    <3>2. CASE CallEffect(p) \/ Mark(p) \/ Checkpoint(p)
      <4>1. work[p].op \in journal
        BY ONLY <2>1, <3>2 DEF CallEffect, Mark, Checkpoint
      <4> QED BY <1>0, <3>2, <4>1, Zenon DEF CallEffect, Mark, Checkpoint, JournalTypeOK
    <3>3. CASE SendAudit(p)
      BY <1>0, <3>3, Zenon DEF SendAudit, store, JournalTypeOK
    <3> QED BY <3>1, <3>2, <3>3, Zenon
  <2>4. queue' \subseteq AuditEvent /\ UNCHANGED <<chain, mirror, archive, stage, fails>>
    <3>1. CASE SendAudit(p)
      BY <1>0, <2>2, <3>1, Zenon DEF SendAudit, trail, JournalTypeOK
    <3>2. CASE ~SendAudit(p)
      BY <1>0, <3>2, Zenon DEF Submit, CallEffect, Mark, Checkpoint, trail, outlet, JournalTypeOK
    <3> QED BY <3>1, <3>2, Zenon
  <2> QED BY <1>0, <1>2, <2>3, <2>4, Zenon DEF JournalTypeOK, Work, PC
<1>6. MirrorFollowsChain'
  BY <1>3, Zenon DEF Inv, JournalInv, MirrorFollowsChain, trail
<1>7. CompletedIsRecorded' /\ (marked \subseteq applied)'
  <2>1. \A o \in done' : o \in done \/ \E r \in mirror \cap queue : r.op = o
    BY <1>0 DEF Submit, CallEffect, Mark, SendAudit, Checkpoint, store, Holds
  <2>2. (marked \subseteq applied)'
    BY <1>0, <1>3 DEF Submit, CallEffect, Mark, SendAudit, Checkpoint, store, Holds, Grows
  <2> QED BY <1>3, <2>1, <2>2 DEF Inv, JournalInv, CompletedIsRecorded, Grows, trail
<1> QED BY <1>4, <1>5, <1>6, <1>7, Zenon DEF Inv, JournalInv

(***************************************************************************)
(* Steps that write to the trail                                           *)
(***************************************************************************)

\* The heart of the argument: a caller whose head matches saw the last event of
\* the chain in the mirror, so nothing is missing there.
LEMMA HeadSeen ==
    ASSUME Inv, NEW h \in mirror \cup {Genesis}, HeadMatches(h)
    PROVE  \A i \in DOMAIN chain : [seq |-> i, op |-> chain[i]] \in mirror
<1>1. chain \in Seq(Op) /\ mirror \subseteq AuditEvent /\ MirrorFollowsChain
  BY DEF Inv, JournalInv, JournalTypeOK
<1>2. CASE chain = <<>>
  BY <1>2
<1>3. CASE chain # <<>>
  <2>1. Len(chain) \in DOMAIN chain /\ Len(chain) \in Nat \ {0}
    BY <1>1, <1>3
  <2>2. h = [seq |-> Len(chain), op |-> chain[Len(chain)]]
    BY <1>3, Zenon DEF HeadMatches, ChainHead
  <2>3. h # Genesis
    BY ONLY <2>1, <2>2 DEF Genesis
  <2> QED BY ONLY <1>1, <2>1, <2>2, <2>3 DEF MirrorFollowsChain
<1> QED BY <1>2, <1>3

LEMMA AppendKeeps == ASSUME Inv, NEW p \in Worker, AppendAudit(p) PROVE Inv'
<1> DEFINE o == work[p].op
<1>0. JournalTypeOK /\ Holds(p) /\ work[p].pc = "append" /\ o \in journal /\ o \in Op
      /\ (o \in HasEffect => o \in marked) /\ work[p].boot \in mirror \cup {Genesis}
  BY Zenon DEF Inv, JournalInv, AppendAudit, Holds, JournalTypeOK
<1>1. UNCHANGED <<store, mirror, outlet, stage, fails>>
  BY DEF AppendAudit
<1>2. CASE Chained(o) /\ Move(p, [At("mirror", o) EXCEPT !.ev = ChainSeq(o)]) /\ UNCHANGED chain
  <2> DEFINE w == [At("mirror", o) EXCEPT !.ev = ChainSeq(o)]
  <2>1. ChainSeq(o) \in DOMAIN chain /\ chain[ChainSeq(o)] = o /\ ChainSeq(o) \in Nat
    BY <1>0, <1>2, ChainSeqIs DEF JournalTypeOK
  <2>2. w \in Work /\ w.pc = "mirror" /\ w.op = o /\ w.ev = ChainSeq(o)
    BY <1>0, <2>1, AtType DEF Work, PC, At
  <2>3. Quiet(p, w)
    BY <1>0, <1>1, <1>2 DEF Quiet, trail, JournalTypeOK
  <2>4. work'[p] = w
    BY <1>0, <2>2, <2>3, MoveType DEF Quiet
  <2>5. Holds(p)'
    BY <1>0, <1>1, <1>2, <2>1, <2>2, <2>4 DEF Holds, store
  <2> QED BY <2>2, <2>3, <2>5, QuietKeeps
<1>3. CASE ~Chained(o) /\ HeadMatches(work[p].boot) /\ chain' = Append(chain, o)
           /\ Move(p, [At("mirror", o) EXCEPT !.ev = Len(chain) + 1])
  <2> DEFINE w == [At("mirror", o) EXCEPT !.ev = Len(chain) + 1]
  <2>1. chain \in Seq(Op) /\ Len(chain) + 1 \in Nat
    BY ONLY <1>0 DEF JournalTypeOK
  <2>2. /\ chain' \in Seq(Op) /\ Len(chain') = Len(chain) + 1
        /\ DOMAIN chain' = DOMAIN chain \cup {Len(chain) + 1}
        /\ \A i \in DOMAIN chain : chain'[i] = chain[i]
        /\ chain'[Len(chain) + 1] = o
    BY <1>0, <1>3, <2>1
  <2>3. w \in Work /\ w.pc = "mirror" /\ w.op = o /\ w.ev = Len(chain) + 1
    BY <1>0, <2>1, AtType DEF Work, PC, At
  <2>4. work' \in [Worker -> Work] /\ work'[p] = w
        /\ \A q \in Worker : q # p => work'[q] = work[q]
    BY <1>0, <1>3, <2>3, MoveType
  <2>5. JournalTypeOK'
    BY <1>0, <1>1, <2>2, <2>4 DEF JournalTypeOK, store, outlet, Work, PC
  <2>6. Holds(p)'
    BY <1>0, <1>1, <2>2, <2>3, <2>4, Zenon DEF Holds, store
  <2>7. Grows
    BY ONLY <1>1, <2>2 DEF Grows, store, outlet
  <2>8. \A q \in Worker : Holds(q)'
    BY <2>4, <2>6, <2>7, HoldsKept DEF Inv, JournalInv
  <2>9. MirrorFollowsChain'
    <3>1. \A i \in DOMAIN chain : chain[i] # o
      BY <1>3 DEF Chained
    <3>2. \A i \in DOMAIN chain : [seq |-> i, op |-> chain[i]] \in mirror
      BY <1>0, <1>3, HeadSeen, Zenon
    <3>3. \A i \in DOMAIN chain' : i < Len(chain') => i \in DOMAIN chain
      BY ONLY <2>1, <2>2
    <3>0. /\ \A i, j \in DOMAIN chain : chain[i] = chain[j] => i = j
          /\ \A r \in mirror : r.seq \in DOMAIN chain /\ chain[r.seq] = r.op
      BY Zenon DEF Inv, JournalInv, MirrorFollowsChain
    <3>4. \A i, j \in DOMAIN chain' : chain'[i] = chain'[j] => i = j
      <4> SUFFICES ASSUME NEW i \in DOMAIN chain', NEW j \in DOMAIN chain', chain'[i] = chain'[j]
                   PROVE  i = j
        BY Zenon
      <4>1. CASE i \in DOMAIN chain /\ j \in DOMAIN chain
        BY <2>2, <3>0, <4>1, Zenon
      <4>2. CASE i \notin DOMAIN chain \/ j \notin DOMAIN chain
        BY <2>2, <3>1, <4>2, Zenon
      <4> QED BY <4>1, <4>2
    <3>5. \A r \in mirror' : r.seq \in DOMAIN chain' /\ chain'[r.seq] = r.op
      BY <1>1, <2>2, <3>0, Zenon
    <3>6. \A i \in DOMAIN chain' : i < Len(chain') => [seq |-> i, op |-> chain'[i]] \in mirror'
      BY ONLY <1>1, <2>2, <3>2, <3>3
    <3> QED BY <3>4, <3>5, <3>6, Zenon DEF MirrorFollowsChain
  <2>10. CompletedIsRecorded' /\ (marked \subseteq applied)'
    BY <1>0, <1>1, <2>2, Zenon DEF Inv, JournalInv, CompletedIsRecorded, store, outlet
  <2> QED BY <2>5, <2>8, <2>9, <2>10 DEF Inv, JournalInv
<1>4. CASE Move(p, Idle) /\ UNCHANGED chain
  <2>1. Quiet(p, Idle)
    BY <1>0, <1>1, <1>4, Zenon DEF Quiet, trail, JournalTypeOK
  <2> QED BY <2>1, IdleHolds, Zenon
<1> QED BY <1>2, <1>3, <1>4 DEF AppendAudit

LEMMA MirrorKeeps == ASSUME Inv, NEW p \in Worker, MirrorEvent(p) PROVE Inv'
<1> DEFINE o == work[p].op
           row == [seq |-> work[p].ev, op |-> o]
<1>0. JournalTypeOK /\ Holds(p) /\ work[p].pc = "mirror" /\ o \in journal /\ o \in Op
      /\ (o \in HasEffect => o \in marked) /\ work[p].ev \in DOMAIN chain
      /\ chain[work[p].ev] = o /\ row \in AuditEvent /\ work[p].ev \in Nat
  <2>1. JournalTypeOK /\ Holds(p) /\ work[p].pc = "mirror"
    BY Zenon DEF Inv, JournalInv, MirrorEvent
  <2>2. o \in journal /\ (o \in HasEffect => o \in marked)
        /\ work[p].ev \in DOMAIN chain /\ chain[work[p].ev] = o
    BY <2>1, Zenon DEF Holds
  <2>3. journal \subseteq Op /\ chain \in Seq(Op)
    BY <2>1 DEF JournalTypeOK
  <2>4. work[p].ev \in 1..Len(chain) /\ Len(chain) \in Nat
    BY ONLY <2>2, <2>3
  <2>5. work[p].ev \in Nat /\ 1 <= work[p].ev
    BY ONLY <2>4
  <2>6. row \in AuditEvent
    BY ONLY <2>2, <2>3, <2>5 DEF AuditEvent
  <2> QED BY <2>1, <2>2, <2>3, <2>5, <2>6, Zenon
<1>1. UNCHANGED <<store, chain, outlet, stage, fails>>
  BY DEF MirrorEvent
<1>2. CASE Mirrored(o)
  <2> DEFINE w == [At("send", o) EXCEPT !.ev = MirrorSeq(o)]
  <2>1. w \in Work /\ w.pc = "send" /\ w.op = o /\ w.ev = MirrorSeq(o)
    BY <1>0, <1>2, MirrorSeqIs, AtType, Zenon DEF Work, PC, At
  <2>2. Quiet(p, w)
    BY <1>0, <1>1, <1>2 DEF MirrorEvent, Quiet, trail, JournalTypeOK
  <2>3. work'[p] = w
    BY <1>0, <2>1, <2>2, MoveType DEF Quiet
  <2>4. Holds(p)'
    BY <1>0, <1>1, <1>2, <2>1, <2>2, <2>3, MirrorSeqIs DEF Holds, Quiet, store, trail
  <2> QED BY <2>1, <2>2, <2>4, QuietKeeps
<1>3. CASE ~Mirrored(o) /\ \E r \in mirror : r.seq = work[p].ev
  <2>1. Quiet(p, Idle)
    BY <1>0, <1>1, <1>3 DEF MirrorEvent, Quiet, trail, JournalTypeOK
  <2> QED BY <2>1, IdleHolds
<1>4. CASE ~Mirrored(o) /\ ~\E r \in mirror : r.seq = work[p].ev
  <2> DEFINE w == [At("send", o) EXCEPT !.ev = work[p].ev]
  <2>1. mirror' = mirror \cup {row} /\ Move(p, w)
    BY <1>4 DEF MirrorEvent
  <2>2. w \in Work /\ w.pc = "send" /\ w.op = o /\ w.ev = work[p].ev
    BY <1>0, AtType DEF Work, PC, At
  <2>3. work' \in [Worker -> Work] /\ work'[p] = w
        /\ \A q \in Worker : q # p => work'[q] = work[q]
    BY <1>0, <2>1, <2>2, MoveType
  <2>4. JournalTypeOK'
    BY <1>0, <1>1, <2>1, <2>3 DEF JournalTypeOK, store, outlet, Work, PC
  <2>5. Grows
    BY <1>1, <2>1 DEF Grows, store, outlet
  <2>6. Holds(p)'
    BY ONLY <1>0, <1>1, <2>1, <2>2, <2>3, Zenon DEF Holds, store
  <2>7. \A q \in Worker : Holds(q)'
    BY <2>3, <2>5, <2>6, HoldsKept DEF Inv, JournalInv
  <2>8. MirrorFollowsChain'
    BY <1>0, <1>1, <2>1 DEF Inv, JournalInv, MirrorFollowsChain
  <2>9. CompletedIsRecorded' /\ (marked \subseteq applied)'
    BY <1>1, <2>1 DEF Inv, JournalInv, CompletedIsRecorded, store, outlet
  <2> QED BY <2>4, <2>7, <2>8, <2>9 DEF Inv, JournalInv
<1> QED BY ONLY <1>2, <1>3, <1>4

LEMMA InvNext == Inv /\ [JournalNext]_journalVars => Inv'
<1> SUFFICES ASSUME Inv, [JournalNext]_journalVars PROVE Inv'
  OBVIOUS
<1>1. CASE \E p \in Client, o \in Op : Submit(p, o) \/ Replay(p, o)
  BY <1>1, QuietSteps, JournalSteps DEF Worker
<1>2. CASE \E c \in Cron : CronSide(c) \/ CronPending(c)
  BY <1>2, QuietSteps DEF Worker
<1>3. CASE \E p \in Worker : Step(p) \/ Fail(p)
  BY <1>3, QuietSteps, JournalSteps, AppendKeeps, MirrorKeeps, Zenon DEF Step
<1>4. CASE \E r \in queue, upto \in 1..3 : Archive(r, upto)
  <2>1. PICK r \in queue, upto \in 1..3 : Archive(r, upto)
    BY <1>4, Zenon
  <2>2. JournalTypeOK'
    <3>1. JournalTypeOK /\ archive' = [archive EXCEPT ![r.op] = upto]
      BY <2>1, Zenon DEF Inv, Archive
    <3>2. archive' \in [Op -> 0..3]
      <4>1. archive \in [Op -> 0..3] /\ upto \in 0..3
        BY <3>1 DEF JournalTypeOK
      <4> QED BY <3>1, <4>1, Zenon
    <3>3. UNCHANGED <<journal, applied, marked, done, chain, mirror, queue, work, stage, fails>>
      BY <2>1, Zenon DEF Archive, store, trail
    <3> QED BY <3>1, <3>2, <3>3, Zenon DEF JournalTypeOK
  <2>3. JournalInv'
    BY <2>1, Zenon DEF Inv, Archive, JournalInv, MirrorFollowsChain, CompletedIsRecorded, Holds,
                store, trail
  <2> QED BY <2>2, <2>3 DEF Inv
<1>5. CASE UNCHANGED journalVars
  <2>1. JournalTypeOK'
    BY <1>5, Zenon DEF Inv, JournalTypeOK, journalVars, store, trail, outlet
  <2>2. JournalInv'
    BY <1>5, Zenon DEF Inv, JournalInv, MirrorFollowsChain, CompletedIsRecorded, Holds, journalVars, store,
                trail, outlet
  <2> QED BY <2>1, <2>2, Zenon DEF Inv
<1> QED BY <1>1, <1>2, <1>3, <1>4, <1>5, Zenon DEF JournalNext

LEMMA InvInit == JournalInit => Inv
<1> SUFFICES ASSUME JournalInit PROVE Inv
  OBVIOUS
<1>1. JournalTypeOK
  <2>1. work \in [Worker -> Work]
    BY IdleType DEF JournalInit
  <2>2. /\ journal \subseteq Op /\ applied \subseteq journal /\ marked \subseteq journal
        /\ done \subseteq journal /\ chain \in Seq(Op)
        /\ mirror \subseteq AuditEvent /\ queue \subseteq AuditEvent
    BY DEF JournalInit
  <2>3. archive \in [Op -> 0..3] /\ stage \in [Cron -> {"side", "pending"}] /\ fails \in Nat
    BY DEF JournalInit
  <2> QED BY <2>1, <2>2, <2>3 DEF JournalTypeOK, Work, PC
<1>2. JournalInv
  <2>1. MirrorFollowsChain
    BY DEF JournalInit, MirrorFollowsChain
  <2>2. CompletedIsRecorded /\ marked \subseteq applied
    BY DEF JournalInit, CompletedIsRecorded
  <2>3. \A p \in Worker : Holds(p)
    BY IdleType, Zenon DEF JournalInit, Holds
  <2> QED BY <2>1, <2>2, <2>3, Zenon DEF JournalInv
<1> QED BY <1>1, <1>2 DEF Inv

LEMMA InvHolds == JournalSpec => []Inv
BY InvInit, InvNext, PTL DEF JournalSpec

\* Tables, queue, archive and worker state of the journal keep their types.
THEOREM JournalTypes == JournalSpec => []JournalTypeOK
BY InvHolds, PTL DEF Inv

\* The D1 mirror is the chain of AdminAuditDO or lacks only its last event, for
\* any number of handlers, cron runs and failures.
THEOREM MirrorFollows == JournalSpec => []MirrorFollowsChain
BY InvHolds, PTL DEF Inv, JournalInv

\* finalize reports an operation complete only when its event is mirrored and
\* queued, and no event precedes its operation's side effect.
THEOREM CompletedRecorded == JournalSpec => []CompletedIsRecorded
BY InvHolds, PTL DEF Inv, JournalInv

(***************************************************************************)
(* The journal implements AuditTrail                                       *)
(***************************************************************************)
Seqs == {r.seq : r \in mirror}

LEMMA AppendRecords ==
    ASSUME Inv, NEW p \in Worker, AppendAudit(p)
    PROVE  Trail!Record(work[p].op) \/ UNCHANGED Trail!vars
<1>1. UNCHANGED <<mirror, done>>
  BY Zenon DEF AppendAudit, store
<1>2. CASE UNCHANGED chain
  BY ONLY <1>1, <1>2 DEF Trail!vars
<1>3. CASE ~Chained(work[p].op) /\ HeadMatches(work[p].boot)
           /\ chain' = Append(chain, work[p].op)
  <2>1. work[p].boot \in mirror \cup {Genesis}
    BY Zenon DEF Inv, JournalInv, Holds, AppendAudit
  <2>2. \A i \in DOMAIN chain : [seq |-> i, op |-> chain[i]] \in mirror
    BY <1>3, <2>1, HeadSeen, Zenon
  <2>3. \A r \in mirror : r.seq \in DOMAIN chain
    BY Zenon DEF Inv, JournalInv, MirrorFollowsChain
  <2>4. Seqs = DOMAIN chain
    <3>1. \A i \in DOMAIN chain : i \in Seqs
      <4> TAKE i \in DOMAIN chain
      <4>1. [seq |-> i, op |-> chain[i]].seq = i
        OBVIOUS
      <4> QED BY <2>2, <4>1, Zenon DEF Seqs
    <3> QED BY ONLY <2>3, <3>1 DEF Seqs
  <2> QED BY <1>1, <1>3, <2>4, Zenon DEF Trail!Record, Chained, Seqs
<1> QED BY <1>2, <1>3 DEF AppendAudit

LEMMA MirrorShows ==
    ASSUME Inv, NEW p \in Worker, MirrorEvent(p)
    PROVE  Trail!Show \/ UNCHANGED Trail!vars
<1> DEFINE row == [seq |-> work[p].ev, op |-> work[p].op]
<1>1. UNCHANGED <<chain, done>>
  BY DEF MirrorEvent, store
<1>2. CASE UNCHANGED mirror
  BY <1>1, <1>2 DEF Trail!vars
<1>3. CASE ~Mirrored(work[p].op) /\ mirror' = mirror \cup {row}
  <2>0. chain \in Seq(Op) /\ MirrorFollowsChain /\ Holds(p) /\ work[p].pc = "mirror"
    BY DEF Inv, JournalInv, JournalTypeOK, MirrorEvent
  <2>a. /\ \A r \in mirror : r.seq \in DOMAIN chain
        /\ \A i \in DOMAIN chain : i < Len(chain) => [seq |-> i, op |-> chain[i]] \in mirror
    BY <2>0, Zenon DEF MirrorFollowsChain
  <2>1. work[p].ev \in DOMAIN chain /\ chain[work[p].ev] = work[p].op
    BY <2>0, Zenon DEF Holds
  <2>2. work[p].ev = Len(chain)
    <3>1. ASSUME work[p].ev < Len(chain) PROVE FALSE
      <4>1. [seq |-> work[p].ev, op |-> chain[work[p].ev]] \in mirror
        BY <2>0, <2>1, <3>1, Zenon DEF MirrorFollowsChain
      <4>2. [seq |-> work[p].ev, op |-> chain[work[p].ev]].op = work[p].op
        BY ONLY <2>1
      <4> QED BY <1>3, <4>1, <4>2, Zenon DEF Mirrored
    <3> QED BY <2>0, <2>1, <3>1
  <2>3. \A i \in DOMAIN chain : [seq |-> i, op |-> chain[i]] \in mirror'
    <3>1. ASSUME NEW i \in DOMAIN chain PROVE i < Len(chain) \/ i = work[p].ev
      BY ONLY <2>0, <2>2
    <3> QED BY <1>3, <2>a, <2>1, <3>1, Zenon
  <2>4. \A r \in mirror' : r.seq \in DOMAIN chain
    <3>1. row.seq = work[p].ev
      OBVIOUS
    <3>2. mirror' = mirror \cup {row}
      BY <1>3
    <3> HIDE DEF row
    <3> QED BY <2>a, <2>1, <3>1, <3>2, Zenon
  <2>5. Seqs' = DOMAIN chain
    <3>1. \A i \in DOMAIN chain : i \in Seqs'
      <4> TAKE i \in DOMAIN chain
      <4>1. [seq |-> i, op |-> chain[i]].seq = i
        OBVIOUS
      <4> QED BY <2>3, <4>1, Zenon DEF Seqs
    <3> QED BY <2>4, <3>1 DEF Seqs
  <2> QED BY <1>1, <2>5 DEF Trail!Show, Seqs
<1> QED BY <1>2, <1>3 DEF MirrorEvent

LEMMA CheckpointCompletes ==
    ASSUME Inv, NEW p \in Worker, Checkpoint(p)
    PROVE  Trail!Complete(work[p].op)
<1> DEFINE row == [seq |-> work[p].ev, op |-> work[p].op]
<1>1. row \in mirror
  BY Zenon DEF Inv, JournalInv, Holds, Checkpoint
<1>2. row.seq \in Seqs /\ chain[row.seq] = work[p].op
  BY <1>1, Zenon DEF Inv, JournalInv, MirrorFollowsChain, Seqs
<1> QED BY <1>2, Zenon DEF Checkpoint, Trail!Complete, Seqs, trail

LEMMA TrailNext == Inv /\ [JournalNext]_journalVars => [Trail!Next]_Trail!vars
<1> SUFFICES ASSUME Inv, [JournalNext]_journalVars PROVE Trail!Next \/ UNCHANGED Trail!vars
  OBVIOUS
<1>0. \A p \in Worker : work[p].pc # "idle" => work[p].op \in Op
  BY Zenon DEF Inv, JournalInv, Holds, JournalTypeOK
<1>1. CASE \E p \in Worker : AppendAudit(p) \/ MirrorEvent(p) \/ Checkpoint(p)
  <2>1. PICK p \in Worker : AppendAudit(p) \/ MirrorEvent(p) \/ Checkpoint(p)
    BY <1>1
  <2>2. work[p].op \in Op
    BY <1>0, <2>1 DEF AppendAudit, MirrorEvent, Checkpoint
  <2> QED BY <2>1, <2>2, AppendRecords, MirrorShows, CheckpointCompletes DEF Trail!Next
<1>2. CASE UNCHANGED <<chain, mirror, done>>
  BY <1>2 DEF Trail!vars
<1>3. JournalNext => \/ \E p \in Worker : AppendAudit(p) \/ MirrorEvent(p) \/ Checkpoint(p)
              \/ UNCHANGED <<chain, mirror, done>>
  BY Zenon DEF JournalNext, Step, Submit, Replay, CronSide, CronPending, CallEffect, Mark, LoadAudit,
         ReadHead, SendAudit, Fail, Archive, store, trail
<1>4. UNCHANGED journalVars => UNCHANGED <<chain, mirror, done>>
  BY DEF journalVars, store, trail
<1> QED BY <1>1, <1>2, <1>3, <1>4

\* The journal, its audit chain and its mirror implement the abstract trail.
THEOREM ImplementsTrail == JournalSpec => TrailSpec
<1>1. JournalInit => Trail!Init
  BY DEF JournalInit, Trail!Init
<1> QED BY <1>1, TrailNext, InvHolds, PTL DEF JournalSpec, TrailSpec, Trail!Spec
==============================================================================
