---------------------------- MODULE HostBinding ----------------------------
(***************************************************************************)
(* What lies between an application and the client.                        *)
(*  - The C interface (copylocker-ffi/src/lib.rs): handles of clients and  *)
(*    buffers in two tables, used from several threads, by a host that may *)
(*    release things twice and use them after their release.               *)
(*  - Electron's main process (packages/electron/src/main/index.ts):       *)
(*    handlers on fixed IPC channels, which detach callbacks remove, and a *)
(*    rate limit per renderer.                                             *)
(*  - The bindings for React, Vue and Svelte: a component is unmounted     *)
(*    while its client is being created.                                   *)
(***************************************************************************)
EXTENDS Integers, Sequences, FiniteSets

CONSTANTS
  HThread,      \* threads of the host
  HAddr,        \* addresses the allocator may return
  HMaxHandle,   \* bound: handles drawn from each counter
  HApp,         \* CopyLocker instances in one main process
  HMaxAttach,   \* bound: attachIpc calls
  HMaxClock,    \* bound: the limiter's clock
  HWindow, HMaxRequests, HMaxBytes,   \* IpcPolicy.rateLimit
  HMaxCalls,    \* bound: calls of a renderer
  HMaxMount     \* bound: components mounted

ASSUME HBounds == {HMaxHandle, HMaxAttach, HMaxClock, HMaxCalls, HMaxMount} \subseteq Nat
ASSUME HLimits == {HWindow, HMaxRequests, HMaxBytes} \subseteq Nat \ {0}   \* positiveInteger

VARIABLES
  drawn,        \* NEXT_CLIENT_HANDLE and NEXT_BUFFER_HANDLE
  clientTable,  \* CLIENTS: the handles in it
  poisoned,     \* the mutexes a panic has poisoned: of clients, and 0 for CLIENTS
  dropped,      \* the clients whose memory was freed
  thread,       \* what each thread is doing, and how its last call ended
  bufTable,     \* BUFFERS: address by handle
  returned,     \* the cl_buf values the host was ever given
  owned         \* those of them it has not released

ffiVars == <<drawn, clientTable, poisoned, dropped, thread, bufTable, returned, owned>>

VARIABLES
  channel,      \* ipcMain: whose handler each channel has
  attached,     \* the attachIpc calls: app, and the channels their detach removes
  current,      \* #detachIpc of each app
  appChannels,     \* the channels the application itself has taken
  hostClock,
  bucket, accepted \* the present attachment's limiter of one renderer, what it let through

ipcVars == <<channel, attached, current, appChannels, hostClock, bucket, accepted>>

VARIABLE mounts     \* the mounted components, each with its creation

hostVars == <<ffiVars, ipcVars, mounts>>

-----------------------------------------------------------------------------
(* The C interface *)

CLIENTS == 0
ThreadAt(pc, h, addr, last) == [pc |-> pc, h |-> h, addr |-> addr, last |-> last]
Becomes(t, state) == thread' = [thread EXCEPT ![t] = state]
HIdle == ThreadAt("idle", 0, 0, "none")
InUseBy(h) == {t \in HThread : thread[t].h = h /\ thread[t].pc \in {"found", "inside"}}
Return(t, last) == Becomes(t, ThreadAt("idle", thread[t].h, thread[t].addr, last))

(* cl_create draws its handle before it takes the lock. *)
CreateDraw(t) ==
  /\ thread[t].pc = "idle"
  /\ drawn.client < HMaxHandle
  /\ drawn' = [drawn EXCEPT !.client = @ + 1]
  /\ Becomes(t, ThreadAt("create", drawn.client + 1, 0, "none"))
  /\ UNCHANGED <<clientTable, poisoned, dropped, bufTable, returned, owned>>

(* An argument is refused, or the client's construction fails: a code,     *)
(* NULL or CL_FAILURE, and no entry.                                       *)
Refused(t) ==
  /\ thread[t].pc = "idle"
  /\ Becomes(t, ThreadAt("idle", 0, 0, "refused"))
  /\ UNCHANGED <<drawn, clientTable, poisoned, dropped, bufTable, returned, owned>>

(* register_client: with the table's lock poisoned the new client is dropped. *)
CreateInsert(t) ==
  /\ thread[t].pc = "create"
  /\ IF CLIENTS \in poisoned
     THEN Return(t, "lost") /\ dropped' = dropped \cup {thread[t].h} /\ UNCHANGED clientTable
     ELSE Return(t, "ok") /\ clientTable' = clientTable \cup {thread[t].h} /\ UNCHANGED dropped
  /\ UNCHANGED <<drawn, poisoned, bufTable, returned, owned>>

(* The last reference goes while cl_destroy holds the table's lock: a drop *)
(* that panics (a runtime's may) poisons it.                               *)
DropUnderLock(h) ==
  /\ dropped' = dropped \cup {h}
  /\ poisoned' \in {poisoned, poisoned \cup {CLIENTS}}

DestroyAtOnce(h) ==
  /\ h \in clientTable /\ CLIENTS \notin poisoned
  /\ clientTable' = clientTable \ {h}
  /\ DropUnderLock(h)
  /\ UNCHANGED <<drawn, thread, bufTable, returned, owned>>

(* cl_destroy removes the table's reference; a call under way keeps its own. *)
(* With the table's lock poisoned it does nothing.                          *)
Destroy(h) ==
  /\ h \in clientTable /\ CLIENTS \notin poisoned
  /\ clientTable' = clientTable \ {h}
  /\ IF InUseBy(h) = {} THEN DropUnderLock(h) ELSE UNCHANGED <<dropped, poisoned>>
  /\ UNCHANGED <<drawn, thread, bufTable, returned, owned>>

(* with_client: look the handle up and clone the reference, ... *)
CallLookup(t, h) ==
  /\ thread[t].pc = "idle"
  /\ Becomes(t, IF CLIENTS \in poisoned THEN ThreadAt("idle", h, 0, "lost")
                ELSE IF h \notin clientTable THEN ThreadAt("idle", h, 0, "invalid")
                ELSE ThreadAt("found", h, 0, "none"))
  /\ UNCHANGED <<drawn, clientTable, poisoned, dropped, bufTable, returned, owned>>

LeaveClient(t) ==
  LET h == thread[t].h
  IN dropped' = IF h \notin clientTable /\ InUseBy(h) = {t} THEN dropped \cup {h} ELSE dropped

(* ... wait for its mutex, ... *)
CallLock(t) ==
  LET h == thread[t].h
  IN /\ thread[t].pc = "found"
     /\ \A u \in InUseBy(h) : thread[u].pc # "inside"
     /\ IF h \in poisoned THEN Return(t, "lost") /\ LeaveClient(t)
        ELSE Becomes(t, ThreadAt("inside", h, 0, "none")) /\ UNCHANGED dropped
     /\ UNCHANGED <<drawn, clientTable, poisoned, bufTable, returned, owned>>

FreeAddr ==
  HAddr \ ({bufTable[b] : b \in DOMAIN bufTable} \cup {thread[t].addr : t \in HThread})

(* ... and run the operation: it ends, with or without output or with a    *)
(* code, or is lost in a panic, also in the drop of the last reference,    *)
(* which ffi_call turns into a code.                                       *)
CallRun(t, outcome) ==
  /\ thread[t].pc = "inside"
  /\ poisoned' = IF outcome = "panic" THEN poisoned \cup {thread[t].h} ELSE poisoned
  /\ CASE outcome = "ok" -> Return(t, "ok")
       [] outcome = "panic" -> Return(t, "lost")
       [] outcome = "bytes" -> \E a \in FreeAddr :
            Becomes(t, ThreadAt("output", thread[t].h, a, "none"))
  /\ LeaveClient(t)
  /\ UNCHANGED <<drawn, clientTable, bufTable, returned, owned>>

RegisterBuffer(t) ==
  LET buf == [handle |-> drawn.buf + 1, addr |-> thread[t].addr]
  IN /\ thread[t].pc = "output"
     /\ drawn.buf < HMaxHandle
     /\ drawn' = [drawn EXCEPT !.buf = @ + 1]
     /\ bufTable' = [b \in DOMAIN bufTable \cup {buf.handle} |->
                       IF b = buf.handle THEN buf.addr ELSE bufTable[b]]
     /\ returned' = returned \cup {buf} /\ owned' = owned \cup {buf}
     /\ Becomes(t, ThreadAt("idle", thread[t].h, 0, "ok"))
     /\ UNCHANGED <<clientTable, poisoned, dropped>>

Matches(buf) == {b \in DOMAIN bufTable : b = buf.handle /\ bufTable[b] = buf.addr}
FreeByAddress(buf) ==
  /\ bufTable' = [b \in {x \in DOMAIN bufTable : bufTable[x] # buf.addr} |-> bufTable[b]]
  /\ owned' = owned \ {buf}
  /\ UNCHANGED <<drawn, clientTable, poisoned, dropped, thread, returned>>
(* cl_free_buf on any value the host has, also for the second time *)
FreeBuf(buf) ==
  /\ bufTable' = [b \in DOMAIN bufTable \ Matches(buf) |-> bufTable[b]]
  /\ owned' = owned \ {buf}
  /\ UNCHANGED <<drawn, clientTable, poisoned, dropped, thread, returned>>

FfiInit ==
  /\ drawn = [client |-> 0, buf |-> 0]
  /\ clientTable = {} /\ poisoned = {} /\ dropped = {}
  /\ thread = [t \in HThread |-> HIdle]
  /\ bufTable = << >> /\ returned = {} /\ owned = {}

FfiNext ==
  \/ \E t \in HThread :
       \/ CreateDraw(t) \/ Refused(t) \/ CreateInsert(t)
       \/ \E h \in 1..drawn.client : CallLookup(t, h)
       \/ CallLock(t)
       \/ \E outcome \in {"ok", "bytes", "panic"} : CallRun(t, outcome)
       \/ RegisterBuffer(t)
  \/ \E h \in 1..drawn.client : Destroy(h)
  \/ \E buf \in returned : FreeBuf(buf)

-----------------------------------------------------------------------------
(* Electron's IPC.  Two channels stand for the eight. *)

IPC_CHANNELS == {1, 2}
Nobody == 0
Application == -1      \* the application's own use of a channel

Attachment(app, registered) == [app |-> app, registered |-> registered]
Window(startedAt, requests, bytes) ==
  [startedAt |-> startedAt, requests |-> requests, bytes |-> bytes]
NoBucket == Window(-1, 0, 0)

(* attachIpc registers the channels in order; when one is taken it throws, *)
(* after it has removed the ones before it.  It makes a limiter of its own, *)
(* which starts with no window.                                            *)
AttachIpc(app) ==
  LET id == Len(attached) + 1
      free == \A c \in IPC_CHANNELS : channel[c] = Nobody
  IN /\ current[app] = 0
     /\ id <= HMaxAttach
     /\ attached' = Append(attached, Attachment(app, IF free THEN IPC_CHANNELS ELSE {}))
     /\ IF free THEN /\ channel' = [c \in IPC_CHANNELS |-> id]
                     /\ current' = [current EXCEPT ![app] = id]
                     /\ bucket' = NoBucket /\ accepted' = << >>
        ELSE UNCHANGED <<channel, current, bucket, accepted>>
     /\ UNCHANGED <<appChannels, hostClock>>

DetachKeepsList(id) ==
  /\ channel' = [c \in IPC_CHANNELS |-> IF c \in attached[id].registered THEN Nobody ELSE channel[c]]
  /\ current' = [a \in HApp |-> IF current[a] = id THEN 0 ELSE current[a]]
  /\ UNCHANGED <<attached, appChannels, hostClock, bucket, accepted>>
(* The callback of an attachIpc, called once or again. *)
Detach(id) ==
  /\ channel' = [c \in IPC_CHANNELS |-> IF c \in attached[id].registered THEN Nobody ELSE channel[c]]
  /\ attached' = [attached EXCEPT ![id] = Attachment(attached[id].app, {})]
  /\ current' = [a \in HApp |-> IF current[a] = id THEN 0 ELSE current[a]]
  /\ UNCHANGED <<appChannels, hostClock, bucket, accepted>>

TakeChannel(c) ==
  /\ channel[c] = Nobody /\ appChannels = {}
  /\ channel' = [channel EXCEPT ![c] = Application]
  /\ appChannels' = {c}
  /\ UNCHANGED <<attached, current, hostClock, bucket, accepted>>

OpenBucket ==
  IF bucket = NoBucket \/ hostClock - bucket.startedAt >= HWindow
  THEN Window(hostClock, 0, 0) ELSE bucket

MayConsume(b, bytes) == b.requests < HMaxRequests /\ bytes <= HMaxBytes - b.bytes

(* What is remembered of an accepted call: with the window it counted in,  *)
(* the bytes of all calls up to it.                                        *)
BytesSoFar == IF accepted = << >> THEN 0 ELSE accepted[Len(accepted)].sofar
Accepted(bytes, b) ==
  [at |-> hostClock, bytes |-> bytes, sofar |-> BytesSoFar + bytes, window |-> b]

(* #invoke: the limiter counts a call before the policy is asked. *)
Invoke(bytes) ==
  LET b == OpenBucket
  IN /\ \E app \in HApp : current[app] # 0
     /\ Len(accepted) < HMaxCalls
     /\ IF MayConsume(b, bytes)
        THEN /\ bucket' = Window(b.startedAt, b.requests + 1, b.bytes + bytes)
             /\ accepted' = Append(accepted, Accepted(bytes, bucket'))
        ELSE bucket' = b /\ UNCHANGED accepted
     /\ UNCHANGED <<channel, attached, current, appChannels, hostClock>>

HostTick ==
  /\ hostClock < HMaxClock
  /\ hostClock' = hostClock + 1
  /\ UNCHANGED <<channel, attached, current, appChannels, bucket, accepted>>

IpcInit ==
  /\ channel = [c \in IPC_CHANNELS |-> Nobody]
  /\ attached = << >> /\ appChannels = {}
  /\ current = [a \in HApp |-> 0]
  /\ hostClock = 0 /\ bucket = NoBucket /\ accepted = << >>

AttachNext ==
  \/ \E app \in HApp : AttachIpc(app)
  \/ \E id \in DOMAIN attached : Detach(id)
  \/ \E c \in IPC_CHANNELS : TakeChannel(c)
LimiterNext == HostTick \/ \E bytes \in 0..(HMaxBytes + 1) : Invoke(bytes)

-----------------------------------------------------------------------------
(* The framework bindings.  A mount (in React: one run of the provider's   *)
(* effect, which a change of `instance` ends) creates a client, unless it  *)
(* is given one; the creation ends before or after the unmount.            *)

View(kind, owner, state, client) ==
  [kind |-> kind, owner |-> owner, state |-> state, client |-> client]

(* onUnmount?.: an app of Vue before 3.5 has no such method, and nothing of *)
(* the plugin runs when it is unmounted.                                   *)
CleansUp(kind) == kind # "vue3.4"

Mount(kind, owner) ==
  /\ Len(mounts) < HMaxMount
  /\ kind = "svelte" => owner = "view"
  /\ mounts' = Append(mounts, View(kind, owner, "mounted",
                                   IF owner = "caller" THEN "live" ELSE "creating"))

Turns(i, state, client) ==
  mounts' = [mounts EXCEPT ![i] = View(mounts[i].kind, mounts[i].owner, state, client)]

ResolveLate(i) == mounts[i].client = "creating" /\ Turns(i, mounts[i].state, "live")
(* create resolves: a client that comes too late is disposed of *)
Resolve(i) ==
  /\ mounts[i].client = "creating"
  /\ Turns(i, mounts[i].state,
           IF mounts[i].state = "gone" /\ CleansUp(mounts[i].kind) THEN "disposed" ELSE "live")

RejectCreate(i) == mounts[i].client = "creating" /\ Turns(i, mounts[i].state, "failed")

(* The effect's cleanup, onUnmount or dispose; a given client is its owner's. *)
Unmount(i) ==
  /\ mounts[i].state = "mounted"
  /\ Turns(i, "gone", IF mounts[i].client = "live" /\ mounts[i].owner = "view"
                         /\ CleansUp(mounts[i].kind)
                      THEN "disposed" ELSE mounts[i].client)

ViewNext ==
  \/ \E kind \in {"react", "vue", "vue3.4", "svelte"}, owner \in {"view", "caller"} : Mount(kind, owner)
  \/ \E i \in DOMAIN mounts : Resolve(i) \/ RejectCreate(i) \/ Unmount(i)

FfiSpec == FfiInit /\ [][FfiNext]_ffiVars
IpcSpec == IpcInit /\ [][AttachNext \/ LimiterNext]_ipcVars
ViewSpec == mounts = << >> /\ [][ViewNext]_mounts

HostInit == FfiInit /\ IpcInit /\ mounts = << >>

-----------------------------------------------------------------------------
(* Properties *)

(* A buffer that cl_unseal, cl_challenge or cl_offline_request returned    *)
(* stays in place until the host releases it: repeated releases of older   *)
(* buffers, whose address the allocator may have used again, do not touch  *)
(* it (cl_free_buf).                                                       *)
BuffersStay ==
  /\ \A buf \in owned : buf.handle \in DOMAIN bufTable /\ bufTable[buf.handle] = buf.addr
  /\ \A a, b \in owned : a.addr = b.addr => a = b

(* No call runs on a client whose memory was freed, and no destroyed       *)
(* client outlives the last call on it, whichever threads destroy it       *)
(* meanwhile (cl_destroy, with_client).                                    *)
ClientsLiveForTheirCalls ==
  \A h \in 1..drawn.client :
    IF InUseBy(h) # {} \/ h \in clientTable THEN h \notin dropped
    ELSE (\A t \in HThread : thread[t].h = h => thread[t].pc # "create") => h \in dropped

(* A panic costs the host the client it happened in and no other, unless   *)
(* it is in the drop of a destroyed client under the lock of CLIENTS, which *)
(* costs it every client: a call is lost, in a panic or at a poisoned lock, *)
(* only after one of the two (ffi_call, with_client, cl_destroy).          *)
LossNeedsPanic ==
  \A t \in HThread : thread[t].last = "lost" => {thread[t].h, CLIENTS} \cap poisoned # {}

ThreadState(n) ==
  [pc : {"idle", "create", "found", "inside", "output"}, h : 0..n, addr : HAddr \cup {0},
   last : {"none", "ok", "refused", "invalid", "lost"}]
FfiTypes ==
  /\ drawn \in [client : Nat, buf : Nat]
  /\ thread \in [HThread -> ThreadState(drawn.client)]
  /\ clientTable \cup dropped \subseteq 1..drawn.client /\ poisoned \subseteq 0..drawn.client
  /\ bufTable \in [DOMAIN bufTable -> HAddr \cup {0}] /\ DOMAIN bufTable \subseteq 1..drawn.buf
  /\ returned \subseteq [handle : 1..drawn.buf, addr : HAddr \cup {0}] /\ owned \subseteq returned

BuffersApart ==
  /\ \A a, b \in returned : a.handle = b.handle => a = b
  /\ \A b, c \in DOMAIN bufTable : bufTable[b] = bufTable[c] => b = c
  /\ \A t \in HThread : thread[t].pc = "output" =>
       /\ \A b \in DOMAIN bufTable : bufTable[b] # thread[t].addr
       /\ \A u \in HThread \ {t} : thread[u].pc = "output" => thread[u].addr # thread[t].addr

CreationsApart ==
  \A t \in HThread :
    /\ thread[t].pc \in {"create", "found", "inside"} => thread[t].h # 0
    /\ thread[t].pc = "create" =>
         /\ thread[t].h \notin clientTable \cup dropped
         /\ \A u \in HThread \ {t} : thread[u].h = thread[t].h =>
              thread[u].pc \notin {"create", "found", "inside"}

(* What the three rest on.  Handles are drawn once and never again: a      *)
(* client that is being created is in no table and in no call, a value     *)
(* names one buffer, and bytes on their way into BUFFERS share no address  *)
(* with it or with each other (next_handle, register_client,               *)
(* register_buffer).                                                       *)
FfiInv == FfiTypes /\ BuffersApart /\ CreationsApart

(* While an app's IPC is attached every channel is its own, and a channel  *)
(* of the application is left to it: no detach callback, called late or    *)
(* twice, removes the handlers of another attachment (attachIpc).          *)
HandlersBelong ==
  /\ \A app \in HApp : current[app] # 0 => \A c \in IPC_CHANNELS : channel[c] = current[app]
  /\ \A c \in appChannels : channel[c] = Application

(* While one attachment lasts, in no window of windowMs does a renderer    *)
(* get through more than twice the limit of calls or of bytes, wherever it *)
(* lies across the limiter's own windows (RateLimiter.consume).  The next  *)
(* attachIpc counts from nothing.                                          *)
RateBounded ==
  \A i, j \in DOMAIN accepted :
    (i <= j /\ accepted[j].at - accepted[i].at < HWindow) =>
      /\ j - i + 1 <= 2 * HMaxRequests
      /\ accepted[j].sofar - accepted[i].sofar + accepted[i].bytes <= 2 * HMaxBytes

(* A client created for a component that is gone is disposed of, however   *)
(* late its creation ends, wherever the framework tells of the unmount, and *)
(* a client the application gave is not (useEffect's cleanup, onUnmount).  *)
ViewsRelease ==
  \A i \in DOMAIN mounts :
    IF mounts[i].owner = "caller" THEN mounts[i].client = "live"
    ELSE mounts[i].state = "gone" /\ CleansUp(mounts[i].kind) => mounts[i].client # "live"

(* What Electron's main process promises its renderers and the             *)
(* application: no detach removes the handlers of another attachment, and  *)
(* no renderer gets past twice an attachment's limit in any window         *)
(* (attachIpc, RateLimiter.consume).                                       *)
IpcGuarded == HandlersBelong /\ RateBounded

(* What HandlersBelong rests on: an attachment that still has its list has *)
(* every channel, so no two have one; the one an app would detach has it.  *)
AttachInv ==
  /\ channel \in [IPC_CHANNELS -> Int]
  /\ current \in [HApp -> Nat]
  /\ attached \in Seq([app : HApp, registered : {{}, IPC_CHANNELS}])
  /\ \A id \in DOMAIN attached : \A c \in attached[id].registered : channel[c] = id
  /\ \A app \in HApp : current[app] # 0 =>
       /\ current[app] \in DOMAIN attached
       /\ attached[current[app]].registered = IPC_CHANNELS
  /\ \A c \in appChannels : c \in IPC_CHANNELS /\ channel[c] = Application

(* What RateBounded rests on.  The limiter's windows lie HWindow apart, and *)
(* every call in its own; calls of one window are counted one by one, and   *)
(* calls of two neighbouring windows by what the first had left.            *)
Windows == [startedAt : Nat, requests : 0..HMaxRequests, bytes : 0..HMaxBytes]
Calls == [at : Nat, bytes : Nat, sofar : Nat, window : Windows]
CallInv(a, now) ==
  /\ a.at <= now
  /\ a.window.requests >= 1 /\ a.bytes <= a.window.bytes
  /\ a.window.startedAt <= a.at /\ a.at < a.window.startedAt + HWindow
Together(d, e, v, w) ==
  /\ d = w.requests - v.requests
  /\ e = w.bytes - v.bytes
Neighbours(d, e, v, w) ==
  /\ d <= HMaxRequests - v.requests + w.requests
  /\ e <= HMaxBytes - v.bytes + w.bytes
PairInv(d, a, b) ==
  LET v == a.window
      w == b.window
  IN \/ v.startedAt = w.startedAt /\ Together(d, b.sofar - a.sofar, v, w)
     \/ /\ w.startedAt >= v.startedAt + HWindow
        /\ w.startedAt < v.startedAt + 2 * HWindow =>
             Neighbours(d, b.sofar - a.sofar, v, w)
LimiterInv ==
  /\ hostClock \in Nat
  /\ bucket = NoBucket \/ (bucket \in Windows /\ bucket.startedAt <= hostClock)
  /\ accepted \in Seq(Calls)
  /\ \A i \in DOMAIN accepted : CallInv(accepted[i], hostClock)
  /\ \A i, j \in DOMAIN accepted : i <= j => PairInv(j - i, accepted[i], accepted[j])
  /\ IF accepted = << >> THEN bucket.requests = 0 /\ bucket.bytes = 0
     ELSE LET w == accepted[Len(accepted)].window
          IN \/ bucket = w
             \/ bucket.startedAt >= w.startedAt + HWindow /\ bucket.requests = 0 /\ bucket.bytes = 0
=============================================================================
