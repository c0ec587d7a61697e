SPECIFICATION CronSpec
CONSTANTS
    Op = {1, 2}
    NoOperation = 0
    HasEffect = {}
    Rejected = {}
    c1 = c1  c2 = c2  k1 = k1
    Client = {c1}
    Cron = {k1}
    MaxFail = 2
PROPERTIES JournalCompletes
