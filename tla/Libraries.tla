------------------------------ MODULE Libraries ------------------------------
(***************************************************************************)
(* Storage targets with limits: uploads charged to a daily allowance kept  *)
(* in memory, and the recorded health of resource libraries.               *)
(*                                                                         *)
(* Sources: internal/storage/limited.go and resource_library.go, and in    *)
(* internal/server resource_services.go, resource_handlers.go,             *)
(* routing_services.go (preflightProfile) and upload_services.go; the      *)
(* health rows are internal/db/db.go.                                      *)
(*                                                                         *)
(* A target is a resource library, a sequence of bindings of which the     *)
(* first is written, or a plain store with limits, which is its own only   *)
(* binding.  Every upload has a key of its own here: what uploads to one   *)
(* key do to each other is the module Replication.                         *)
(***************************************************************************)
EXTENDS Integers, SequencesExt, Selections

CONSTANTS
    Libraries, Stores,   \* resource libraries; plain stores with limits
    Bindings,            \* of a target, in the order of the configuration
    Constraints,         \* of a binding: [capacity, file, batch, daily]
    Policy,              \* of a target: [capacity, available, reserve]
    NoLimit,             \* a limit that is not set, or set to unlimited
    Checkable,           \* bindings whose driver has a health check
    Cargo,               \* what is uploaded: [size, batch] of one file
    MaxTransfers,        \* limits.max_active_transfers
    Uploads, Checks,     \* uploads, and requests to check health
    MaxDay, MaxRestarts  \* bounds

Targets == Libraries \cup Stores

Days == 0 .. MaxDay

First(t) == Bindings[t][1]

ASSUME LibrariesAssumption ==
    /\ Libraries \cap Stores = {}
    /\ \A t \in Targets : Bindings[t] # <<>> /\ IsInjective(Bindings[t])
    /\ \A t \in Stores : Bindings[t] = <<t>>
    /\ \A t \in Targets : Bindings[t] \in Seq(ToSet(Bindings[t]))
    /\ \A t \in Targets : Constraints[First(t)].daily \in Nat \cup {NoLimit}
    /\ \A c \in Cargo : c.size \in Nat \ {0} /\ c.batch \in Nat \ {0}
    /\ MaxTransfers \in Nat \ {0} /\ MaxDay \in Nat

AllBindings == UNION {ToSet(Bindings[t]) : t \in Libraries}

VARIABLES
    overclock,  \* limits.overclock_mode
    day,        \* the local date
    usage,      \* dailyUsage: target -> day -> bytes; a missing key is 0
    upload,     \* what each upload is doing
    health,     \* resource_library_health: binding -> [status, failures]
    check,      \* what each health check is doing
    streak,     \* history: failures of a binding saved in a row
    raced,      \* history: bindings whose row was written from a read
                \* that another write had made stale, since the last success
    checksLeft, restarts, uploadKinds  \* how often, and what kinds (bounds)

libraryVars == <<overclock, day, usage, upload, health, check, streak, raced,
                 checksLeft, restarts, uploadKinds>>

uploadVars == <<day, usage, upload>>
healthVars == <<health, check, streak, raced, checksLeft>>

-----------------------------------------------------------------------------
(* Limits.                                                                 *)

Limited == ~overclock

Fits(n, limit) == limit # NoLimit => n <= limit

Charges(t) == Limited /\ Constraints[First(t)].daily # NoLimit

\* checkUploadConstraints: what a put may be, whatever was put before.
MayPut(t, c) ==
    LET limit == Constraints[First(t)]
    IN  /\ Fits(c.batch, limit.batch)
        /\ Fits(c.size, limit.capacity)
        /\ Fits(c.size, limit.file)
        /\ Fits(c.size, limit.daily)

\* librarySummary: the capacity configured, or else the sum of the bindings'
\* when all of them are known.
EffectiveCapacity(t) ==
    IF Policy[t].capacity # NoLimit THEN Policy[t].capacity
    ELSE IF \E b \in ToSet(Bindings[t]) : Constraints[b].capacity = NoLimit
         THEN NoLimit
         ELSE MapThenSumSet(LAMBDA b : Constraints[b].capacity,
                            ToSet(Bindings[t]))

EffectiveAvailable(t) ==
    LET p == Policy[t]
    IN  IF p.available = NoLimit \/ p.reserve = NoLimit THEN p.available
        ELSE Max({0, p.available - p.reserve})

\* dailyUploadUsed
UsedToday(t) == usage[t][day]

\* checkPreflightConstraints: the first binding and what is left of its day.
BindingAllows(t, c) ==
    LET limit == Constraints[First(t)]
        total == c.size * c.batch
    IN  /\ Fits(c.batch, limit.batch)
        /\ Fits(total, limit.capacity)
        /\ Fits(c.size, limit.file)
        /\ Fits(UsedToday(t) + total, limit.daily)

\* checkLibraryPreflightConstraints, checkPolicyPreflightConstraints.
PolicyAllows(t, c) ==
    /\ Fits(c.size * c.batch, EffectiveCapacity(t))
    /\ Fits(c.size * c.batch, EffectiveAvailable(t))

\* PreflightPut: what a put may be now.  It looks at the whole batch, takes
\* nothing of the allowance, and holds for no longer than it takes to ask.
MayPreflight(t, c) == Limited => BindingAllows(t, c) /\ PolicyAllows(t, c)

\* checkRecentResourceLibraryHealth: only the binding that is written counts.
\* Whether its row is recent enough is left open.
MayBeUnhealthy(t) == t \in Libraries /\ health[First(t)].status = "failed"

-----------------------------------------------------------------------------
(* Uploads.                                                                *)

Off == [pc |-> "off"]

New == [pc |-> "new"]

Charged(u) == "charged" \in DOMAIN upload[u] /\ upload[u].charged

To(u, pc) == upload' = [upload EXCEPT ![u].pc = pc]

\* withTransferSlot: overclock mode has no slots.
Transferring ==
    Cardinality({u \in Uploads : upload[u].pc \in {"send", "wait", "release"}})
    + Cardinality({c \in Checks : check[c].pc = "probe"})

SlotFree == overclock \/ Transferring < MaxTransfers

\* preflightProfile, the first thing an upload's handler asks.  The copy of a
\* replication job goes to the target without it.
StartUpload(u, t, c, kind) ==
    /\ upload[u] = New
    /\ kind # "copy" => MayPreflight(t, c)
    /\ upload' = [upload EXCEPT ![u] =
           [pc |-> "put", kind |-> kind, target |-> t, size |-> c.size,
            batch |-> c.batch, day |-> day, charged |-> FALSE,
            blob |-> "none", rows |-> IF kind = "probe" THEN {"project"} ELSE {}]]
    /\ UNCHANGED <<day, usage>>

RefuseUpload(u, t, c) ==
    /\ upload[u] = New
    /\ \/ ~MayPreflight(t, c)
       \/ Limited /\ MayBeUnhealthy(t)
    /\ upload' = [upload EXCEPT ![u] = Off]
    /\ UNCHANGED <<day, usage>>

\* Broken variant: every upload is cleaned up after as a probe is.
AfterFailureUndo(u) == "undo"

\* A put that fails: an end-to-end probe takes its project back, and keeps
\* going when that fails too.
AfterFailure(u) ==
    IF upload[u].kind = "probe" THEN "undo" ELSE "failed"

\* reserveDailyUpload: looking and adding is one step under usageMu.  The key
\* holds the date of this moment.
Reserve(u) ==
    LET up == upload[u]
        t == up.target
        used == usage[t][day] + up.size
        allowed == Limited =>
            /\ MayPut(t, [size |-> up.size, batch |-> up.batch])
            /\ Charges(t) => used <= Constraints[First(t)].daily
    IN  /\ up.pc = "put" /\ SlotFree
        /\ IF allowed
           THEN /\ upload' = [upload EXCEPT ![u].pc = "send", ![u].day = day,
                                            ![u].charged = Charges(t)]
                /\ usage' = IF Charges(t) THEN [usage EXCEPT ![t][day] = used]
                            ELSE usage
           ELSE To(u, AfterFailure(u)) /\ UNCHANGED usage
        /\ UNCHANGED day

\* The deferred rollback of a put that did not succeed.
GiveUp(u, blob) ==
    upload' = [upload EXCEPT ![u].pc =
                   IF Charged(u) THEN "release" ELSE AfterFailure(u),
                             ![u].blob = blob]

\* The driver's Put.  One that fails may have stored the file all the same,
\* and a file that is stored may not be seen at once.
SendFails(u) ==
    /\ upload[u].pc = "send"
    /\ \E blob \in {"none", "hidden"} : GiveUp(u, blob)
    /\ UNCHANGED <<day, usage>>

\* Plain stores are done; libraries wait until they see the file.
Send(u) ==
    /\ upload[u].pc = "send"
    /\ \E blob \in {"hidden", "there"} :
          upload' = [upload EXCEPT ![u].blob = blob,
              ![u].pc = IF upload[u].target \in Libraries THEN "wait" ELSE "save"]
    /\ UNCHANGED <<day, usage>>

\* The target shows a file late, with or without somebody waiting for it.
Appear(u) ==
    /\ upload[u] \notin {Off, New} /\ upload[u].blob = "hidden"
    /\ upload' = [upload EXCEPT ![u].blob = "there"]
    /\ UNCHANGED <<day, usage>>

\* waitResourceLibraryPutVisible: one Stat after the other, until one finds
\* the file, the attempts are used up, or the request is gone.
SeeFile(u) ==
    /\ upload[u].pc = "wait" /\ upload[u].blob = "there"
    /\ To(u, "save")
    /\ UNCHANGED <<day, usage>>

StopWaiting(u) ==
    /\ upload[u].pc = "wait"
    /\ GiveUp(u, upload[u].blob)
    /\ UNCHANGED <<day, usage>>

\* Broken variant: the key is made anew from today's date.
ReleaseToday(u) ==
    LET up == upload[u]
        used == usage[up.target][day]
    IN  /\ up.pc = "release"
        /\ usage' = [usage EXCEPT ![up.target][day] =
                         IF used <= up.size THEN 0 ELSE used - up.size]
        /\ upload' = [upload EXCEPT ![u].pc = AfterFailure(u),
                                    ![u].charged = FALSE]
        /\ UNCHANGED day

\* releaseDailyUpload, of the key that was reserved, whatever the date is now.
Release(u) ==
    LET up == upload[u]
        used == usage[up.target][up.day]
    IN  /\ up.pc = "release"
        /\ usage' = [usage EXCEPT ![up.target][up.day] =
                         IF used <= up.size THEN 0 ELSE used - up.size]
        /\ upload' = [upload EXCEPT ![u].pc = AfterFailure(u),
                                    ![u].charged = FALSE]
        /\ UNCHANGED day

\* The object's row.  A probe whose row cannot be saved fails like its put.
Save(u) ==
    LET up == upload[u]
    IN  /\ up.pc = "save"
        /\ \/ upload' = [upload EXCEPT ![u].rows = @ \cup {"object"}, ![u].pc =
                            IF up.kind = "probe" THEN "read" ELSE "done"]
           \/ To(u, AfterFailure(u))
        /\ UNCHANGED <<day, usage>>

\* runResourceLibraryE2EProbe after its put: it reads the file back through the
\* public URL and, unless told to keep it, deletes it whatever the answer was.
ReadProbe(u) ==
    /\ upload[u].pc = "read"
    /\ \E pc \in {"done", "delete"} : To(u, pc)
    /\ UNCHANGED <<day, usage>>

\* A remote delete that fails is reported and the rows go all the same; the
\* bytes stay charged to the day.
DeleteProbe(u) ==
    /\ upload[u].pc = "delete"
    /\ \E blob \in {"none", upload[u].blob} :
          upload' = [upload EXCEPT ![u].pc = "drop", ![u].blob = blob]
    /\ UNCHANGED <<day, usage>>

\* DeleteObject and, when it succeeds, DeleteProject.
DropProbe(u) ==
    /\ upload[u].pc = "drop"
    /\ \E left \in {{}, {"project"}, {"project", "object"}} :
          upload' = [upload EXCEPT ![u].pc = "done", ![u].rows = left]
    /\ UNCHANGED <<day, usage>>

\* A probe that could not put its file deletes its project, or fails to.
UndoProbe(u) ==
    /\ upload[u].pc = "undo"
    /\ \E left \in {upload[u].rows, upload[u].rows \ {"project"}} :
          upload' = [upload EXCEPT ![u].pc = "failed", ![u].rows = left]
    /\ UNCHANGED <<day, usage>>

\* Midnight: uploads after it are charged to another key.
NextDay ==
    /\ day < MaxDay
    /\ day' = day + 1
    /\ UNCHANGED <<usage, upload>>

UploadStep ==
    \/ \E u \in Uploads, t \in Targets, c \in Cargo :
          \/ \E kind \in uploadKinds : StartUpload(u, t, c, kind)
          \/ RefuseUpload(u, t, c)
    \/ \E u \in Uploads :
          \/ Reserve(u) \/ SendFails(u) \/ Send(u)
          \/ Appear(u) \/ SeeFile(u) \/ StopWaiting(u) \/ Release(u)
          \/ Save(u) \/ ReadProbe(u) \/ DeleteProbe(u) \/ DropProbe(u)
          \/ UndoProbe(u)
    \/ NextDay

-----------------------------------------------------------------------------
(* Health.                                                                 *)

NoCheck == [pc |-> "idle"]

\* handleResourceLibraryHealthCheck, for one library.  One that has a row for
\* each binding, recent enough for the request, is skipped unless it is forced;
\* how recent is enough is for the request to say, so that skipping is no step.
StartCheck(c, l) ==
    /\ check[c] = NoCheck
    /\ checksLeft > 0 /\ checksLeft' = checksLeft - 1
    /\ SlotFree
    /\ check' = [check EXCEPT ![c] = [pc |-> "probe", library |-> l]]
    /\ UNCHANGED <<health, streak, raced>>

\* Every binding is probed, and only then is anything saved: one that cannot be
\* checked fails, and a driver may come back without an answer.
Probe(c) ==
    /\ check[c].pc = "probe"
    /\ LET bs == Bindings[check[c].library]
       IN  \E answer \in [ToSet(bs) -> {"ok", "failed", "none"}] :
              /\ \A b \in ToSet(bs) \ Checkable : answer[b] = "failed"
              /\ LET items == Select(bs, LAMBDA b : answer[b] # "none")
                 IN  check' = [check EXCEPT ![c] =
                         IF items = <<>> THEN NoCheck
                         ELSE [pc |-> "read", items |-> items, answer |-> answer]]
    /\ UNCHANGED <<health, streak, raced, checksLeft>>

\* UpsertResourceLibraryHealth reads the row in a statement of its own...
ReadHealth(c) ==
    /\ check[c].pc = "read"
    /\ check' = [check EXCEPT ![c] =
           [pc |-> "write", items |-> check[c].items, answer |-> check[c].answer,
            failures |-> health[Head(check[c].items)].failures, stale |-> FALSE]]
    /\ UNCHANGED <<health, streak, raced, checksLeft>>

\* Broken variant: the failures before this one are not carried over.
CountedAfresh(status, failures) ==
    [status |-> status, failures |-> IF status = "ok" THEN 0 ELSE 1]

\* What is written of a binding, given the failures that were read.
Counted(status, failures) ==
    [status |-> status, failures |-> IF status = "ok" THEN 0 ELSE failures + 1]

\* ... and writes it in another.  The next binding follows.
WriteHealth(c) ==
    LET k == check[c]
        b == Head(k.items)
        status == k.answer[b]
        Behind(d) == check[d].pc = "write" /\ Head(check[d].items) = b
    IN  /\ k.pc = "write"
        /\ health' = [health EXCEPT ![b] = Counted(status, k.failures)]
        /\ streak' = [streak EXCEPT ![b] = IF status = "ok" THEN 0 ELSE @ + 1]
        /\ raced' = IF status = "ok" THEN raced \ {b}
                    ELSE IF k.stale THEN raced \cup {b} ELSE raced
        /\ check' = [d \in Checks |->
               IF d = c
               THEN IF Len(k.items) = 1 THEN NoCheck
                    ELSE [pc |-> "read", items |-> Tail(k.items), answer |-> k.answer]
               ELSE IF Behind(d) THEN [check[d] EXCEPT !.stale = TRUE]
               ELSE check[d]]
        /\ UNCHANGED checksLeft

\* A statement fails: the bindings that are left are not saved.
DropCheck(c) ==
    /\ check[c].pc \in {"read", "write"}
    /\ check' = [check EXCEPT ![c] = NoCheck]
    /\ UNCHANGED <<health, streak, raced, checksLeft>>

CheckStep ==
    \E c \in Checks :
       \/ \E l \in Libraries : StartCheck(c, l)
       \/ Probe(c) \/ ReadHealth(c) \/ WriteHealth(c) \/ DropCheck(c)

-----------------------------------------------------------------------------
\* The allowance is in memory: a restart gives it back, and breaks off whatever
\* is under way.  Health is in the database.
RestartLibraries ==
    /\ restarts < MaxRestarts /\ restarts' = restarts + 1
    /\ usage' = [t \in Targets |-> [d \in Days |-> 0]]
    /\ upload' = [u \in Uploads |->
           IF upload[u] \in {Off, New} THEN upload[u]
           ELSE [upload[u] EXCEPT !.charged = FALSE,
                     !.pc = IF @ = "done" THEN @ ELSE "failed"]]
    /\ check' = [c \in Checks |-> NoCheck]
    /\ UNCHANGED <<overclock, day, health, streak, raced, checksLeft, uploadKinds>>

\* The uploads that there will be, of which kinds, and how many checks; other
\* uploads never start.
LibrariesInit(us, kindsOf, n) ==
    /\ overclock \in BOOLEAN
    /\ day = 0
    /\ usage = [t \in Targets |-> [d \in Days |-> 0]]
    /\ upload = [u \in Uploads |-> IF u \in us THEN New ELSE Off]
    /\ health = [b \in AllBindings |-> [status |-> "unknown", failures |-> 0]]
    /\ check = [c \in Checks |-> NoCheck]
    /\ streak = [b \in AllBindings |-> 0]
    /\ raced = {}
    /\ checksLeft = n
    /\ restarts = 0
    /\ uploadKinds = kindsOf

LibrariesNext ==
    \/ UploadStep /\ UNCHANGED <<overclock, healthVars, restarts, uploadKinds>>
    \/ CheckStep /\ UNCHANGED <<overclock, uploadVars, restarts, uploadKinds>>
    \/ RestartLibraries

-----------------------------------------------------------------------------
(* Properties.                                                             *)

Sums(t, d) ==
    MapThenSumSet(LAMBDA u : upload[u].size,
                  {u \in Uploads : /\ Charged(u)
                                   /\ upload[u].target = t
                                   /\ upload[u].day = d})

\* What a check reads and writes rows of are bindings that gave an answer.
BindingsAnswered ==
    \A c \in Checks : check[c].pc \in {"read", "write"} =>
       /\ check[c].items \in Seq(AllBindings) \ {<<>>}
       /\ \A b \in ToSet(check[c].items) : check[c].answer[b] \in {"ok", "failed"}

LibrariesTypeOK ==
    /\ overclock \in BOOLEAN /\ day \in Days
    /\ usage \in [Targets -> [Days -> Nat]]
    /\ \A u \in Uploads : upload[u] \in {Off, New} \/
          /\ upload[u].pc \in {"put", "send", "wait", "release", "save", "read",
                               "delete", "drop", "undo", "done", "failed"}
          /\ upload[u].target \in Targets /\ upload[u].day \in 0 .. day
          /\ upload[u].charged \in BOOLEAN
          /\ upload[u].blob \in {"none", "hidden", "there"}
          /\ upload[u].rows \subseteq {"project", "object"}
          /\ upload[u].kind # "probe" => upload[u].pc \notin {"read", "delete", "drop", "undo"}
    /\ health \in [AllBindings ->
                     [status : {"unknown", "ok", "failed"}, failures : Nat]]
    /\ raced \subseteq AllBindings
    /\ \A c \in Checks : check[c].pc \in {"idle", "probe", "read", "write"}
    /\ BindingsAnswered

\* The allowance of a day that has been used is the sum of the puts charged to
\* that day that are under way or were accepted since the server started, no
\* put is forgotten and none is counted twice, however midnight, failures and
\* the deferred releases of other puts fall between its reservation and its
\* end; it stays within the limit, and a file that was accepted is paid for.
\* (reserveDailyUpload and releaseDailyUpload of both stores.)
DailyUsage ==
    \A t \in Targets :
       /\ \A d \in Days :
             /\ usage[t][d] = Sums(t, d)
             /\ Fits(usage[t][d], Constraints[First(t)].daily)
       /\ restarts = 0 =>
             \A u \in Uploads :
                /\ Charges(t) /\ upload[u] \notin {Off, New}
                /\ upload[u].target = t
                /\ upload[u].pc \in {"save", "read", "delete", "drop", "done"}
                => Charged(u)

\* A resource library's row says how many checks of the binding have failed one
\* after the other since the last that succeeded, through restarts and checks
\* broken off half-way, unless one of these was saved from a read that another
\* check had made stale.  (UpsertResourceLibraryHealth.)
HealthCounted ==
    \A b \in AllBindings : b \in raced \/
       /\ health[b].failures = streak[b]
       /\ health[b].status = "failed" <=> streak[b] > 0

==============================================================================
