------------------------ MODULE KeepaliveHelperProofs -------------------------
(***************************************************************************)
(* Theorems about KeepaliveHelper: its safety properties, for every number  *)
(* of GPUs, calls and processes.                                           *)
(*                                                                         *)
(* An identity (PID, boot, start ticks) names one process for ever: ticks   *)
(* grow within a boot, so a process that is started later never has the     *)
(* identity of an earlier one.  The call that holds the lock knows what the *)
(* file says, and what it has started itself; every other call has nothing. *)
(***************************************************************************)
EXTENDS KeepaliveHelper, TLAPS

Ours == {"loading", "worker", "zombie"}

Locked == {"checking", "opening", "rechecking", "signalling", "forgetting", "querying"}

\* The process that an identity names still has its PID.
Same(i) ==
    /\ i # None /\ i.boot = boot
    /\ proc[i.pid].kind # "free" /\ proc[i.pid].ticks = i.ticks

\* An identity names a process of the past, and never another GPU's.
Known(i, g) ==
    i # None =>
        /\ i.boot <= boot /\ (i.boot = boot => i.ticks <= clock)
        /\ Same(i) => proc[i.pid].kind \in Ours /\ proc[i.pid].gpu = g

Processes ==
    \A p \in Pid : proc[p].kind # "free" =>
        /\ proc[p].ticks <= clock
        /\ proc[p].kind \in Ours => proc[p].gpu \in Gpu /\ proc[p].parent \in Call
        /\ proc[p].kind \notin Ours => proc[p].parent = None

Records == \A g \in Gpu : Known(file[g], g)

\* A worker whose helper is at work is the child of that helper.
Parents ==
    \A p \in Pid : proc[p].kind \in {"loading", "worker"} =>
        /\ call[proc[p].parent].pc # "new"
        /\ Alive(proc[p].parent) => call[proc[p].parent].child[proc[p].gpu] = p

\* Only the holder of the lock has anything to start.
Quiet(c) ==
    /\ call[c].todo \subseteq call[c].asked
    /\ call[c].pc = "locking" => call[c].todo = call[c].asked
    /\ lock # c => call[c].pending = {} /\ \A g \in Gpu : call[c].child[g] = None

Children(c) ==
    \A g \in Gpu : call[c].child[g] # None =>
        /\ At(c, "enable", "checking") /\ call[c].todo = {}
        /\ proc[call[c].child[g]].kind \in Ours
        /\ proc[call[c].child[g]].gpu = g /\ proc[call[c].child[g]].parent = c

\* What the holder of the lock has in memory: the file, and what it started.
Agree(c) ==
    lock = c => \A g \in Gpu :
        /\ call[c].child[g] = None \/ g \in call[c].pending => call[c].ids[g] = file[g]
        /\ call[c].child[g] # None /\ g \notin call[c].pending
              => call[c].ids[g] = IdentityOf(call[c].child[g])
        /\ call[c].child[g] # None \/ g \in call[c].pending => file[g] = None

\* A stop aims at the recorded worker or at nothing.
Stopping(c) ==
    call[c].pc \in {"opening", "rechecking", "signalling", "forgetting"} =>
        LET i == call[c].ids[call[c].target]
            f == call[c].pidfd IN
        /\ call[c].op = "disable" /\ call[c].target \in call[c].asked /\ i # None
        /\ call[c].pc \in {"rechecking", "signalling"} =>
              f # None /\ f.pid = i.pid /\ (Same(i) => f.ticks = i.ticks)
        /\ call[c].pc = "signalling" => i.boot = boot /\ f.ticks = i.ticks
        /\ call[c].pc = "forgetting" => ~Matches(i)

\* GPUs a stop has examined have no record.
Stopped(c) ==
    lock = c /\ call[c].op = "disable" =>
        \A g \in call[c].asked \ call[c].todo :
            call[c].ids[g] = None \/ (g = call[c].target /\ call[c].pc # "checking")

CallSound(c) == Quiet(c) /\ Children(c) /\ Agree(c) /\ Stopping(c) /\ Stopped(c)

Inv ==
    /\ TypeOK
    /\ Processes
    /\ Records
    /\ Parents
    /\ \A c \in Call : CallSound(c)
    /\ NoUnrecordedWorker

-----------------------------------------------------------------------------
(* Identities *)

\* The identity of a running worker is one.
LEMMA Identified ==
  ASSUME TypeOK, NEW p \in Pid
  PROVE  /\ IdentityOf(p) \in Identity /\ IdentityOf(p) # None
         /\ IdentityOf(p).pid = p /\ IdentityOf(p).boot = boot /\ IdentityOf(p).ticks = proc[p].ticks
<1>1. IdentityOf(p) \in Identity
  BY DEF TypeOK, Process, IdentityOf, Identity
<1> QED
  BY <1>1, HelperAssumption DEF IdentityOf

LEMMA RunningMatches ==
  ASSUME TypeOK, NEW p \in Pid, proc[p].kind \in {"loading", "worker"}
  PROVE  Matches(IdentityOf(p))
  BY Identified DEF Matches

\* What may become of the process under a PID while the server is up.
Kept(p) ==
    /\ proc[p].kind # "free" /\ proc'[p].kind # "free"
    /\ proc'[p].ticks = proc[p].ticks /\ proc'[p].gpu = proc[p].gpu
    /\ proc'[p].parent = proc[p].parent
    /\ proc'[p].kind \in Ours <=> proc[p].kind \in Ours
    /\ proc'[p].kind \in {"loading", "worker"} => proc[p].kind \in {"loading", "worker"}

Born(p) ==
    /\ proc[p].kind = "free" /\ clock' = clock + 1 /\ proc'[p].ticks = clock + 1
    /\ proc'[p].kind \in Ours => proc'[p].gpu \in Gpu /\ proc'[p].parent \in Call
    /\ proc'[p].kind \notin Ours => proc'[p].parent = None

Gone(p) == proc'[p].kind = "free"

Moved ==
    /\ boot' = boot /\ clock' \in Nat /\ clock <= clock'
    /\ \A p \in Pid : Kept(p) \/ Born(p) \/ Gone(p)

\* Nothing happens to processes.
LEMMA StillMoved ==
  ASSUME TypeOK, UNCHANGED <<boot, clock, proc>>
  PROVE  Moved
  BY DEF TypeOK, Moved, Kept, Gone

\* A later process never has an identity that is known.
LEMMA SameStays ==
  ASSUME TypeOK, Moved, NEW i \in Identity, NEW g, Known(i, g)
  PROVE  /\ Same(i)' => Same(i)
         /\ Matches(i)' => Matches(i)
         /\ Known(i, g)'
<1>1. i.pid \in Pid /\ i.ticks \in Nat /\ i.boot \in Nat /\ clock \in Nat /\ boot \in Nat /\ i # None
  BY HelperAssumption DEF Identity, TypeOK
<1>2. Kept(i.pid) \/ Born(i.pid) \/ Gone(i.pid)
  BY <1>1 DEF Moved
<1>3. i.boot <= boot /\ (i.boot = boot => i.ticks <= clock) /\ boot' = boot /\ clock <= clock' /\ clock' \in Nat
  BY <1>1 DEF Known, Moved
<1>4. Same(i)' => Same(i) /\ Kept(i.pid)
  BY <1>1, <1>2, <1>3 DEF Same, Kept, Born, Gone
<1>5. Matches(i)' => Matches(i)
  BY <1>1, <1>2, <1>3 DEF Matches, Kept, Born, Gone
<1>6. Same(i)' => proc'[i.pid].kind \in Ours /\ proc'[i.pid].gpu = g
  BY <1>1, <1>4 DEF Known, Kept
<1>7. i.boot <= boot' /\ (i.boot = boot' => i.ticks <= clock')
  BY <1>1, <1>3
<1> QED
  BY <1>4, <1>5, <1>6, <1>7 DEF Known

LEMMA ProcessesStay ==
  ASSUME TypeOK, Processes, Moved
  PROVE  Processes'
<1> SUFFICES ASSUME NEW p \in Pid, proc'[p].kind # "free"
             PROVE  /\ proc'[p].ticks <= clock'
                    /\ proc'[p].kind \in Ours => proc'[p].gpu \in Gpu /\ proc'[p].parent \in Call
                    /\ proc'[p].kind \notin Ours => proc'[p].parent = None
  BY DEF Processes
<1>1. Kept(p) \/ Born(p)
  BY DEF Moved, Gone
<1>2. clock \in Nat /\ clock' \in Nat /\ clock <= clock' /\ proc[p].ticks \in Nat
  BY DEF TypeOK, Process, Moved
<1>3. CASE Kept(p)
  BY <1>2, <1>3 DEF Processes, Kept
<1>4. CASE Born(p)
  BY <1>2, <1>4 DEF Born
<1> QED
  BY <1>1, <1>3, <1>4

LEMMA RecordsStay ==
  ASSUME TypeOK, Records, Moved, \A g \in Gpu : file'[g] = file[g] \/ file'[g] = None
  PROVE  Records'
<1> SUFFICES ASSUME NEW g \in Gpu, file'[g] # None PROVE Known(file[g], g)'
  BY DEF Records, Known, Same
<1>1. file[g] \in Identity /\ file'[g] = file[g]
  BY DEF TypeOK, MaybeIdentity
<1>2. Known(file[g], g)
  BY DEF Records
<1> QED
  BY <1>1, <1>2, SameStays DEF Known, Same

-----------------------------------------------------------------------------
(* What steps leave alone *)

\* The calls besides c are as they were.
Others(c) == \A d \in Call : d # c => call'[d] = call[d]

\* The holder of the lock has identities of its own GPUs in memory.
LEMMA HolderIds ==
  ASSUME Inv, NEW c \in Call, lock = c, NEW g \in Gpu
  PROVE  call[c].ids[g] \in MaybeIdentity /\ Known(call[c].ids[g], g)
<1>1. call[c].ids[g] \in MaybeIdentity /\ call[c].child[g] \in Pid \cup {None}
  BY DEF Inv, TypeOK, CallRecord
<1>2. CASE call[c].child[g] = None \/ g \in call[c].pending
  <2>1. call[c].ids[g] = file[g]
    BY <1>2 DEF Inv, CallSound, Agree
  <2>2. Known(file[g], g)
    BY DEF Inv, Records
  <2> QED
    BY <1>1, <2>1, <2>2
<1>3. CASE call[c].child[g] # None /\ g \notin call[c].pending
  <2> DEFINE p == call[c].child[g]
  <2>1. p \in Pid /\ call[c].ids[g] = IdentityOf(p)
    BY <1>1, <1>3 DEF Inv, CallSound, Agree
  <2>2. proc[p].kind \in Ours /\ proc[p].gpu = g
    BY <1>3 DEF Inv, CallSound, Children
  <2>3. proc[p].ticks <= clock /\ boot \in Nat
    BY <2>1, <2>2 DEF Inv, Processes, Ours, TypeOK
  <2>4. /\ IdentityOf(p).pid = p /\ IdentityOf(p).boot = boot
        /\ IdentityOf(p).ticks = proc[p].ticks
    BY <2>1, Identified DEF Inv
  <2>5. Known(IdentityOf(p), g)
    BY <2>2, <2>3, <2>4 DEF Known, Same
  <2> QED
    BY <1>1, <2>1, <2>5
<1> QED
  BY <1>2, <1>3

\* A call that is not touched stays sound while its children live.
LEMMA SoundStays ==
  ASSUME Inv, NEW d \in Call, Moved, call'[d] = call[d], lock' = d <=> lock = d,
         lock = d => file' = file,
         \A g \in Gpu : call[d].child[g] # None => Kept(call[d].child[g])
  PROVE  CallSound(d)'
<1>1. Quiet(d) /\ Children(d) /\ Agree(d) /\ Stopping(d) /\ Stopped(d)
  BY DEF Inv, CallSound
<1>2. Quiet(d)'
  BY <1>1 DEF Quiet
<1>3. Children(d)'
  BY <1>1 DEF Children, At, Kept
<1>4. Agree(d)'
  <2>1. \A g \in Gpu : call[d].child[g] # None => IdentityOf(call[d].child[g])' = IdentityOf(call[d].child[g])
    BY DEF IdentityOf, Kept, Moved
  <2> QED
    BY <1>1, <2>1 DEF Agree, IdentityOf
<1>5. Stopping(d)'
  <2> SUFFICES ASSUME call[d].pc \in {"opening", "rechecking", "signalling", "forgetting"}
               PROVE  Stopping(d)'
    BY DEF Stopping
  <2> DEFINE i == call[d].ids[call[d].target]
  <2>1. lock = d /\ call[d].target \in Gpu /\ i # None
    BY <1>1 DEF Inv, TypeOK, CallRecord, Stopping
  <2>2. i \in Identity /\ Known(i, call[d].target)
    BY <2>1, HolderIds DEF MaybeIdentity
  <2>3. (Same(i)' => Same(i)) /\ (Matches(i)' => Matches(i)) /\ boot' = boot
    BY <2>2, SameStays DEF Inv, Moved
  <2> QED
    BY <1>1, <2>3 DEF Stopping, Same, Matches
<1>6. Stopped(d)'
  BY <1>1 DEF Stopped
<1> QED
  BY <1>2, <1>3, <1>4, <1>5, <1>6 DEF CallSound

\* A call that does not hold the lock is touched by nothing the holder does.
LEMMA OthersSound ==
  ASSUME Inv, NEW c \in Call, lock = c, lock' \in {c, None}, Others(c)
  PROVE  \A d \in Call : d # c => CallSound(d)'
<1> SUFFICES ASSUME NEW d \in Call, d # c PROVE CallSound(d)'
  OBVIOUS
<1>1. call'[d] = call[d] /\ lock # d /\ lock' # d
  BY HelperAssumption DEF Others
<1>2. call[d].pc \notin Locked
  BY <1>1 DEF Inv, TypeOK, Locked
<1>3. Quiet(d)' /\ Children(d)'
  BY <1>1 DEF Inv, CallSound, Quiet, Children
<1>4. Agree(d)' /\ Stopping(d)' /\ Stopped(d)'
  BY <1>1, <1>2 DEF Agree, Stopping, Stopped, Locked
<1> QED
  BY <1>3, <1>4 DEF CallSound

\* The holder of the lock goes on without a process being touched.
LEMMA StepInv ==
  ASSUME Inv, NEW c \in Call, lock = c, UNCHANGED <<boot, clock, proc, lock, kills>>,
         Others(c), call' \in [Call -> CallRecord], call'[c].pc \in Locked,
         call'[c].child = call[c].child,
         file' \in [Gpu -> MaybeIdentity],
         \A g \in Gpu : file'[g] = file[g] \/ (file'[g] = None /\ ~Matches(file[g])),
         CallSound(c)'
  PROVE  Inv'
<1>1. call[c].pc \in Locked
  BY DEF Inv, TypeOK, Locked
<1>2. \A d \in Call : /\ call'[d].child = call[d].child /\ Alive(d)' = Alive(d)
                      /\ call'[d].pc = "new" <=> call[d].pc = "new"
                      /\ call'[d].pc = "killed" <=> call[d].pc = "killed"
  BY <1>1 DEF Others, Alive, Locked
<1>3. TypeOK'
  BY <1>1 DEF Inv, TypeOK, Others, Locked
<1>4. Processes' /\ Records'
  BY StillMoved, ProcessesStay, RecordsStay DEF Inv
<1>5. Parents'
  BY <1>2 DEF Inv, Parents, Processes, Ours
<1>6. NoUnrecordedWorker'
  <2> SUFFICES ASSUME NEW p \in Pid, proc[p].kind = "worker"
               PROVE  \/ file'[proc[p].gpu] = IdentityOf(p)
                      \/ Alive(proc[p].parent)'
                      \/ call'[proc[p].parent].pc = "killed"
    BY DEF NoUnrecordedWorker, IdentityOf, Alive
  <2>1. proc[p].gpu \in Gpu /\ proc[p].parent \in Call
    BY DEF Inv, Processes, Ours
  <2>2. file[proc[p].gpu] = IdentityOf(p) => file'[proc[p].gpu] = file[proc[p].gpu]
    BY <2>1, RunningMatches DEF Inv
  <2> QED
    BY <1>2, <2>1, <2>2 DEF Inv, NoUnrecordedWorker
<1>7. \A d \in Call : CallSound(d)'
  BY OthersSound
<1> QED
  BY <1>3, <1>4, <1>5, <1>6, <1>7 DEF Inv

-----------------------------------------------------------------------------
(* Steps of the holder that touch no process *)

\* A call gets a new record.
LEMMA PutCall ==
  ASSUME TypeOK, NEW c \in Call, NEW r \in CallRecord, call' = [call EXCEPT ![c] = r]
  PROVE  call'[c] = r /\ Others(c) /\ call' \in [Call -> CallRecord]
  BY DEF TypeOK, Others

LEMMA Holds ==
  ASSUME TypeOK, NEW c \in Call, call[c].pc \in Locked
  PROVE  lock = c
  BY DEF TypeOK, Locked

\* A holder that has started nothing has in memory what the file says.
LEMMA NothingStarted ==
  ASSUME Inv, NEW c \in Call, lock = c,
         call[c].op # "enable" \/ call[c].pc # "checking" \/ call[c].todo # {}
  PROVE  \A g \in Gpu : call[c].child[g] = None /\ call[c].ids[g] = file[g]
<1>1. \A g \in Gpu : call[c].child[g] = None
  BY DEF Inv, CallSound, Children, At
<1> QED
  BY <1>1 DEF Inv, CallSound, Agree

LEMMA CheckRecordedInv ==
  ASSUME Inv, NEW c \in Call, NEW g \in Gpu, CheckRecorded(c, g)
  PROVE  Inv'
<1> DEFINE r == call[c].ids[g]
<1>1. /\ call[c].pc = "checking" /\ call[c].op = "enable" /\ g \in call[c].todo
      /\ UNCHANGED <<boot, clock, proc, lock, kills>>
  BY DEF CheckRecorded, At
<1>2. lock = c
  BY <1>1, Holds DEF Inv, Locked
<1>3. \A h \in Gpu : call[c].child[h] = None /\ call[c].ids[h] = file[h]
  BY <1>1, <1>2, NothingStarted
<1>4. /\ call' \in [Call -> CallRecord] /\ Others(c)
      /\ call'[c].pc = "checking" /\ call'[c].op = "enable"
      /\ call'[c].todo = call[c].todo \ {g} /\ call'[c].asked = call[c].asked
      /\ call'[c].child = call[c].child
      /\ call'[c].ids[g] = IF Matches(r) THEN r ELSE None
      /\ \A h \in Gpu : h # g => call'[c].ids[h] = call[c].ids[h]
      /\ call'[c].pending = IF Matches(r) THEN call[c].pending ELSE call[c].pending \cup {g}
  <2> DEFINE s == [call[c] EXCEPT !.todo = @ \ {g}, !.ids[g] = IF Matches(r) THEN @ ELSE None,
                                  !.pending = IF Matches(r) THEN @ ELSE @ \cup {g}]
  <2>1. call[c] \in CallRecord
    BY DEF Inv, TypeOK
  <2>2. s \in CallRecord
    BY <2>1, <1>1 DEF CallRecord, MaybeIdentity
  <2>3. call' = [call EXCEPT ![c] = s]
    BY DEF CheckRecorded
  <2>4. call'[c] = s /\ Others(c) /\ call' \in [Call -> CallRecord]
    BY <2>2, <2>3, PutCall DEF Inv
  <2> QED
    BY <1>1, <2>1, <2>4 DEF CallRecord, MaybeIdentity
<1>5. /\ file' \in [Gpu -> MaybeIdentity]
      /\ \A h \in Gpu : h # g => file'[h] = file[h]
      /\ file'[g] = IF Matches(r) THEN file[g] ELSE None
  <2>1. CASE r # None /\ ~Matches(r)
    <3>1. file' = [call[c].ids EXCEPT ![g] = None]
      BY <2>1 DEF CheckRecorded, Forgotten
    <3>2. call[c].ids \in [Gpu -> MaybeIdentity]
      BY DEF Inv, TypeOK, CallRecord
    <3> QED
      BY <1>3, <2>1, <3>1, <3>2 DEF MaybeIdentity
  <2>2. CASE ~(r # None /\ ~Matches(r))
    <3>1. file' = file
      BY <2>2 DEF CheckRecorded
    <3> QED
      BY <1>3, <2>2, <3>1 DEF Inv, TypeOK
  <2> QED
    BY <2>1, <2>2
<1>6. Quiet(c)' /\ Children(c)' /\ Stopping(c)' /\ Stopped(c)'
  BY <1>1, <1>2, <1>3, <1>4 DEF Inv, CallSound, Quiet, Children, Stopping, Stopped
<1>7. Agree(c)'
  <2>1. \A h \in Gpu : h \in call[c].pending => file[h] = None
    BY <1>2 DEF Inv, CallSound, Agree
  <2>2. \A h \in Gpu : call'[c].child[h] = None /\ call'[c].ids[h] = file'[h]
    BY <1>3, <1>4, <1>5
  <2>3. \A h \in Gpu : h \in call'[c].pending => file'[h] = None
    BY <1>4, <1>5, <2>1
  <2> QED
    BY <2>2, <2>3 DEF Agree
<1>8. CallSound(c)'
  BY <1>6, <1>7 DEF CallSound
<1>9. \A h \in Gpu : file'[h] = file[h] \/ (file'[h] = None /\ ~Matches(file[h]))
  BY <1>3, <1>5
<1> QED
  BY <1>1, <1>2, <1>4, <1>5, <1>8, <1>9, StepInv DEF Locked

LEMMA CaptureInv ==
  ASSUME Inv, NEW c \in Call, NEW g \in Gpu, Capture(c, g)
  PROVE  Inv'
<1> DEFINE p == call[c].child[g]
<1>1. /\ call[c].pc = "checking" /\ call[c].op = "enable" /\ call[c].todo = {}
      /\ g \in call[c].pending /\ p # None
      /\ UNCHANGED <<boot, clock, proc, file, lock, kills>>
  BY DEF Capture, Starting, At
<1>2. lock = c
  BY <1>1, Holds DEF Inv, Locked
<1>3. p \in Pid
  BY <1>1 DEF Inv, TypeOK, CallRecord
<1>4. IdentityOf(p) \in MaybeIdentity
  BY <1>3, Identified DEF Inv, MaybeIdentity
<1>5. /\ call' \in [Call -> CallRecord] /\ Others(c)
      /\ call'[c].pc = "checking" /\ call'[c].op = "enable"
      /\ call'[c].todo = {} /\ call'[c].asked = call[c].asked
      /\ call'[c].child = call[c].child
      /\ call'[c].ids[g] = IdentityOf(p)
      /\ \A h \in Gpu : h # g => call'[c].ids[h] = call[c].ids[h]
      /\ call'[c].pending = call[c].pending \ {g}
  <2> DEFINE s == [call[c] EXCEPT !.pending = @ \ {g}, !.ids[g] = IdentityOf(p)]
  <2>1. call[c] \in CallRecord
    BY DEF Inv, TypeOK
  <2>2. s \in CallRecord
    BY <2>1, <1>1, <1>4 DEF CallRecord
  <2>3. call' = [call EXCEPT ![c] = s]
    BY DEF Capture
  <2>4. call'[c] = s /\ Others(c) /\ call' \in [Call -> CallRecord]
    BY <2>2, <2>3, PutCall DEF Inv
  <2> QED
    BY <1>1, <2>1, <2>4 DEF CallRecord
<1>6. Quiet(c)' /\ Children(c)' /\ Stopping(c)' /\ Stopped(c)'
  BY <1>1, <1>2, <1>5 DEF Inv, CallSound, Quiet, Children, Stopping, Stopped, At
<1>7. Agree(c)'
  <2> SUFFICES ASSUME NEW h \in Gpu
               PROVE  /\ call[c].child[h] = None \/ h \in call'[c].pending => call'[c].ids[h] = file[h]
                      /\ call[c].child[h] # None /\ h \notin call'[c].pending
                            => call'[c].ids[h] = IdentityOf(call[c].child[h])
                      /\ call[c].child[h] # None \/ h \in call'[c].pending => file[h] = None
    BY <1>1, <1>5 DEF Agree, IdentityOf
  <2> QED
    BY <1>1, <1>2, <1>5 DEF Inv, CallSound, Agree
<1>8. CallSound(c)'
  BY <1>6, <1>7 DEF CallSound
<1>9. file' \in [Gpu -> MaybeIdentity]
  BY <1>1 DEF Inv, TypeOK
<1> QED
  BY <1>1, <1>2, <1>5, <1>8, <1>9, StepInv DEF Locked

\* The holder only reads, and goes on to pc.
LEMMA ReadsInv ==
  ASSUME Inv, NEW c \in Call, lock = c, call[c].op \in {"disable", "attest"},
         UNCHANGED <<boot, clock, proc, file, lock, kills>>,
         Others(c), call' \in [Call -> CallRecord], call'[c].pc \in Locked,
         call'[c].op = call[c].op, call'[c].asked = call[c].asked,
         call'[c].todo \subseteq call[c].todo, call'[c].pending = call[c].pending,
         call'[c].child = call[c].child, call'[c].ids = call[c].ids,
         Stopping(c)', Stopped(c)'
  PROVE  Inv'
<1>1. Quiet(c)' /\ Children(c)'
  BY DEF Inv, CallSound, Quiet, Children, At, Locked
<1>2. Agree(c)'
  BY NothingStarted DEF Inv, CallSound, Agree
<1>3. file' \in [Gpu -> MaybeIdentity]
  BY DEF Inv, TypeOK
<1> QED
  BY <1>1, <1>2, <1>3, StepInv DEF CallSound

LEMMA CheckStopInv ==
  ASSUME Inv, NEW c \in Call, NEW g \in Gpu, CheckStop(c, g)
  PROVE  Inv'
<1>1. /\ call[c].pc = "checking" /\ call[c].op = "disable" /\ g \in call[c].todo
      /\ UNCHANGED <<boot, clock, proc, file, lock, kills>>
  BY DEF CheckStop, At
<1>2. lock = c
  BY <1>1, Holds DEF Inv, Locked
<1>3. /\ call' \in [Call -> CallRecord] /\ Others(c)
      /\ call'[c].pc = IF call[c].ids[g] = None THEN "checking"
                       ELSE IF Matches(call[c].ids[g]) THEN "opening" ELSE "forgetting"
      /\ call'[c].target = IF call[c].ids[g] = None THEN None ELSE g
      /\ call'[c].todo = call[c].todo \ {g}
      /\ call'[c].op = "disable" /\ call'[c].asked = call[c].asked
      /\ call'[c].child = call[c].child /\ call'[c].ids = call[c].ids
      /\ call'[c].pending = call[c].pending
  <2> DEFINE s == [call[c] EXCEPT !.todo = @ \ {g}, !.target = IF call[c].ids[g] = None THEN None ELSE g,
                                  !.pc = IF call[c].ids[g] = None THEN "checking"
                                         ELSE IF Matches(call[c].ids[g]) THEN "opening" ELSE "forgetting"]
  <2>1. call[c] \in CallRecord
    BY DEF Inv, TypeOK
  <2>2. s \in CallRecord
    BY <2>1, <1>1 DEF CallRecord
  <2>3. call' = [call EXCEPT ![c] = s]
    BY DEF CheckStop
  <2>4. call'[c] = s /\ Others(c) /\ call' \in [Call -> CallRecord]
    BY <2>2, <2>3, PutCall DEF Inv
  <2> QED
    BY <1>1, <2>1, <2>4 DEF CallRecord
<1>4. g \in call[c].asked
  BY <1>1 DEF Inv, CallSound, Quiet
<1>5. Stopping(c)'
  BY <1>1, <1>3, <1>4 DEF Stopping, Matches
<1>6. Stopped(c)'
  BY <1>1, <1>2, <1>3 DEF Inv, CallSound, Stopped
<1> QED
  BY <1>1, <1>2, <1>3, <1>5, <1>6, ReadsInv DEF Locked

LEMMA OpenPidfdInv ==
  ASSUME Inv, NEW c \in Call, OpenPidfd(c)
  PROVE  Inv'
<1> DEFINE i == call[c].ids[call[c].target]
           q == i.pid
<1>1. /\ call[c].pc = "opening" /\ call[c].op = "disable"
      /\ UNCHANGED <<boot, clock, proc, file, lock, kills>>
  BY DEF OpenPidfd, At
<1>2. lock = c
  BY <1>1, Holds DEF Inv, Locked
<1>3. call[c].target \in call[c].asked /\ call[c].target \in Gpu /\ i # None
  BY <1>1 DEF Inv, CallSound, Stopping, TypeOK, CallRecord
<1>4. i \in Identity /\ q \in Pid
  BY <1>2, <1>3, HolderIds DEF MaybeIdentity, Identity
<1>5. /\ IdentityOf(q) \in MaybeIdentity /\ IdentityOf(q) # None /\ IdentityOf(q).pid = q
      /\ IdentityOf(q).ticks = proc[q].ticks
  BY <1>4, Identified DEF Inv, MaybeIdentity
<1>6. /\ call' \in [Call -> CallRecord] /\ Others(c)
      /\ call'[c].pc = IF proc[q].kind = "free" THEN "forgetting" ELSE "rechecking"
      /\ call'[c].target = call[c].target
      /\ proc[q].kind # "free" => call'[c].pidfd = IdentityOf(q)
      /\ call'[c].todo = call[c].todo
      /\ call'[c].op = "disable" /\ call'[c].asked = call[c].asked
      /\ call'[c].child = call[c].child /\ call'[c].ids = call[c].ids
      /\ call'[c].pending = call[c].pending
  <2> DEFINE s == IF proc[q].kind = "free" THEN [call[c] EXCEPT !.pc = "forgetting"]
                    ELSE [call[c] EXCEPT !.pc = "rechecking", !.pidfd = IdentityOf(q)]
  <2>1. call[c] \in CallRecord
    BY DEF Inv, TypeOK
  <2>2. s \in CallRecord
    BY <2>1, <1>1, <1>5 DEF CallRecord
  <2>3. call' = [call EXCEPT ![c] = s]
    BY DEF OpenPidfd
  <2>4. call'[c] = s /\ Others(c) /\ call' \in [Call -> CallRecord]
    BY <2>2, <2>3, PutCall DEF Inv
  <2> QED
    BY <1>1, <2>1, <2>4 DEF CallRecord
<1>7. Stopping(c)'
  BY <1>1, <1>3, <1>5, <1>6 DEF Stopping, Matches, Same
<1>8. Stopped(c)'
  BY <1>1, <1>2, <1>6 DEF Inv, CallSound, Stopped
<1> QED
  BY <1>1, <1>2, <1>6, <1>7, <1>8, ReadsInv DEF Locked

LEMMA RecheckInv ==
  ASSUME Inv, NEW c \in Call, Recheck(c)
  PROVE  Inv'
<1> DEFINE i == call[c].ids[call[c].target]
<1>1. /\ call[c].pc = "rechecking" /\ call[c].op = "disable"
      /\ UNCHANGED <<boot, clock, proc, file, lock, kills>>
  BY DEF Recheck, At
<1>2. lock = c
  BY <1>1, Holds DEF Inv, Locked
<1>3. /\ call[c].target \in call[c].asked /\ i # None
      /\ call[c].pidfd # None /\ call[c].pidfd.pid = i.pid
      /\ Same(i) => call[c].pidfd.ticks = i.ticks
  BY <1>1 DEF Inv, CallSound, Stopping
<1>4. /\ call' \in [Call -> CallRecord] /\ Others(c)
      /\ call'[c].pc = IF Matches(i) THEN "signalling" ELSE "forgetting"
      /\ call'[c].target = call[c].target /\ call'[c].pidfd = call[c].pidfd
      /\ call'[c].todo = call[c].todo
      /\ call'[c].op = "disable" /\ call'[c].asked = call[c].asked
      /\ call'[c].child = call[c].child /\ call'[c].ids = call[c].ids
      /\ call'[c].pending = call[c].pending
  <2> DEFINE s == [call[c] EXCEPT !.pc = IF Matches(i) THEN "signalling" ELSE "forgetting"]
  <2>1. call[c] \in CallRecord
    BY DEF Inv, TypeOK
  <2>2. s \in CallRecord
    BY <2>1, <1>1 DEF CallRecord
  <2>3. call' = [call EXCEPT ![c] = s]
    BY DEF Recheck
  <2>4. call'[c] = s /\ Others(c) /\ call' \in [Call -> CallRecord]
    BY <2>2, <2>3, PutCall DEF Inv
  <2> QED
    BY <1>1, <2>1, <2>4 DEF CallRecord
<1>5. Matches(i) => Same(i) /\ i.boot = boot
  BY DEF Matches, Same
<1>6. Stopping(c)'
  BY <1>1, <1>3, <1>4, <1>5 DEF Stopping, Matches, Same
<1>7. Stopped(c)'
  BY <1>1, <1>2, <1>4 DEF Inv, CallSound, Stopped
<1> QED
  BY <1>1, <1>2, <1>4, <1>6, <1>7, ReadsInv DEF Locked

LEMMA ForgetInv ==
  ASSUME Inv, NEW c \in Call, Forget(c)
  PROVE  Inv'
<1> DEFINE g == call[c].target
<1>1. /\ call[c].pc = "forgetting" /\ call[c].op = "disable"
      /\ UNCHANGED <<boot, clock, proc, lock, kills>>
      /\ file' = [call[c].ids EXCEPT ![g] = None]
  BY DEF Forget, Forgotten, At
<1>2. lock = c
  BY <1>1, Holds DEF Inv, Locked
<1>3. g \in call[c].asked /\ g \in Gpu /\ ~Matches(call[c].ids[g])
  BY <1>1 DEF Inv, CallSound, Stopping, TypeOK, CallRecord
<1>4. \A h \in Gpu : call[c].child[h] = None /\ call[c].ids[h] = file[h]
  BY <1>1, <1>2, NothingStarted
<1>5. /\ file' \in [Gpu -> MaybeIdentity] /\ file'[g] = None
      /\ \A h \in Gpu : h # g => file'[h] = file[h]
  BY <1>1, <1>3, <1>4 DEF Inv, TypeOK, CallRecord, MaybeIdentity
<1>6. /\ call' \in [Call -> CallRecord] /\ Others(c)
      /\ call'[c].pc = "checking" /\ call'[c].op = "disable"
      /\ call'[c].todo = call[c].todo /\ call'[c].asked = call[c].asked
      /\ call'[c].child = call[c].child /\ call'[c].ids = file'
      /\ call'[c].pending = call[c].pending
  <2> DEFINE s == [call[c] EXCEPT !.pc = "checking", !.ids = file', !.target = None, !.pidfd = None]
  <2>1. call[c] \in CallRecord
    BY DEF Inv, TypeOK
  <2>2. s \in CallRecord
    BY <2>1, <1>1, <1>5 DEF CallRecord, MaybeIdentity
  <2>3. call' = [call EXCEPT ![c] = s]
    BY <1>1 DEF Forget, Forgotten
  <2>4. call'[c] = s /\ Others(c) /\ call' \in [Call -> CallRecord]
    BY <2>2, <2>3, PutCall DEF Inv
  <2> QED
    BY <1>1, <2>1, <2>4 DEF CallRecord
<1>7. Quiet(c)' /\ Children(c)' /\ Stopping(c)'
  BY <1>1, <1>2, <1>4, <1>6 DEF Inv, CallSound, Quiet, Children, Stopping
<1>8. Agree(c)'
  BY <1>2, <1>4, <1>5, <1>6 DEF Inv, CallSound, Agree
<1>9. Stopped(c)'
  <2> SUFFICES ASSUME NEW h \in call[c].asked \ call[c].todo PROVE file'[h] = None
    BY <1>6 DEF Stopped
  <2>1. h \in Gpu
    BY DEF Inv, TypeOK, CallRecord
  <2>2. h # g => call[c].ids[h] = None
    BY <1>1, <1>2 DEF Inv, CallSound, Stopped
  <2> QED
    BY <1>4, <1>5, <2>1, <2>2
<1>10. CallSound(c)'
  BY <1>7, <1>8, <1>9 DEF CallSound
<1>11. \A h \in Gpu : file'[h] = file[h] \/ (file'[h] = None /\ ~Matches(file[h]))
  BY <1>3, <1>4, <1>5
<1> QED
  BY <1>1, <1>2, <1>5, <1>6, <1>10, <1>11, StepInv DEF Locked

LEMMA CheckAttestedInv ==
  ASSUME Inv, NEW c \in Call, NEW g \in Gpu, CheckAttested(c, g)
  PROVE  Inv'
<1>1. /\ call[c].pc = "checking" /\ call[c].op = "attest"
      /\ UNCHANGED <<boot, clock, proc, file, lock, kills>>
  BY DEF CheckAttested, At
<1>2. lock = c
  BY <1>1, Holds DEF Inv, Locked
<1>3. /\ call' \in [Call -> CallRecord] /\ Others(c)
      /\ call'[c].pc = "querying" /\ call'[c].op = "attest"
      /\ call'[c].todo = call[c].todo \ {g} /\ call'[c].asked = call[c].asked
      /\ call'[c].child = call[c].child /\ call'[c].ids = call[c].ids
      /\ call'[c].pending = call[c].pending
  <2> DEFINE s == [call[c] EXCEPT !.todo = @ \ {g}, !.target = g, !.pc = "querying"]
  <2>1. call[c] \in CallRecord
    BY DEF Inv, TypeOK
  <2>2. s \in CallRecord
    BY <2>1, <1>1 DEF CallRecord
  <2>3. call' = [call EXCEPT ![c] = s]
    BY DEF CheckAttested
  <2>4. call'[c] = s /\ Others(c) /\ call' \in [Call -> CallRecord]
    BY <2>2, <2>3, PutCall DEF Inv
  <2> QED
    BY <1>1, <2>1, <2>4 DEF CallRecord
<1>4. Stopping(c)' /\ Stopped(c)'
  BY <1>3 DEF Stopping, Stopped
<1> QED
  BY <1>1, <1>2, <1>3, <1>4, ReadsInv DEF Locked

LEMMA QueryDriverInv ==
  ASSUME Inv, NEW c \in Call, QueryDriver(c)
  PROVE  Inv'
<1>1. /\ call[c].pc = "querying" /\ call[c].op = "attest"
      /\ UNCHANGED <<boot, clock, proc, file, lock, kills>>
  BY DEF QueryDriver, At
<1>2. lock = c
  BY <1>1, Holds DEF Inv, Locked
<1>3. PICK p \in Pid :
         call' = [call EXCEPT ![c].pc = "checking", ![c].target = None,
                              ![c].proof[call[c].target] = IdentityOf(p)]
  BY DEF QueryDriver
<1>4. IdentityOf(p) \in MaybeIdentity
  BY Identified DEF Inv, MaybeIdentity
<1>5. /\ call' \in [Call -> CallRecord] /\ Others(c)
      /\ call'[c].pc = "checking" /\ call'[c].op = "attest"
      /\ call'[c].todo = call[c].todo /\ call'[c].asked = call[c].asked
      /\ call'[c].child = call[c].child /\ call'[c].ids = call[c].ids
      /\ call'[c].pending = call[c].pending
  <2> DEFINE s == [call[c] EXCEPT !.pc = "checking", !.target = None,
                                  !.proof[call[c].target] = IdentityOf(p)]
  <2>1. call[c] \in CallRecord
    BY DEF Inv, TypeOK
  <2>2. s \in CallRecord
    BY <2>1, <1>1, <1>4 DEF CallRecord
  <2>3. call' = [call EXCEPT ![c] = s]
    BY <1>3
  <2>4. call'[c] = s /\ Others(c) /\ call' \in [Call -> CallRecord]
    BY <2>2, <2>3, PutCall DEF Inv
  <2> QED
    BY <1>1, <2>1, <2>4 DEF CallRecord
<1>6. Stopping(c)' /\ Stopped(c)'
  BY <1>5 DEF Stopping, Stopped
<1> QED
  BY <1>1, <1>2, <1>5, <1>6, ReadsInv DEF Locked

-----------------------------------------------------------------------------
(* A call ends *)

LEMMA LeaveFacts ==
  ASSUME TypeOK, NEW c \in Call, NEW pc \in {"done", "failed", "killed"}, Leave(c, pc)
  PROVE  /\ call'[c].pc = pc /\ call'[c].todo = {} /\ call'[c].asked = {} /\ call'[c].pending = {}
         /\ \A g \in Gpu : call'[c].child[g] = None
         /\ Others(c) /\ call' \in [Call -> CallRecord]
         /\ lock' = IF lock = c THEN None ELSE lock
         /\ proc' \in [Pid -> Process]
         /\ \A p \in Pid : \/ proc'[p] = proc[p]
                           \/ proc[p].kind = "zombie" /\ proc[p].parent = c /\ proc'[p].kind = "free"
<1> DEFINE r == [NewCall EXCEPT !.pc = pc, !.proof = call[c].proof]
<1>1. call[c].proof \in [Gpu -> MaybeIdentity]
  BY DEF TypeOK, CallRecord
<1>2. NoIdentities \in [Gpu -> MaybeIdentity] /\ NoIdentities \in [Gpu -> Pid \cup {None}]
  BY DEF NoIdentities, MaybeIdentity
<1>3. r \in CallRecord
  BY <1>1, <1>2 DEF CallRecord, NewCall, MaybeIdentity
<1>4. call' = [call EXCEPT ![c] = r]
  BY DEF Leave
<1>5. call'[c] = r /\ Others(c) /\ call' \in [Call -> CallRecord]
  BY <1>3, <1>4, PutCall
<1>6. /\ call'[c].pc = pc /\ call'[c].todo = {} /\ call'[c].asked = {} /\ call'[c].pending = {}
      /\ \A g \in Gpu : call'[c].child[g] = None
  BY <1>5 DEF NewCall, NoIdentities
<1>7. NoProcess \in Process /\ NoProcess.kind = "free"
  BY HelperAssumption DEF NoProcess, Process
<1>8. \A p \in Pid : proc'[p] = IF proc[p].kind = "zombie" /\ proc[p].parent = c THEN NoProcess ELSE proc[p]
  BY DEF Leave, Reaped
<1>9. proc' \in [Pid -> Process]
  BY <1>7 DEF Leave, Reaped, TypeOK
<1>10. \A p \in Pid : \/ proc'[p] = proc[p]
                      \/ proc[p].kind = "zombie" /\ proc[p].parent = c /\ proc'[p].kind = "free"
  BY <1>7, <1>8
<1>11. lock' = IF lock = c THEN None ELSE lock
  BY DEF Leave
<1> QED
  BY <1>5, <1>6, <1>9, <1>10, <1>11

LEMMA LeaveMoved ==
  ASSUME TypeOK, NEW c \in Call, NEW pc \in {"done", "failed", "killed"}, Leave(c, pc),
         UNCHANGED <<boot, clock>>
  PROVE  Moved
<1>1. \A p \in Pid : Kept(p) \/ Gone(p)
  BY LeaveFacts DEF Kept, Gone
<1> QED
  BY <1>1 DEF Moved, TypeOK

\* The call leaves the workers it started recorded, unless it is killed, and the
\* records of all others as they are.
LEMMA LeaveInv ==
  ASSUME Inv, NEW c \in Call, NEW pc \in {"done", "failed", "killed"}, Leave(c, pc),
         UNCHANGED <<boot, clock>>, kills' \in 0 .. MaxKills,
         file' \in [Gpu -> MaybeIdentity], Records', lock # c => file' = file,
         \A p \in Pid : proc[p].kind = "worker" /\ proc[p].parent = c /\ pc # "killed"
                           => file'[proc[p].gpu] = IdentityOf(p),
         \A p \in Pid : proc[p].kind = "worker" /\ proc[p].parent # c
                        /\ file[proc[p].gpu] = IdentityOf(p)
                           => file'[proc[p].gpu] = IdentityOf(p)
  PROVE  Inv'
<1>1. /\ call'[c].pc = pc /\ call'[c].todo = {} /\ call'[c].asked = {} /\ call'[c].pending = {}
      /\ \A g \in Gpu : call'[c].child[g] = None
      /\ Others(c) /\ call' \in [Call -> CallRecord]
      /\ lock' = IF lock = c THEN None ELSE lock
      /\ proc' \in [Pid -> Process]
      /\ \A p \in Pid : \/ proc'[p] = proc[p]
                        \/ proc[p].kind = "zombie" /\ proc[p].parent = c /\ proc'[p].kind = "free"
  BY LeaveFacts DEF Inv
<1>2. Moved
  BY LeaveMoved DEF Inv
<1>3. lock' # c /\ \A d \in Call : d # c => (lock' = d <=> lock = d)
  BY <1>1, HelperAssumption
<1>4. TypeOK'
  BY <1>1, <1>3 DEF Inv, TypeOK, Others
<1>5. Processes'
  BY <1>2, ProcessesStay DEF Inv
<1>6. \A p \in Pid : proc'[p].kind \in {"loading", "worker"} =>
          proc'[p] = proc[p] /\ proc[p].parent \in Call /\ proc[p].gpu \in Gpu
  BY <1>1 DEF Inv, Processes, Ours
<1>7. ~Alive(c)' /\ \A d \in Call : d # c => Alive(d)' = Alive(d)
  BY <1>1 DEF Alive, Others
<1>8. Parents'
  BY <1>1, <1>6, <1>7 DEF Inv, Parents, Others
<1>9. NoUnrecordedWorker'
  <2> SUFFICES ASSUME NEW p \in Pid, proc'[p].kind = "worker"
               PROVE  \/ file'[proc[p].gpu] = IdentityOf(p)
                      \/ Alive(proc[p].parent)'
                      \/ call'[proc[p].parent].pc = "killed"
    BY <1>6 DEF NoUnrecordedWorker, IdentityOf, Alive
  <2>1. proc[p].kind = "worker" /\ proc[p].parent \in Call
    BY <1>6
  <2>2. CASE proc[p].parent = c
    BY <1>1, <2>1, <2>2
  <2>3. CASE proc[p].parent # c
    BY <1>1, <1>7, <2>1, <2>3 DEF Inv, NoUnrecordedWorker, Others
  <2> QED
    BY <2>2, <2>3
<1>10. CallSound(c)'
  BY <1>1, <1>3 DEF CallSound, Quiet, Children, Agree, Stopping, Stopped
<1>11. ASSUME NEW d \in Call, d # c PROVE CallSound(d)'
  <2>1. CASE lock = c
    BY <1>1, <1>11, <2>1, OthersSound
  <2>2. CASE lock # c
    <3>1. \A g \in Gpu : call[d].child[g] # None => Kept(call[d].child[g])
      <4> SUFFICES ASSUME NEW g \in Gpu, call[d].child[g] # None PROVE Kept(call[d].child[g])
        OBVIOUS
      <4>1. call[d].child[g] \in Pid
        BY DEF Inv, TypeOK, CallRecord
      <4>2. proc[call[d].child[g]].kind \in Ours /\ proc[call[d].child[g]].parent = d
        BY DEF Inv, CallSound, Children
      <4>3. proc'[call[d].child[g]] = proc[call[d].child[g]]
        BY <1>1, <1>11, <4>1, <4>2
      <4> QED
        BY <4>2, <4>3 DEF Kept, Ours
    <3>2. call'[d] = call[d] /\ (lock' = d <=> lock = d) /\ file' = file
      BY <1>1, <1>3, <1>11, <2>2 DEF Others
    <3> QED
      BY <1>2, <3>1, <3>2, SoundStays
  <2> QED
    BY <2>1, <2>2
<1> QED
  BY <1>4, <1>5, <1>8, <1>9, <1>10, <1>11 DEF Inv

LEMMA RecordInv ==
  ASSUME Inv, NEW c \in Call, Record(c)
  PROVE  Inv'
<1>1. /\ call[c].pc = "checking" /\ call[c].pending = {}
      /\ file' = call[c].ids /\ UNCHANGED <<boot, clock, kills>>
  BY DEF Record, Starting, At
<1>2. PICK pc \in {"done", "failed"} : Leave(c, pc)
  BY DEF Record
<1>3. lock = c
  BY <1>1, Holds DEF Inv, Locked
<1>4. Moved
  BY <1>1, <1>2, LeaveMoved DEF Inv
<1>5. file' \in [Gpu -> MaybeIdentity] /\ kills' \in 0 .. MaxKills
  BY <1>1 DEF Inv, TypeOK, CallRecord
<1>6. Records'
  <2> SUFFICES ASSUME NEW g \in Gpu, file'[g] # None PROVE Known(file[g], g)'
    BY DEF Records, Known, Same
  <2>1. PICK i \in Identity : i = file'[g] /\ Known(i, g)
    BY <1>1, <1>3, HolderIds DEF MaybeIdentity
  <2>2. Known(i, g)'
    BY <1>4, <2>1, SameStays DEF Inv
  <2> QED
    BY <2>1, <2>2 DEF Known, Same
<1>7. ASSUME NEW p \in Pid, proc[p].kind = "worker", proc[p].parent = c
      PROVE  file'[proc[p].gpu] = IdentityOf(p)
  <2>1. call[c].child[proc[p].gpu] = p /\ proc[p].gpu \in Gpu
    BY <1>1, <1>7 DEF Inv, Parents, Processes, Alive, Ours
  <2>2. p # None
    BY HelperAssumption
  <2> QED
    BY <1>1, <1>3, <2>1, <2>2 DEF Inv, CallSound, Agree
<1>8. ASSUME NEW p \in Pid, proc[p].kind = "worker", file[proc[p].gpu] = IdentityOf(p)
      PROVE  file'[proc[p].gpu] = IdentityOf(p)
  <2>1. IdentityOf(p) # None /\ proc[p].gpu \in Gpu
    BY <1>8, Identified DEF Inv, Processes, Ours
  <2> QED
    BY <1>1, <1>3, <1>8, <2>1 DEF Inv, CallSound, Agree
<1> QED
  BY <1>1, <1>2, <1>3, <1>5, <1>6, <1>7, <1>8, LeaveInv

\* A call that has started nothing ends, or any call is killed.
LEMMA LeaveFileInv ==
  ASSUME Inv, NEW c \in Call, NEW pc \in {"done", "failed", "killed"}, Leave(c, pc), Alive(c),
         UNCHANGED <<boot, clock, file>>, kills' \in 0 .. MaxKills,
         pc = "killed" \/ call[c].op # "enable"
  PROVE  Inv'
<1>1. file' \in [Gpu -> MaybeIdentity]
  BY DEF Inv, TypeOK
<1>2. Records'
  BY LeaveMoved, RecordsStay DEF Inv
<1>3. ASSUME NEW p \in Pid, proc[p].kind = "worker", proc[p].parent = c, pc # "killed"
      PROVE  FALSE
  <2>1. call[c].child[proc[p].gpu] = p /\ proc[p].gpu \in Gpu
    BY <1>3 DEF Inv, Parents, Processes, Ours
  <2>2. p # None
    BY HelperAssumption
  <2> QED
    BY <1>3, <2>1, <2>2 DEF Inv, CallSound, Children, At
<1> QED
  BY <1>1, <1>2, <1>3, LeaveInv

LEMMA EndsInv ==
  ASSUME Inv, NEW c \in Call, StopFails(c) \/ AllStopped(c) \/ AttestFails(c) \/ AllAttested(c)
  PROVE  Inv'
<1>1. /\ Alive(c) /\ call[c].op # "enable" /\ UNCHANGED <<boot, clock, file, kills>>
      /\ \E pc \in {"done", "failed"} : Leave(c, pc)
  BY DEF StopFails, AllStopped, AttestFails, AllAttested, At, Alive
<1>2. kills' \in 0 .. MaxKills
  BY <1>1 DEF Inv, TypeOK
<1> QED
  BY <1>1, <1>2, LeaveFileInv

LEMMA KillInv ==
  ASSUME Inv, NEW c \in Call, Kill(c)
  PROVE  Inv'
<1>1. /\ Alive(c) /\ UNCHANGED <<boot, clock, file>> /\ Leave(c, "killed")
      /\ kills < MaxKills /\ kills' = kills + 1
  BY DEF Kill
<1>2. kills' \in 0 .. MaxKills
  BY <1>1, HelperAssumption DEF Inv, TypeOK
<1> QED
  BY <1>1, <1>2, LeaveFileInv

-----------------------------------------------------------------------------
(* Steps of the holder that touch a process *)

LEMMA HolderProcInv ==
  ASSUME Inv, NEW c \in Call, lock = c, Moved, UNCHANGED <<boot, file, lock, kills>>,
         clock' \in 0 .. MaxTicks, proc' \in [Pid -> Process],
         Others(c), call' \in [Call -> CallRecord], call'[c].pc \in Locked,
         \A p \in Pid : proc'[p].kind = "worker" => proc'[p] = proc[p],
         Parents', CallSound(c)'
  PROVE  Inv'
<1>1. call[c].pc \in Locked
  BY DEF Inv, TypeOK, Locked
<1>2. \A d \in Call : /\ Alive(d)' = Alive(d)
                      /\ call'[d].pc = "killed" <=> call[d].pc = "killed"
  BY <1>1 DEF Others, Alive, Locked
<1>3. TypeOK'
  BY <1>1 DEF Inv, TypeOK, Others, Locked
<1>4. Processes' /\ Records'
  BY ProcessesStay, RecordsStay DEF Inv
<1>5. NoUnrecordedWorker'
  <2> SUFFICES ASSUME NEW p \in Pid, proc'[p].kind = "worker"
               PROVE  \/ file[proc[p].gpu] = IdentityOf(p)
                      \/ Alive(proc[p].parent)'
                      \/ call'[proc[p].parent].pc = "killed"
    BY DEF NoUnrecordedWorker, IdentityOf, Alive
  <2>1. proc[p].kind = "worker" /\ proc[p].parent \in Call
    BY DEF Inv, Processes, Ours
  <2> QED
    BY <1>2, <2>1 DEF Inv, NoUnrecordedWorker
<1>6. \A d \in Call : CallSound(d)'
  BY OthersSound
<1> QED
  BY <1>3, <1>4, <1>5, <1>6 DEF Inv

LEMMA SpawnInv ==
  ASSUME Inv, NEW c \in Call, NEW g \in Gpu, NEW p \in Pid, Spawn(c, g, p)
  PROVE  Inv'
<1>1. /\ call[c].pc = "checking" /\ call[c].op = "enable" /\ call[c].todo = {}
      /\ g \in call[c].pending /\ call[c].child[g] = None
      /\ proc[p].kind = "free" /\ clock < MaxTicks /\ clock' = clock + 1
      /\ UNCHANGED <<boot, file, lock, kills>>
  BY DEF Spawn, Starting, At
<1>2. lock = c
  BY <1>1, Holds DEF Inv, Locked
<1>3. clock \in Nat /\ clock + 1 \in 0 .. MaxTicks
  BY <1>1, HelperAssumption DEF Inv, TypeOK
<1>4. /\ proc' \in [Pid -> Process]
      /\ proc'[p] = [kind |-> "loading", gpu |-> g, ticks |-> clock + 1, parent |-> c]
      /\ \A q \in Pid : q # p => proc'[q] = proc[q]
  BY <1>3 DEF Spawn, Inv, TypeOK, Process
<1>5. /\ call' \in [Call -> CallRecord] /\ Others(c)
      /\ call'[c].pc = "checking" /\ call'[c].op = "enable"
      /\ call'[c].todo = {} /\ call'[c].asked = call[c].asked
      /\ call'[c].child[g] = p
      /\ \A h \in Gpu : h # g => call'[c].child[h] = call[c].child[h]
      /\ call'[c].ids = call[c].ids /\ call'[c].pending = call[c].pending
  <2> DEFINE s == [call[c] EXCEPT !.child[g] = p]
  <2>1. call[c] \in CallRecord
    BY DEF Inv, TypeOK
  <2>2. s \in CallRecord
    BY <2>1, <1>1 DEF CallRecord
  <2>3. call' = [call EXCEPT ![c] = s]
    BY DEF Spawn
  <2>4. call'[c] = s /\ Others(c) /\ call' \in [Call -> CallRecord]
    BY <2>2, <2>3, PutCall DEF Inv
  <2> QED
    BY <1>1, <2>1, <2>4 DEF CallRecord
<1>6. Moved
  <2>1. Born(p)
    BY <1>1, <1>4 DEF Born, Ours
  <2>2. \A q \in Pid : q # p => Kept(q) \/ Gone(q)
    BY <1>4 DEF Kept, Gone
  <2> QED
    BY <1>1, <1>3, <2>1, <2>2 DEF Moved
<1>7. Parents'
  <2> SUFFICES ASSUME NEW q \in Pid, proc'[q].kind \in {"loading", "worker"}
               PROVE  /\ call'[proc'[q].parent].pc # "new"
                      /\ Alive(proc[q].parent)' =>
                            call'[proc'[q].parent].child[proc'[q].gpu] = q
    BY DEF Parents
  <2>1. CASE q = p
    BY <1>4, <1>5, <2>1
  <2>2. CASE q # p
    <3>1. proc'[q] = proc[q] /\ proc[q].parent \in Call /\ proc[q].gpu \in Gpu
      BY <1>4, <2>2 DEF Inv, Processes, Ours
    <3>2. CASE proc[q].parent = c
      <4>1. call[c].child[proc[q].gpu] = q
        BY <1>1, <3>1, <3>2 DEF Inv, Parents, Alive
      <4>2. proc[q].gpu # g
        BY <1>1, <4>1, HelperAssumption
      <4> QED
        BY <1>5, <3>1, <3>2, <4>1, <4>2
    <3>3. CASE proc[q].parent # c
      BY <1>5, <3>1, <3>3 DEF Inv, Parents, Alive, Others
    <3> QED
      BY <3>2, <3>3
  <2> QED
    BY <2>1, <2>2
<1>8. \A h \in Gpu : h # g /\ call[c].child[h] # None =>
         /\ call[c].child[h] \in Pid /\ proc'[call[c].child[h]] = proc[call[c].child[h]]
         /\ proc[call[c].child[h]].kind \in Ours /\ proc[call[c].child[h]].gpu = h
         /\ proc[call[c].child[h]].parent = c
  BY <1>1, <1>4 DEF Inv, TypeOK, CallRecord, CallSound, Children, Ours
<1>9. Children(c)'
  BY <1>4, <1>5, <1>8 DEF Children, At, Ours
<1>10. Agree(c)'
  <2> SUFFICES ASSUME NEW h \in Gpu
               PROVE  /\ call'[c].child[h] = None \/ h \in call'[c].pending => call'[c].ids[h] = file'[h]
                      /\ call'[c].child[h] # None /\ h \notin call'[c].pending
                            => call'[c].ids[h] = IdentityOf(call[c].child[h])'
                      /\ call'[c].child[h] # None \/ h \in call'[c].pending => file'[h] = None
    BY DEF Agree, IdentityOf
  <2>1. CASE h = g
    BY <1>1, <1>2, <1>5, <2>1 DEF Inv, CallSound, Agree
  <2>2. CASE h # g
    <3>1. /\ call'[c].child[h] = call[c].child[h] /\ call'[c].ids[h] = call[c].ids[h]
          /\ h \in call'[c].pending <=> h \in call[c].pending
          /\ file'[h] = file[h]
      BY <1>1, <1>5, <2>2
    <3>2. call[c].child[h] # None => IdentityOf(call[c].child[h])' = IdentityOf(call[c].child[h])
      BY <1>1, <1>8, <2>2, <3>1 DEF IdentityOf
    <3>3. /\ call[c].child[h] = None \/ h \in call[c].pending => call[c].ids[h] = file[h]
          /\ call[c].child[h] # None /\ h \notin call[c].pending
                => call[c].ids[h] = IdentityOf(call[c].child[h])
          /\ call[c].child[h] # None \/ h \in call[c].pending => file[h] = None
      BY <1>2 DEF Inv, CallSound, Agree
    <3> QED
      BY <3>1, <3>2, <3>3
  <2> QED
    BY <2>1, <2>2
<1>11. Quiet(c)' /\ Stopping(c)' /\ Stopped(c)'
  BY <1>1, <1>2, <1>5 DEF Quiet, Stopping, Stopped
<1>12. \A q \in Pid : proc'[q].kind = "worker" => proc'[q] = proc[q]
  BY <1>4
<1> QED
  BY <1>1, <1>2, <1>3, <1>4, <1>5, <1>6, <1>7, <1>9, <1>10, <1>11, <1>12, HolderProcInv
     DEF CallSound, Locked

LEMMA StartFailsInv ==
  ASSUME Inv, NEW c \in Call, NEW g \in Gpu, StartFails(c, g)
  PROVE  Inv'
<1>1. /\ call[c].pc = "checking" /\ call[c].op = "enable" /\ call[c].todo = {}
      /\ g \in call[c].pending
      /\ UNCHANGED <<boot, clock, file, lock, kills>>
  BY DEF StartFails, Starting, At
<1>2. lock = c
  BY <1>1, Holds DEF Inv, Locked
<1>3. clock' \in 0 .. MaxTicks
  BY <1>1 DEF Inv, TypeOK
<1>4. /\ proc' \in [Pid -> Process]
      /\ \A q \in Pid : IF q = call[c].child[g] THEN proc'[q].kind = "free" ELSE proc'[q] = proc[q]
  <2>1. NoProcess \in Process /\ NoProcess.kind = "free"
    BY HelperAssumption DEF NoProcess, Process
  <2> QED
    BY <2>1 DEF StartFails, Inv, TypeOK
<1>5. /\ call' \in [Call -> CallRecord] /\ Others(c)
      /\ call'[c].pc = "checking" /\ call'[c].op = "enable"
      /\ call'[c].todo = {} /\ call'[c].asked = call[c].asked
      /\ call'[c].child[g] = None
      /\ \A h \in Gpu : h # g => call'[c].child[h] = call[c].child[h]
      /\ call'[c].ids = call[c].ids /\ call'[c].pending = call[c].pending \ {g}
  <2> DEFINE s == [call[c] EXCEPT !.pending = @ \ {g}, !.child[g] = None, !.faults = TRUE]
  <2>1. call[c] \in CallRecord
    BY DEF Inv, TypeOK
  <2>2. s \in CallRecord
    BY <2>1, <1>1 DEF CallRecord
  <2>3. call' = [call EXCEPT ![c] = s]
    BY DEF StartFails
  <2>4. call'[c] = s /\ Others(c) /\ call' \in [Call -> CallRecord]
    BY <2>2, <2>3, PutCall DEF Inv
  <2> QED
    BY <1>1, <2>1, <2>4 DEF CallRecord
<1>6. Moved
  <2>1. \A q \in Pid : Kept(q) \/ Gone(q)
    BY <1>4 DEF Kept, Gone
  <2> QED
    BY <1>1, <2>1 DEF Moved, Inv, TypeOK
<1>7. \A q \in Pid : proc'[q].kind # "free" => q # call[c].child[g] /\ proc'[q] = proc[q]
  BY <1>4
<1>8. Parents'
  <2> SUFFICES ASSUME NEW q \in Pid, proc'[q].kind \in {"loading", "worker"}
               PROVE  /\ call'[proc'[q].parent].pc # "new"
                      /\ Alive(proc[q].parent)' =>
                            call'[proc'[q].parent].child[proc'[q].gpu] = q
    BY DEF Parents
  <2>1. proc'[q] = proc[q] /\ proc[q].parent \in Call /\ proc[q].gpu \in Gpu /\ q # call[c].child[g]
    BY <1>7 DEF Inv, Processes, Ours
  <2>2. CASE proc[q].parent = c
    <3>1. call[c].child[proc[q].gpu] = q
      BY <1>1, <2>1, <2>2 DEF Inv, Parents, Alive
    <3> QED
      BY <1>5, <2>1, <2>2, <3>1
  <2>3. CASE proc[q].parent # c
    BY <1>5, <2>1, <2>3 DEF Inv, Parents, Alive, Others
  <2> QED
    BY <2>2, <2>3
<1>9. \A h \in Gpu : h # g /\ call[c].child[h] # None =>
         /\ call[c].child[h] \in Pid /\ proc'[call[c].child[h]] = proc[call[c].child[h]]
         /\ proc[call[c].child[h]].kind \in Ours /\ proc[call[c].child[h]].gpu = h
         /\ proc[call[c].child[h]].parent = c
  <2> SUFFICES ASSUME NEW h \in Gpu, h # g, call[c].child[h] # None
               PROVE  /\ call[c].child[h] \in Pid
                      /\ proc'[call[c].child[h]] = proc[call[c].child[h]]
                      /\ proc[call[c].child[h]].kind \in Ours /\ proc[call[c].child[h]].gpu = h
                      /\ proc[call[c].child[h]].parent = c
    OBVIOUS
  <2>1. call[c].child[h] \in Pid
    BY DEF Inv, TypeOK, CallRecord
  <2>2. /\ proc[call[c].child[h]].kind \in Ours /\ proc[call[c].child[h]].gpu = h
        /\ proc[call[c].child[h]].parent = c
        /\ call[c].child[g] # None => proc[call[c].child[g]].gpu = g
    BY DEF Inv, CallSound, Children
  <2> QED
    BY <1>4, <2>1, <2>2
<1>10. Children(c)'
  BY <1>5, <1>9 DEF Children, At
<1>11. Agree(c)'
  <2> SUFFICES ASSUME NEW h \in Gpu
               PROVE  /\ call'[c].child[h] = None \/ h \in call'[c].pending => call'[c].ids[h] = file'[h]
                      /\ call'[c].child[h] # None /\ h \notin call'[c].pending
                            => call'[c].ids[h] = IdentityOf(call[c].child[h])'
                      /\ call'[c].child[h] # None \/ h \in call'[c].pending => file'[h] = None
    BY DEF Agree, IdentityOf
  <2>1. CASE h = g
    BY <1>1, <1>2, <1>5, <2>1 DEF Inv, CallSound, Agree
  <2>2. CASE h # g
    <3>1. /\ call'[c].child[h] = call[c].child[h] /\ call'[c].ids[h] = call[c].ids[h]
          /\ h \in call'[c].pending <=> h \in call[c].pending
          /\ file'[h] = file[h]
      BY <1>1, <1>5, <2>2
    <3>2. call[c].child[h] # None => IdentityOf(call[c].child[h])' = IdentityOf(call[c].child[h])
      BY <1>1, <1>9, <2>2, <3>1 DEF IdentityOf
    <3>3. /\ call[c].child[h] = None \/ h \in call[c].pending => call[c].ids[h] = file[h]
          /\ call[c].child[h] # None /\ h \notin call[c].pending
                => call[c].ids[h] = IdentityOf(call[c].child[h])
          /\ call[c].child[h] # None \/ h \in call[c].pending => file[h] = None
      BY <1>2 DEF Inv, CallSound, Agree
    <3> QED
      BY <3>1, <3>2, <3>3
  <2> QED
    BY <2>1, <2>2
<1>12. Quiet(c)' /\ Stopping(c)' /\ Stopped(c)'
  BY <1>1, <1>2, <1>5 DEF Quiet, Stopping, Stopped
<1>13. \A q \in Pid : proc'[q].kind = "worker" => proc'[q] = proc[q]
  BY <1>7
<1> QED
  BY <1>1, <1>2, <1>3, <1>4, <1>5, <1>6, <1>8, <1>10, <1>11, <1>12, <1>13, HolderProcInv
     DEF CallSound, Locked

LEMMA SignalInv ==
  ASSUME Inv, NEW c \in Call, Signal(c)
  PROVE  Inv'
<1> DEFINE i == call[c].ids[call[c].target]
           f == call[c].pidfd
<1>1. /\ call[c].pc = "signalling" /\ call[c].op = "disable"
      /\ UNCHANGED <<boot, clock, file, lock, kills>>
  BY DEF Signal, At
<1>2. lock = c
  BY <1>1, Holds DEF Inv, Locked
<1>3. /\ call[c].target \in call[c].asked /\ call[c].target \in Gpu /\ i # None
      /\ f # None /\ f.pid = i.pid /\ f.ticks = i.ticks /\ i.boot = boot
  BY <1>1 DEF Inv, CallSound, Stopping, TypeOK, CallRecord
<1>4. i \in Identity /\ i.pid \in Pid
  BY <1>2, <1>3, HolderIds DEF MaybeIdentity, Identity
<1>5. /\ proc' \in [Pid -> Process]
      /\ \A q \in Pid : proc'[q] = proc[q] \/ proc'[q].kind = "free"
      /\ proc'[i.pid].kind # "free" => proc'[i.pid].ticks # i.ticks
  <2>1. NoProcess \in Process /\ NoProcess.kind = "free"
    BY HelperAssumption DEF NoProcess, Process
  <2>2. proc' = IF proc[i.pid].kind # "free" /\ proc[i.pid].ticks = i.ticks
                THEN [proc EXCEPT ![i.pid] = NoProcess] ELSE proc
    BY <1>3 DEF Signal
  <2> QED
    BY <1>4, <2>1, <2>2 DEF Inv, TypeOK
<1>6. clock' \in 0 .. MaxTicks
  BY <1>1 DEF Inv, TypeOK
<1>7. /\ call' \in [Call -> CallRecord] /\ Others(c)
      /\ call'[c].pc = "forgetting" /\ call'[c].op = "disable"
      /\ call'[c].todo = call[c].todo /\ call'[c].asked = call[c].asked
      /\ call'[c].child = call[c].child /\ call'[c].ids = call[c].ids
      /\ call'[c].pending = call[c].pending /\ call'[c].target = call[c].target
  <2> DEFINE s == [call[c] EXCEPT !.pc = "forgetting"]
  <2>1. call[c] \in CallRecord
    BY DEF Inv, TypeOK
  <2>2. s \in CallRecord
    BY <2>1, <1>1 DEF CallRecord
  <2>3. call' = [call EXCEPT ![c] = s]
    BY DEF Signal
  <2>4. call'[c] = s /\ Others(c) /\ call' \in [Call -> CallRecord]
    BY <2>2, <2>3, PutCall DEF Inv
  <2> QED
    BY <1>1, <2>1, <2>4 DEF CallRecord
<1>8. Moved
  <2>1. \A q \in Pid : Kept(q) \/ Gone(q)
    BY <1>5 DEF Kept, Gone
  <2> QED
    BY <1>1, <2>1 DEF Moved, Inv, TypeOK
<1>9. Parents'
  <2>1. \A d \in Call : /\ Alive(d)' = Alive(d) /\ call'[d].child = call[d].child
                        /\ call'[d].pc = "new" <=> call[d].pc = "new"
    BY <1>1, <1>7 DEF Others, Alive
  <2> QED
    BY <1>5, <2>1 DEF Inv, Parents, Processes, Ours
<1>10. \A h \in Gpu : call[c].child[h] = None /\ call[c].ids[h] = file[h]
  BY <1>1, <1>2, NothingStarted
<1>11. Quiet(c)' /\ Children(c)' /\ Agree(c)'
  BY <1>1, <1>2, <1>7, <1>10 DEF Inv, CallSound, Quiet, Children, Agree
<1>12. Stopping(c)'
  BY <1>3, <1>5, <1>7 DEF Stopping, Matches
<1>13. Stopped(c)'
  BY <1>1, <1>2, <1>7 DEF Inv, CallSound, Stopped
<1>14. \A q \in Pid : proc'[q].kind = "worker" => proc'[q] = proc[q]
  BY <1>5
<1> QED
  BY <1>1, <1>2, <1>5, <1>6, <1>7, <1>8, <1>9, <1>11, <1>12, <1>13, <1>14, HolderProcInv
     DEF CallSound, Locked

-----------------------------------------------------------------------------
(* Steps of a call that does not hold the lock *)

\* The call goes on before or past the lock; nothing else happens.
LEMMA EntersInv ==
  ASSUME Inv, NEW c \in Call, call[c].pc \in {"new", "locking"}, lock # c,
         UNCHANGED <<boot, clock, proc, file, kills>>,
         lock' = lock \/ (lock = None /\ lock' = c),
         Others(c), call' \in [Call -> CallRecord],
         call'[c].pc = IF lock' = c THEN "checking" ELSE "locking",
         call'[c].child = call[c].child, call'[c].pending = call[c].pending,
         call'[c].todo = call'[c].asked,
         lock' = c => call'[c].ids = file
  PROVE  Inv'
<1>1. call[c].pending = {} /\ \A g \in Gpu : call[c].child[g] = None
  BY DEF Inv, CallSound, Quiet
<1>2. \A d \in Call : d # c => (lock' = d <=> lock = d)
  BY HelperAssumption
<1>3. TypeOK'
  BY <1>2 DEF Inv, TypeOK, Others
<1>4. Moved
  BY StillMoved DEF Inv
<1>5. Processes' /\ Records'
  BY <1>4, ProcessesStay, RecordsStay DEF Inv
<1>6. Parents'
  <2> SUFFICES ASSUME NEW p \in Pid, proc[p].kind \in {"loading", "worker"}
               PROVE  /\ call'[proc[p].parent].pc # "new"
                      /\ Alive(proc[p].parent)' => call'[proc[p].parent].child[proc[p].gpu] = p
    BY DEF Parents, Alive
  <2>1. proc[p].parent \in Call
    BY DEF Inv, Processes, Ours
  <2>2. CASE proc[p].parent = c
    BY <2>2 DEF Inv, Parents, Alive
  <2>3. CASE proc[p].parent # c
    BY <2>1, <2>3 DEF Inv, Parents, Alive, Others
  <2> QED
    BY <2>2, <2>3
<1>7. NoUnrecordedWorker'
  <2> SUFFICES ASSUME NEW p \in Pid, proc[p].kind = "worker"
               PROVE  \/ file[proc[p].gpu] = IdentityOf(p)
                      \/ Alive(proc[p].parent)'
                      \/ call'[proc[p].parent].pc = "killed"
    BY DEF NoUnrecordedWorker, IdentityOf, Alive
  <2>1. proc[p].parent \in Call
    BY DEF Inv, Processes, Ours
  <2>2. CASE proc[p].parent = c
    BY <2>2 DEF Alive
  <2>3. CASE proc[p].parent # c
    BY <2>1, <2>3 DEF Inv, NoUnrecordedWorker, Alive, Others
  <2> QED
    BY <2>2, <2>3
<1>8. CallSound(c)'
  BY <1>1 DEF CallSound, Quiet, Children, Agree, Stopping, Stopped
<1>9. ASSUME NEW d \in Call, d # c PROVE CallSound(d)'
  <2>1. call'[d] = call[d] /\ (lock' = d <=> lock = d)
    BY <1>2, <1>9 DEF Others
  <2>2. \A g \in Gpu : call[d].child[g] # None => Kept(call[d].child[g])
    BY DEF Inv, CallSound, Children, Kept, Ours
  <2> QED
    BY <1>4, <2>1, <2>2, SoundStays
<1> QED
  BY <1>3, <1>5, <1>6, <1>7, <1>8, <1>9 DEF Inv

LEMMA LockInv ==
  ASSUME Inv, NEW c \in Call, Lock(c)
  PROVE  Inv'
<1>1. /\ call[c].pc = "locking" /\ lock = None /\ lock' = c
      /\ UNCHANGED <<boot, clock, proc, file, kills>>
  BY DEF Lock
<1>2. lock # c
  BY <1>1, HelperAssumption
<1>3. /\ call' \in [Call -> CallRecord] /\ Others(c)
      /\ call'[c].pc = "checking" /\ call'[c].ids = file
      /\ call'[c].todo = call[c].todo /\ call'[c].asked = call[c].asked
      /\ call'[c].child = call[c].child /\ call'[c].pending = call[c].pending
  <2> DEFINE s == [call[c] EXCEPT !.pc = "checking", !.ids = file]
  <2>1. call[c] \in CallRecord /\ file \in [Gpu -> MaybeIdentity]
    BY DEF Inv, TypeOK
  <2>2. s \in CallRecord
    BY <2>1 DEF CallRecord
  <2>3. call' = [call EXCEPT ![c] = s]
    BY DEF Lock
  <2>4. call'[c] = s /\ Others(c) /\ call' \in [Call -> CallRecord]
    BY <2>2, <2>3, PutCall DEF Inv
  <2> QED
    BY <2>1, <2>4 DEF CallRecord
<1>4. call[c].todo = call[c].asked
  BY <1>1 DEF Inv, CallSound, Quiet
<1> QED
  BY <1>1, <1>2, <1>3, <1>4, EntersInv

LEMMA RequestInv ==
  ASSUME Inv, NEW c \in Call, NEW op \in {"enable", "disable", "attest"}, NEW gs \in SUBSET Gpu,
         Request(c, op, gs)
  PROVE  Inv'
<1>1. call[c].pc = "new" /\ UNCHANGED <<boot, clock, proc, file, lock, kills>>
  BY DEF Request
<1>2. lock # c
  BY <1>1 DEF Inv, TypeOK
<1>3. /\ call' \in [Call -> CallRecord] /\ Others(c)
      /\ call'[c].pc = "locking" /\ call'[c].todo = call'[c].asked
      /\ call'[c].child = call[c].child /\ call'[c].pending = call[c].pending
  <2> DEFINE s == [call[c] EXCEPT !.pc = "locking", !.op = op, !.asked = gs, !.todo = gs]
  <2>1. call[c] \in CallRecord
    BY DEF Inv, TypeOK
  <2>2. s \in CallRecord
    BY <2>1 DEF CallRecord
  <2>3. call' = [call EXCEPT ![c] = s]
    BY DEF Request
  <2>4. call'[c] = s /\ Others(c) /\ call' \in [Call -> CallRecord]
    BY <2>2, <2>3, PutCall DEF Inv
  <2> QED
    BY <2>1, <2>4 DEF CallRecord
<1> QED
  BY <1>1, <1>2, <1>3, EntersInv

-----------------------------------------------------------------------------
(* Steps of the server *)

\* The children of helpers at work stay, and no worker appears but as a child
\* of one.
LEMMA ServerInv ==
  ASSUME Inv, Moved, UNCHANGED <<boot, file, lock, call, kills>>,
         clock' \in 0 .. MaxTicks, proc' \in [Pid -> Process],
         \A p \in Pid : proc[p].kind \in Ours /\ Alive(proc[p].parent) => Kept(p),
         \A p \in Pid : proc'[p].kind \in {"loading", "worker"} =>
             /\ proc[p].kind \in {"loading", "worker"} /\ proc'[p].gpu = proc[p].gpu
             /\ proc'[p].parent = proc[p].parent /\ proc'[p].ticks = proc[p].ticks,
         \A p \in Pid : proc'[p].kind = "worker" => proc[p].kind = "worker" \/ Alive(proc[p].parent)
  PROVE  Inv'
<1>1. TypeOK'
  BY DEF Inv, TypeOK
<1>2. Processes' /\ Records'
  BY ProcessesStay, RecordsStay DEF Inv
<1>3. Parents'
  BY DEF Inv, Parents, Alive
<1>4. NoUnrecordedWorker'
  BY DEF Inv, NoUnrecordedWorker, Alive, IdentityOf
<1>5. ASSUME NEW d \in Call PROVE CallSound(d)'
  <2>1. ASSUME NEW g \in Gpu, call[d].child[g] # None PROVE Kept(call[d].child[g])
    <3>1. call[d].child[g] \in Pid
      BY <2>1 DEF Inv, TypeOK, CallRecord
    <3>2. proc[call[d].child[g]].kind \in Ours /\ proc[call[d].child[g]].parent = d /\ Alive(d)
      BY <2>1 DEF Inv, CallSound, Children, At, Alive
    <3> QED
      BY <3>1, <3>2
  <2> QED
    BY <2>1, SoundStays
<1> QED
  BY <1>1, <1>2, <1>3, <1>4, <1>5 DEF Inv

LEMMA ReadyInv ==
  ASSUME Inv, NEW p \in Pid, Ready(p)
  PROVE  Inv'
<1>1. /\ proc[p].kind = "loading" /\ Alive(proc[p].parent)
      /\ UNCHANGED <<boot, clock, file, lock, call, kills>>
  BY DEF Ready
<1>2. /\ proc' \in [Pid -> Process]
      /\ proc'[p].kind = "worker" /\ proc'[p].gpu = proc[p].gpu
      /\ proc'[p].ticks = proc[p].ticks /\ proc'[p].parent = proc[p].parent
      /\ \A q \in Pid : q # p => proc'[q] = proc[q]
  <2> DEFINE r == [proc[p] EXCEPT !.kind = "worker"]
  <2>1. proc[p] \in Process /\ proc \in [Pid -> Process]
    BY DEF Inv, TypeOK
  <2>2. r \in Process
    BY <2>1 DEF Process
  <2>3. proc' = [proc EXCEPT ![p] = r]
    BY DEF Ready
  <2> QED
    BY <2>1, <2>2, <2>3 DEF Process
<1>3. \A q \in Pid : Kept(q) \/ Gone(q)
  BY <1>1, <1>2 DEF Kept, Gone, Ours
<1>4. Moved /\ clock' \in 0 .. MaxTicks
  BY <1>1, <1>3 DEF Moved, Inv, TypeOK
<1>5. \A q \in Pid : proc[q].kind \in Ours => Kept(q)
  BY <1>1, <1>2 DEF Kept, Ours
<1> QED
  BY <1>1, <1>2, <1>4, <1>5, ServerInv

LEMMA ExitInv ==
  ASSUME Inv, NEW p \in Pid, Exit(p)
  PROVE  Inv'
<1> DEFINE held == proc[p].parent # None /\ Alive(proc[p].parent)
<1>1. /\ proc[p].kind \in {"loading", "worker", "foreign"}
      /\ UNCHANGED <<boot, clock, file, lock, call, kills>>
  BY DEF Exit
<1>2. /\ proc' \in [Pid -> Process]
      /\ held => /\ proc'[p].kind = "zombie" /\ proc'[p].gpu = proc[p].gpu
                  /\ proc'[p].ticks = proc[p].ticks /\ proc'[p].parent = proc[p].parent
      /\ ~held => proc'[p].kind = "free"
      /\ \A q \in Pid : q # p => proc'[q] = proc[q]
  <2> DEFINE r == IF held THEN [proc[p] EXCEPT !.kind = "zombie"] ELSE NoProcess
  <2>1. proc[p] \in Process /\ proc \in [Pid -> Process]
    BY DEF Inv, TypeOK
  <2>2. NoProcess \in Process /\ NoProcess.kind = "free"
    BY HelperAssumption DEF NoProcess, Process
  <2>3. r \in Process
    BY <2>1, <2>2 DEF Process
  <2>4. proc' = [proc EXCEPT ![p] = r]
    BY DEF Exit
  <2> QED
    BY <2>1, <2>2, <2>3, <2>4 DEF Process
<1>3. proc[p].kind = "foreign" => ~held
  BY DEF Inv, Processes, Ours
<1>4. \A q \in Pid : Kept(q) \/ Gone(q)
  BY <1>1, <1>2, <1>3 DEF Kept, Gone, Ours
<1>5. Moved /\ clock' \in 0 .. MaxTicks
  BY <1>1, <1>4 DEF Moved, Inv, TypeOK
<1>6. \A q \in Pid : proc[q].kind \in Ours /\ Alive(proc[q].parent) => Kept(q)
  BY <1>1, <1>2, <1>3, HelperAssumption DEF Kept, Ours, Inv, Processes
<1>7. \A q \in Pid : proc'[q].kind \in {"loading", "worker"} => q # p
  BY <1>2
<1> QED
  BY <1>1, <1>2, <1>5, <1>6, <1>7, ServerInv

LEMMA ForeignInv ==
  ASSUME Inv, NEW p \in Pid, NEW g \in Gpu \cup {None}, Foreign(p, g)
  PROVE  Inv'
<1>1. /\ proc[p].kind = "free" /\ clock < MaxTicks /\ clock' = clock + 1
      /\ UNCHANGED <<boot, file, lock, call, kills>>
  BY DEF Foreign
<1>2. clock \in Nat /\ clock + 1 \in 0 .. MaxTicks
  BY <1>1, HelperAssumption DEF Inv, TypeOK
<1>3. /\ proc' \in [Pid -> Process]
      /\ proc'[p] = [kind |-> "foreign", gpu |-> g, ticks |-> clock + 1, parent |-> None]
      /\ \A q \in Pid : q # p => proc'[q] = proc[q]
  BY <1>2 DEF Foreign, Inv, TypeOK, Process
<1>4. Moved
  <2>1. Born(p)
    BY <1>1, <1>3 DEF Born, Ours
  <2>2. \A q \in Pid : q # p => Kept(q) \/ Gone(q)
    BY <1>3 DEF Kept, Gone
  <2> QED
    BY <1>1, <1>2, <2>1, <2>2 DEF Moved
<1>5. \A q \in Pid : proc[q].kind \in Ours => Kept(q)
  BY <1>1, <1>3 DEF Kept, Ours
<1>6. \A q \in Pid : proc'[q].kind \in {"loading", "worker"} => proc'[q] = proc[q]
  BY <1>3
<1> QED
  BY <1>1, <1>2, <1>3, <1>4, <1>5, <1>6, ServerInv

LEMMA RebootInv ==
  ASSUME Inv, Reboot
  PROVE  Inv'
<1>1. /\ boot \in Nat /\ boot' = boot + 1 /\ clock' = 0 /\ lock' = None
      /\ boot' \in 0 .. MaxBoot /\ clock' \in 0 .. MaxTicks
      /\ UNCHANGED <<file, kills>>
  BY HelperAssumption DEF Reboot, Inv, TypeOK
<1>2. proc' \in [Pid -> Process] /\ \A p \in Pid : proc'[p].kind = "free"
  <2>1. NoProcess \in Process /\ NoProcess.kind = "free"
    BY HelperAssumption DEF NoProcess, Process
  <2> QED
    BY <2>1 DEF Reboot
<1>3. call' \in [Call -> CallRecord]
  <2>1. [NewCall EXCEPT !.pc = "killed"] \in CallRecord
    BY DEF NewCall, NoIdentities, CallRecord, MaybeIdentity
  <2> QED
    BY <2>1 DEF Reboot, Inv, TypeOK
<1>4. \A c \in Call : IF Alive(c) THEN call'[c] = [NewCall EXCEPT !.pc = "killed"]
                                  ELSE call'[c] = call[c]
  BY DEF Reboot
<1>5. \A c \in Call : lock' # c /\ call'[c].pc \in {"new", "done", "failed", "killed"}
  BY <1>1, <1>4, HelperAssumption DEF Alive, NewCall
<1>6. TypeOK'
  BY <1>1, <1>2, <1>3, <1>5 DEF Inv, TypeOK
<1>7. Processes' /\ Parents' /\ NoUnrecordedWorker'
  BY <1>2 DEF Processes, Parents, NoUnrecordedWorker
<1>8. Records'
  <2> SUFFICES ASSUME NEW g \in Gpu, file[g] # None
               PROVE  file[g].boot <= boot' /\ file[g].boot # boot'
    BY <1>1 DEF Records, Known, Same
  <2>1. file[g] \in Identity /\ file[g].boot <= boot
    BY DEF Inv, TypeOK, MaybeIdentity, Records, Known
  <2> QED
    BY <1>1, <2>1 DEF Identity
<1>9. ASSUME NEW c \in Call PROVE CallSound(c)'
  <2>1. /\ call'[c].todo \subseteq call'[c].asked /\ call'[c].pending = {}
        /\ \A g \in Gpu : call'[c].child[g] = None
    <3>1. CASE Alive(c)
      BY <1>4, <3>1 DEF NewCall, NoIdentities
    <3>2. CASE ~Alive(c)
      <4>1. lock # c
        BY <3>2 DEF Inv, TypeOK, Alive
      <4> QED
        BY <1>4, <3>2, <4>1 DEF Inv, CallSound, Quiet
    <3> QED
      BY <3>1, <3>2
  <2> QED
    BY <1>5, <2>1 DEF CallSound, Quiet, Children, Agree, Stopping, Stopped
<1> QED
  BY <1>6, <1>7, <1>8, <1>9 DEF Inv

LEMMA StutterInv ==
  ASSUME Inv, UNCHANGED vars
  PROVE  Inv'
<1>1. Moved /\ \A p \in Pid : proc[p].kind \in Ours => Kept(p)
  BY StillMoved DEF vars, Inv, Kept, Ours
<1> QED
  BY <1>1, ServerInv DEF vars, Inv, TypeOK

-----------------------------------------------------------------------------
(* The invariant *)

LEMMA InitInv == Init => Inv
<1> SUFFICES ASSUME Init PROVE Inv
  OBVIOUS
<1>1. /\ boot = 0 /\ clock = 0 /\ kills = 0 /\ lock = None
      /\ \A p \in Pid : proc[p] = NoProcess
      /\ \A g \in Gpu : file[g] = None
      /\ \A c \in Call : call[c] = NewCall
  BY DEF Init, NoIdentities
<1>2. NoProcess \in Process /\ NoProcess.kind = "free"
  BY HelperAssumption DEF NoProcess, Process
<1>3. NewCall \in CallRecord /\ NewCall.pc = "new"
  BY DEF NewCall, NoIdentities, CallRecord, MaybeIdentity
<1>4. TypeOK
  BY <1>1, <1>2, <1>3, HelperAssumption DEF Init, TypeOK, NoIdentities, MaybeIdentity
<1>5. Processes /\ Records /\ Parents /\ NoUnrecordedWorker
  BY <1>1, <1>2 DEF Processes, Records, Known, Parents, NoUnrecordedWorker
<1>6. \A c \in Call : CallSound(c)
  BY <1>1, HelperAssumption
     DEF CallSound, Quiet, Children, Agree, Stopping, Stopped, NewCall, NoIdentities
<1> QED
  BY <1>4, <1>5, <1>6 DEF Inv

LEMMA CallInv ==
  ASSUME Inv, NEW c \in Call, CallStep(c)
  PROVE  Inv'
<1>1. CASE Lock(c)
  BY <1>1, LockInv
<1>2. ASSUME NEW g \in Gpu, CheckRecorded(c, g) \/ Capture(c, g) \/ StartFails(c, g)
                           \/ CheckStop(c, g) \/ CheckAttested(c, g)
      PROVE  Inv'
  BY <1>2, CheckRecordedInv, CaptureInv, StartFailsInv, CheckStopInv, CheckAttestedInv
<1>3. ASSUME NEW g \in Gpu, NEW p \in Pid, Spawn(c, g, p)
      PROVE  Inv'
  BY <1>3, SpawnInv
<1>4. CASE Record(c)
  BY <1>4, RecordInv
<1>5. CASE OpenPidfd(c) \/ Recheck(c) \/ Signal(c) \/ Forget(c) \/ QueryDriver(c)
  BY <1>5, OpenPidfdInv, RecheckInv, SignalInv, ForgetInv, QueryDriverInv
<1>6. CASE StopFails(c) \/ AllStopped(c) \/ AttestFails(c) \/ AllAttested(c)
  BY <1>6, EndsInv
<1> QED
  BY <1>1, <1>2, <1>3, <1>4, <1>5, <1>6 DEF CallStep

LEMMA NextInv == Inv /\ [Next]_vars => Inv'
<1> SUFFICES ASSUME Inv, [Next]_vars PROVE Inv'
  OBVIOUS
<1>1. ASSUME NEW c \in Call, NEW op \in {"enable", "disable", "attest"}, NEW gs \in SUBSET Gpu,
             Request(c, op, gs)
      PROVE  Inv'
  BY <1>1, RequestInv
<1>2. ASSUME NEW c \in Call, CallStep(c) PROVE Inv'
  BY <1>2, CallInv
<1>3. ASSUME NEW p \in Pid, Ready(p) \/ Exit(p) \/ \E g \in Gpu \cup {None} : Foreign(p, g)
      PROVE  Inv'
  BY <1>3, ReadyInv, ExitInv, ForeignInv
<1>4. ASSUME NEW c \in Call, Kill(c) PROVE Inv'
  BY <1>4, KillInv
<1>5. CASE Reboot
  BY <1>5, RebootInv
<1>6. CASE UNCHANGED vars
  BY <1>6, StutterInv
<1> QED
  BY <1>1, <1>2, <1>3, <1>4, <1>5, <1>6 DEF Next, ServerStep

\* Processes, records and calls agree in every state, however calls, crashes of
\* calls, PIDs used again and reboots follow on each other.
THEOREM Invariant == Spec => []Inv
<1>1. Init /\ [][Next]_vars => []Inv
  BY InitInv, NextInv, PTL
<1> QED
  BY <1>1, PTL DEF Spec

\* A record of the state file that matches a running process is the record of
\* the worker of that GPU (_worker_process_matches), and everything has its type.
THEOREM TrueRecords == Spec => []RecordsAreRight
<1>1. Inv => RecordsAreRight
  <2> SUFFICES ASSUME Inv, NEW g \in Gpu, Matches(file[g]) PROVE proc[file[g].pid].gpu = g
    BY DEF RecordsAreRight, RecordsOwnWorker, Inv
  <2>1. Known(file[g], g) /\ Same(file[g]) /\ file[g] # None
    BY DEF Inv, Records, Matches, Same
  <2> QED
    BY <2>1 DEF Known
<1> QED
  BY <1>1, Invariant, PTL

\* A running worker is recorded, or its helper is at work, or was killed before
\* it could write the state file (_enable).
THEOREM RecordedWorkers == Spec => []NoUnrecordedWorker
<1>1. Inv => NoUnrecordedWorker
  BY DEF Inv
<1> QED
  BY <1>1, Invariant, PTL

-----------------------------------------------------------------------------
(* What a step may end, and what the success of a stop means *)

\* A step of a call that frees the PID of a worker or a foreign process starts
\* or stops that worker.
LEMMA FreesOwn ==
  ASSUME Inv, NEW c \in Call, CallStep(c), NEW p \in Pid,
         proc[p].kind \in {"worker", "foreign"}, proc'[p].kind = "free"
  PROVE  /\ proc[p].kind = "worker"
         /\ \/ call[c].op = "disable" /\ proc[p].gpu \in call[c].asked
            \/ call[c].child[proc[p].gpu] = p
<1>1. proc'[p] # proc[p]
  OBVIOUS
<1>2. ASSUME NEW pc \in {"done", "failed", "killed"}, Leave(c, pc) PROVE FALSE
  BY <1>1, <1>2, LeaveFacts DEF Inv
<1>3. ASSUME NEW g \in Gpu, NEW q \in Pid, Spawn(c, g, q) PROVE FALSE
  <2>1. proc \in [Pid -> Process] /\ proc[q].kind = "free"
        /\ proc' = [proc EXCEPT ![q] = [kind |-> "loading", gpu |-> g, ticks |-> clock + 1, parent |-> c]]
    BY <1>3 DEF Spawn, Inv, TypeOK
  <2> QED
    BY <2>1
<1>4. ASSUME NEW g \in Gpu, StartFails(c, g)
      PROVE  proc[p].kind = "worker" /\ call[c].child[proc[p].gpu] = p
  <2>1. p = call[c].child[g]
    BY <1>1, <1>4 DEF StartFails
  <2>2. proc[p].kind \in Ours /\ proc[p].gpu = g
    BY <2>1, HelperAssumption DEF Inv, CallSound, Children
  <2> QED
    BY <2>1, <2>2 DEF Ours
<1>5. CASE Signal(c)
  <2> DEFINE i == call[c].ids[call[c].target]
             f == call[c].pidfd
  <2>1. call[c].pc = "signalling" /\ call[c].op = "disable"
    BY <1>5 DEF Signal, At
  <2>2. lock = c
    BY <2>1, Holds DEF Inv, Locked
  <2>3. /\ call[c].target \in call[c].asked /\ call[c].target \in Gpu /\ i # None
        /\ f.pid = i.pid /\ f.ticks = i.ticks /\ i.boot = boot
    BY <2>1 DEF Inv, CallSound, Stopping, TypeOK, CallRecord
  <2>4. Known(i, call[c].target)
    BY <2>2, <2>3, HolderIds
  <2>5. p = i.pid /\ proc[i.pid].kind # "free" /\ proc[i.pid].ticks = i.ticks
    BY <1>1, <1>5, <2>3 DEF Signal, Inv, TypeOK
  <2>6. proc[p].kind \in Ours /\ proc[p].gpu = call[c].target
    BY <2>3, <2>4, <2>5 DEF Known, Same
  <2> QED
    BY <2>1, <2>3, <2>6 DEF Ours
<1>6. proc' = proc \/ (\E pc \in {"done", "failed", "killed"} : Leave(c, pc)) \/ Signal(c)
      \/ (\E g \in Gpu : StartFails(c, g)) \/ (\E g \in Gpu, q \in Pid : Spawn(c, g, q))
  BY DEF CallStep, Lock, CheckRecorded, Capture, CheckStop, CheckAttested, Record, OpenPidfd,
         Recheck, StopFails, Forget, AllStopped, QueryDriver, AttestFails, AllAttested
<1> QED
  BY <1>1, <1>2, <1>3, <1>4, <1>5, <1>6

\* No step of a helper ends a foreign process, or a worker that it neither
\* started itself nor was asked to stop: the identity check after pidfd_open is
\* enough (stop), and a failed start ends its own child only (start).
THEOREM Untouched == Spec => OthersUntouched
<1>1. ASSUME Inv, [Next]_vars, NEW p \in Pid, boot' = boot, call' # call,
             proc[p].kind = "foreign" \/ proc[p].kind = "worker", proc'[p].kind = "free"
      PROVE  /\ proc[p].kind = "worker"
             /\ \E c \in Call : \/ call[c].op = "disable" /\ proc[p].gpu \in call[c].asked
                               \/ call[c].child[proc[p].gpu] = p
  <2>1. ASSUME NEW c \in Call, NEW op \in {"enable", "disable", "attest"}, NEW gs \in SUBSET Gpu,
               Request(c, op, gs)
        PROVE  FALSE
    BY <1>1, <2>1 DEF Request
  <2>2. ASSUME NEW c \in Call, CallStep(c)
        PROVE  /\ proc[p].kind = "worker"
               /\ \/ call[c].op = "disable" /\ proc[p].gpu \in call[c].asked
                  \/ call[c].child[proc[p].gpu] = p
    BY <1>1, <2>2, FreesOwn
  <2>3. ASSUME NEW c \in Call, Kill(c) PROVE FALSE
    <3>1. Leave(c, "killed") /\ TypeOK
      BY <1>1, <2>3 DEF Kill, Inv
    <3> QED
      BY <1>1, <3>1, LeaveFacts
  <2>4. ~(\E q \in Pid : Ready(q) \/ Exit(q) \/ \E g \in Gpu \cup {None} : Foreign(q, g))
    BY <1>1 DEF Ready, Exit, Foreign
  <2>5. ~Reboot
    BY <1>1 DEF Reboot, Inv, TypeOK
  <2>6. ~UNCHANGED vars
    BY <1>1 DEF vars
  <2> QED
    BY <1>1, <2>1, <2>2, <2>3, <2>4, <2>5, <2>6 DEF Next, ServerStep
<1>2. Inv /\ [Next]_vars =>
        [\A p \in Pid :
          /\ boot' = boot /\ call' # call
          /\ proc[p].kind = "foreign" \/ proc[p].kind = "worker"
          /\ proc'[p].kind = "free"
          => /\ proc[p].kind = "worker"
             /\ \E c \in Call : \/ call[c].op = "disable" /\ proc[p].gpu \in call[c].asked
                               \/ call[c].child[proc[p].gpu] = p]_vars
  BY <1>1
<1> QED
  BY <1>2, Invariant, PTL DEF Spec, OthersUntouched

\* Only a stop that has gone through all of its GPUs returns.
LEMMA StopReturns ==
  ASSUME Inv, [Next]_vars, NEW c \in Call, Alive(c), call[c].op = "disable", call'[c].pc = "done"
  PROVE  call[c].pc = "checking" /\ call[c].todo = {}
<1>1. call \in [Call -> CallRecord] /\ call[c].pc # "done" /\ call'[c] # call[c]
  BY DEF Inv, TypeOK, Alive
<1>2. ASSUME NEW d \in Call, NEW pc \in {"done", "failed", "killed"}, Leave(d, pc)
      PROVE  d = c /\ pc = "done"
  BY <1>1, <1>2, LeaveFacts DEF Inv, Others
<1>3. ASSUME NEW d \in Call, NEW op \in {"enable", "disable", "attest"}, NEW gs \in SUBSET Gpu,
             Request(d, op, gs)
      PROVE  FALSE
  BY <1>1, <1>3 DEF Request
<1>4. ASSUME NEW d \in Call, CallStep(d) PROVE call[c].pc = "checking" /\ call[c].todo = {}
  <2>1. CASE Lock(d)
    BY <1>1, <2>1 DEF Lock
  <2>2. ASSUME NEW g \in Gpu, CheckRecorded(d, g) \/ Capture(d, g) \/ StartFails(d, g) \/ CheckAttested(d, g)
        PROVE  FALSE
    <3>1. call'[c].pc \in {call[c].pc, "querying"}
      BY <1>1, <2>2 DEF CheckRecorded, Capture, StartFails, CheckAttested, CallRecord
    <3> QED
      BY <1>1, <3>1
  <2>3. ASSUME NEW g \in Gpu, CheckStop(d, g) PROVE FALSE
    BY <1>1, <2>3 DEF CheckStop, CallRecord
  <2>4. ASSUME NEW g \in Gpu, NEW p \in Pid, Spawn(d, g, p) PROVE FALSE
    BY <1>1, <2>4 DEF Spawn, CallRecord
  <2>5. CASE OpenPidfd(d) \/ Recheck(d) \/ Signal(d) \/ Forget(d)
    <3>1. call'[c].pc \in {call[c].pc, "forgetting", "rechecking", "signalling", "checking"}
      BY <1>1, <2>5 DEF OpenPidfd, Recheck, Signal, Forget, CallRecord
    <3> QED
      BY <1>1, <3>1
  <2>6. CASE QueryDriver(d)
    <3>1. call'[c].pc \in {call[c].pc, "checking"}
      BY <1>1, <2>6 DEF QueryDriver, CallRecord
    <3> QED
      BY <1>1, <3>1
  <2>7. CASE Record(d) \/ StopFails(d) \/ AttestFails(d)
    BY <1>2, <2>7 DEF Record, Starting, StopFails, AttestFails, At
  <2>8. CASE AllStopped(d) \/ AllAttested(d)
    BY <1>2, <2>8 DEF AllStopped, AllAttested, At
  <2> QED
    BY <1>4, <2>1, <2>2, <2>3, <2>4, <2>5, <2>6, <2>7, <2>8 DEF CallStep
<1>5. ASSUME NEW d \in Call, Kill(d) PROVE FALSE
  BY <1>2, <1>5 DEF Kill
<1>6. ASSUME Reboot PROVE FALSE
  BY <1>1, <1>6 DEF Reboot, NewCall
<1>7. ~(\E q \in Pid : Ready(q) \/ Exit(q) \/ \E g \in Gpu \cup {None} : Foreign(q, g))
  BY <1>1 DEF Ready, Exit, Foreign
<1> QED
  BY <1>1, <1>3, <1>4, <1>5, <1>6, <1>7 DEF Next, ServerStep, vars

\* A stop that reports success (_disable) leaves no worker on its GPUs, but for
\* one that a killed helper never recorded.
THEOREM CompleteStops == Spec => StopIsComplete
<1>1. ASSUME Inv, [Next]_vars, NEW c \in Call, NEW p \in Pid,
             Alive(c), call[c].op = "disable", call'[c].pc = "done",
             proc[p].kind = "worker", proc[p].gpu \in call[c].asked
      PROVE  call[proc[p].parent].pc = "killed"
  <2>1. call[c].pc = "checking" /\ call[c].todo = {} /\ lock = c
    BY <1>1, StopReturns, Holds DEF Inv, Locked
  <2>2. proc[p].gpu \in Gpu /\ proc[p].parent \in Call
    BY <1>1 DEF Inv, Processes, Ours
  <2>3. file[proc[p].gpu] = None
    <3>1. call[c].ids[proc[p].gpu] = None
      BY <1>1, <2>1 DEF Inv, CallSound, Stopped
    <3> QED
      BY <1>1, <2>1, <2>2, <3>1, NothingStarted
  <2>4. IdentityOf(p) # None
    BY <1>1, Identified DEF Inv
  <2>5. ASSUME Alive(proc[p].parent) PROVE FALSE
    <3>1. call[proc[p].parent].child[proc[p].gpu] = p
      BY <1>1, <2>5 DEF Inv, Parents
    <3>2. At(proc[p].parent, "enable", "checking")
      BY <1>1, <2>2, <3>1, HelperAssumption DEF Inv, CallSound, Children
    <3>3. lock = proc[p].parent
      BY <1>1, <2>2, <3>2, Holds DEF Inv, At, Locked
    <3> QED
      BY <1>1, <2>1, <3>2, <3>3 DEF At
  <2> QED
    BY <1>1, <2>3, <2>4, <2>5 DEF Inv, NoUnrecordedWorker
<1>2. Inv /\ [Next]_vars =>
        [\A c \in Call, p \in Pid :
          /\ Alive(c) /\ call[c].op = "disable" /\ call'[c].pc = "done"
          /\ proc[p].kind = "worker" /\ proc[p].gpu \in call[c].asked
          => call[proc[p].parent].pc = "killed"]_vars
  BY <1>1
<1> QED
  BY <1>2, Invariant, PTL DEF Spec, StopIsComplete

=============================================================================
