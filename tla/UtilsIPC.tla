------------------------------- MODULE UtilsIPC -------------------------------
(***************************************************************************)
(* MempoolIPC/src/UtilsIPC.h: how processes meet.  open_or_create_mapping  *)
(* gives them a named shared-memory segment with a counter in it that      *)
(* decides who removes the name; find_or_create_shared_object gives them a *)
(* named object in that segment, with a counter of its own beside it.      *)
(*                                                                         *)
(* Opening a segment and counting oneself in are two steps; uncounting,    *)
(* unmapping and removing the name are three, and the comment on           *)
(* open_or_create_mapping says no lock can join them.  A lookup or release *)
(* of an object holds the object's mutex throughout: one step each.  The   *)
(* operating system is external: a removed name leaves the segment to      *)
(* those who have it mapped, and the next opener makes a new one.          *)
(*                                                                         *)
(* A process has one mapping and one object pointer at a time; for the     *)
(* counters a second pointer in a process is like one in another process.  *)
(***************************************************************************)
EXTENDS Integers, FiniteSets

CONSTANTS
  Procs,
  Faulty,       \* processes that may be killed
  Segments,     \* segments the operating system can create (bound)
  NoSegment,
  nProcessMax,  \* the limit passed to find_or_create_shared_object
  CtorThrows,   \* whether the object's constructor may throw
  TooSmall,     \* whether a segment may have no room for the mapping's counter
  Nuclear       \* whether RemoveSharedMemoryNuclear may be called

ASSUME UtilsAssumption ==
  /\ IsFiniteSet(Procs) /\ Faulty \subseteq Procs
  /\ NoSegment \notin Segments
  /\ nProcessMax \in Nat
  /\ CtorThrows \in BOOLEAN /\ TooSmall \in BOOLEAN /\ Nuclear \in BOOLEAN

VARIABLES
  name,      \* the segment the name stands for, NoSegment when unlinked
  used,      \* segments created so far
  counter,   \* counter[s]: the mapping's counter in s, Unmade before it is built
  stage,     \* "out", "opened", "in", "uncounted", "unmapped"
  seg,       \* seg[p]: the segment p has mapped
  remove,    \* remove[p]: the local variable shouldRemove
  object,    \* object[s]: the object is constructed in s
  refs,      \* refs[s]: the object's counter in s
  handle,    \* handle[p]: p's object pointer: "none", "null", "object", or
             \* "dangling" when its object was destroyed
  killed,
  raced,     \* history: an open met the last close, or a removal a user
  gaveUp,    \* history: an open found no room for the counter
  ctorThrew  \* history: the object's constructor threw

mapVars == <<name, used, counter, stage, seg, remove, raced, gaveUp>>
objVars == <<object, refs, handle, ctorThrew>>
utilsVars == <<mapVars, objVars, killed>>

Unmade == -1

UtilsInit ==
  /\ name = NoSegment /\ used = {}
  /\ counter = [s \in Segments |-> Unmade]
  /\ stage = [p \in Procs |-> "out"]
  /\ seg = [p \in Procs |-> NoSegment]
  /\ remove = [p \in Procs |-> FALSE]
  /\ object = [s \in Segments |-> FALSE]
  /\ refs = [s \in Segments |-> 0]
  /\ handle = [p \in Procs |-> "none"]
  /\ killed = {} /\ raced = FALSE /\ gaveUp = FALSE /\ ctorThrew = FALSE

MoveTo(p, from, to) ==
  p \notin killed /\ stage[p] = from /\ stage' = [stage EXCEPT ![p] = to]

-----------------------------------------------------------------------------
(* open_or_create_mapping *)

\* Somebody has decided to remove the name and has not done it yet.
RemovalDue == \E q \in Procs : remove[q]

InUse(s) == \E p \in Procs : seg[p] = s /\ stage[p] \in {"opened", "in"}

\* managed_shared_memory(open_or_create, ...).
OpenExisting(p) ==
  /\ MoveTo(p, "out", "opened")
  /\ name /= NoSegment
  /\ seg' = [seg EXCEPT ![p] = name]
  /\ raced' = (raced \/ RemovalDue)
  /\ UNCHANGED <<name, used, counter, remove, gaveUp, objVars, killed>>

OpenNew(p) ==
  /\ MoveTo(p, "out", "opened")
  /\ name = NoSegment
  /\ \E s \in Segments \ used :
       name' = s /\ used' = used \cup {s} /\ seg' = [seg EXCEPT ![p] = s]
  /\ raced' = (raced \/ RemovalDue)
  /\ UNCHANGED <<counter, remove, gaveUp, objVars, killed>>

\* find_or_construct the counter and ++counter, under the mutex in the segment.
Count(p) ==
  /\ MoveTo(p, "opened", "in")
  /\ counter' = [counter EXCEPT ![seg[p]] = IF @ = Unmade THEN 1 ELSE @ + 1]
  /\ UNCHANGED <<name, used, seg, remove, raced, gaveUp, objVars, killed>>

\* There is no room for the counter (or its mutex): null is returned and the
\* deleter runs, which finds none either and removes no name.
CountFails(p) ==
  /\ TooSmall
  /\ MoveTo(p, "opened", "uncounted")
  /\ counter[seg[p]] = Unmade
  /\ gaveUp' = TRUE
  /\ UNCHANGED <<name, used, counter, seg, remove, raced, objVars, killed>>

-----------------------------------------------------------------------------
(* The mapping's deleter.  It does not run before the object pointer is gone: *)
(* the pointer's deleter holds the segment.                                  *)

\* An open between the last process's two closing steps, as seen from the close.
MeetsOpen(p) ==
  counter[seg[p]] = 1 /\ \E q \in Procs : stage[q] = "opened" /\ seg[q] = seg[p]

UncountWith(p, last, left) ==
  /\ MoveTo(p, "in", "uncounted")
  /\ handle[p] = "none"
  /\ remove' = [remove EXCEPT ![p] = last]
  /\ counter' = [counter EXCEPT ![seg[p]] = left]
  /\ raced' = (raced \/ MeetsOpen(p))
  /\ UNCHANGED <<name, used, seg, gaveUp, objVars, killed>>

\* Mutants: the last but one removes; the decremented counter is compared with 1.
UncountEarly(p) == UncountWith(p, counter[seg[p]] <= 2, counter[seg[p]] - 1)
UncountLate(p) == UncountWith(p, counter[seg[p]] = 2, counter[seg[p]] - 1)

\* remove_mapping ...
Uncount(p) ==
  UncountWith(p, counter[seg[p]] = 1,
              IF counter[seg[p]] > 0 THEN counter[seg[p]] - 1 ELSE 0)

\* ... delete ptr ...
Unmap(p) ==
  /\ MoveTo(p, "uncounted", "unmapped")
  /\ seg' = [seg EXCEPT ![p] = NoSegment]
  /\ UNCHANGED <<name, used, counter, remove, raced, gaveUp, objVars, killed>>

\* ... and shared_memory_object::remove, by name, if this was the last user.
\* Removing a name that is not there fails with a message.
RemoveName(p) ==
  /\ MoveTo(p, "unmapped", "out")
  /\ name' = IF remove[p] THEN NoSegment ELSE name
  /\ remove' = [remove EXCEPT ![p] = FALSE]
  /\ UNCHANGED <<used, counter, seg, raced, gaveUp, objVars, killed>>

\* RemoveSharedMemoryNuclear unlinks the name whoever uses it.
RemoveNuclear ==
  /\ Nuclear /\ name /= NoSegment
  /\ name' = NoSegment
  /\ raced' = (raced \/ InUse(name))
  /\ UNCHANGED <<used, counter, stage, seg, remove, gaveUp, objVars, killed>>

-----------------------------------------------------------------------------
(* find_or_create_shared_object *)

\* A counter at its limit makes the lookup return a plain null: no step.
Admitted(p) ==
  /\ p \notin killed /\ stage[p] = "in" /\ handle[p] = "none"
  /\ refs[seg[p]] < nProcessMax
  /\ UNCHANGED <<mapVars, killed>>

Hand(p, h) == handle' = [handle EXCEPT ![p] = h]
CountObject(p) == refs' = [refs EXCEPT ![seg[p]] = @ + 1]

\* Mutant: only the creator counts.
FindUncounted(p) ==
  /\ Admitted(p) /\ object[seg[p]]
  /\ Hand(p, "object")
  /\ UNCHANGED <<object, refs, ctorThrew>>

Find(p) ==
  /\ Admitted(p) /\ object[seg[p]]
  /\ CountObject(p) /\ Hand(p, "object")
  /\ UNCHANGED <<object, ctorThrew>>

Create(p) ==
  /\ Admitted(p) /\ ~object[seg[p]]
  /\ object' = [object EXCEPT ![seg[p]] = TRUE]
  /\ CountObject(p) /\ Hand(p, "object")
  /\ UNCHANGED ctorThrew

\* std::nothrow: in a full segment the pointer is null, but counted.
CreateNoMemory(p) ==
  /\ Admitted(p) /\ ~object[seg[p]]
  /\ CountObject(p) /\ Hand(p, "null")
  /\ UNCHANGED <<object, ctorThrew>>

\* The constructor throws before ++counter: null, not counted, same deleter.
CreateThrows(p) ==
  /\ CtorThrows
  /\ Admitted(p) /\ ~object[seg[p]]
  /\ Hand(p, "null")
  /\ ctorThrew' = TRUE
  /\ UNCHANGED <<object, refs>>

\* The deleter, destroy_shared_object: whoever takes the counter to zero destroys
\* the object, and pointers others still have on it dangle.
ReleaseObject(p) ==
  LET s == seg[p]
      last == refs[s] = 1
  IN
  /\ p \notin killed /\ handle[p] /= "none"
  /\ refs' = [refs EXCEPT ![s] = IF @ > 0 THEN @ - 1 ELSE 0]
  /\ object' = [object EXCEPT ![s] = @ /\ ~last]
  /\ handle' = [q \in Procs |->
       IF q = p THEN "none"
       ELSE IF last /\ seg[q] = s /\ handle[q] = "object" THEN "dangling"
       ELSE handle[q]]
  /\ UNCHANGED <<ctorThrew, mapVars, killed>>

\* A process dies and its deleters never run.
Kill(p) ==
  /\ p \in Faulty \ killed
  /\ killed' = killed \cup {p}
  /\ UNCHANGED <<mapVars, objVars>>

-----------------------------------------------------------------------------

Close(p) == Uncount(p) \/ Unmap(p) \/ RemoveName(p)

Lookup(p) == Find(p) \/ Create(p) \/ CreateNoMemory(p) \/ CreateThrows(p)

UtilsNext ==
  \/ \E p \in Procs :
       \/ OpenExisting(p) \/ OpenNew(p) \/ Count(p) \/ CountFails(p) \/ Close(p)
       \/ Lookup(p) \/ ReleaseObject(p)
       \/ Kill(p)
  \/ RemoveNuclear

UtilsSpec == UtilsInit /\ [][UtilsNext]_utilsVars

\* An open or a close, once begun, is finished, and users let go of what they hold.
FairUtilsSpec ==
  /\ UtilsSpec
  /\ \A p \in Procs :
       WF_utilsVars(Count(p) \/ CountFails(p) \/ ReleaseObject(p) \/ Close(p))

-----------------------------------------------------------------------------
(* Properties *)

\* Type invariant.
UtilsTypeOK ==
  /\ name \in used \cup {NoSegment} /\ used \subseteq Segments
  /\ counter \in [Segments -> {Unmade} \cup 0 .. Cardinality(Procs)]
  /\ stage \in [Procs -> {"out", "opened", "in", "uncounted", "unmapped"}]
  /\ seg \in [Procs -> used \cup {NoSegment}]
  /\ remove \in [Procs -> BOOLEAN]
  /\ object \in [Segments -> BOOLEAN]
  /\ refs \in [Segments -> 0 .. nProcessMax]
  /\ handle \in [Procs -> {"none", "null", "object", "dangling"}]
  /\ \A p \in Procs : handle[p] /= "none" => stage[p] = "in"
  /\ killed \subseteq Faulty
  /\ raced \in BOOLEAN /\ gaveUp \in BOOLEAN /\ ctorThrew \in BOOLEAN

UsersOf(s) == {p \in Procs : stage[p] = "in" /\ seg[p] = s}
Holders(s) == {p \in UsersOf(s) : handle[p] /= "none"}

\* Each counter counts its users, those killed included: the mapping's counts the
\* processes in the segment, also in one whose name is gone, and the object's
\* counts the pointers handed out (until a construction throws); the object is
\* there only with a pointer out.
CountersExact ==
  \A s \in Segments :
    /\ counter[s] /= Unmade => counter[s] = Cardinality(UsersOf(s))
    /\ counter[s] = Unmade => UsersOf(s) = {}
    /\ ~ctorThrew => refs[s] = Cardinality(Holders(s))
    /\ object[s] => refs[s] > 0

\* The counters are exact, and so nobody's release destroys an object that another
\* process still points to, unless a construction threw: its pointer is released
\* without having been counted (the comment on find_or_create_shared_object, that
\* the last reference destroys the object, does not speak of that case).
HandlesLive ==
  /\ UtilsTypeOK
  /\ CountersExact
  /\ ~ctorThrew => \A p \in Procs : handle[p] /= "dangling"

\* Processes meet in one segment, and so in one object, unless the last close
\* overlapped an open (or the nuclear removal met a user).
OneSegmentUnlessRaced ==
  ~raced => \A p, q \in Procs :
    stage[p] = "in" /\ stage[q] = "in" => seg[p] = seg[q] /\ name = seg[p]

\* A segment whose users have all gone loses its name or finds a new user, races
\* or not: only a killed process or a segment too small for a counter leaves one.
NameReclaimed ==
  \A s \in Segments :
    (name = s /\ ~InUse(s)) ~> (name /= s \/ InUse(s) \/ killed /= {} \/ gaveUp)
=============================================================================
