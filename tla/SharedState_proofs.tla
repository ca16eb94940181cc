-------------------------- MODULE SharedState_proofs --------------------------
(***************************************************************************)
(* Proofs about SharedState for any finite set of sessions of any kinds    *)
(* and endpoints, any callers and any number of calls.                     *)
(***************************************************************************)
EXTENDS SharedState, FiniteSetTheorems, TLAPS

\* What a caller holds goes with what it is doing.
Place(a) ==
  /\ pc[a] = "erase" <=> doomed[a] /= NoSession
  /\ promoted[a] /= NoSession => pc[a] \in {"send", "sum"}
  /\ pc[a] = "sum" => mutex = a
  /\ mutex = a => pc[a] \in {"sum", "erase"}
  /\ pc[a] = "idle" => at[a] = 1 /\ got[a] = {}
  /\ pc[a] /= "idle" => calls[a] > 0

Places == \A a \in Callers : Place(a)

\* The destructor of a session runs once, when nobody can reach the session any more.
Dooms ==
  \A a \in Callers : doomed[a] /= NoSession =>
    /\ life[doomed[a]] = "closed" /\ ~Held(doomed[a])
    /\ \A b \in Callers \ {a} : doomed[b] /= doomed[a]

\* RegistryValid but for the types.
Registered ==
  \A s \in Sessions :
    /\ s \in registry <=> life[s] \in {"open", "closed"}
    /\ life[s] = "gone" => ~Held(s)

\* The walks are no longer than there are sessions.
InBounds(a) ==
  /\ mutex /= a => /\ at[a] <= Cardinality(Sessions) + 1
                   /\ promoted[a] /= NoSession => at[a] <= Cardinality(Sessions)
  /\ mutex = a => /\ at[a] <= Cardinality(got[a]) + 1
                  /\ promoted[a] /= NoSession => at[a] <= Cardinality(got[a])

Bounded ==
  /\ Len(pool) <= Cardinality(Sessions)
  /\ \A a \in Callers : InBounds(a)

\* A walk over vectors that are still its own: they hold all the sessions it is for,
\* and it has reached those it has passed, or they were closed.
OwnWalk(a) ==
  /\ \A s \in snapshot[a] : Endpoint[s] \in to[a] /\ \E i \in 1 .. Len(pool) : pool[i] = s
  /\ \A i \in 1 .. Len(pool) : Endpoint[pool[i]] \in to[a] => pool[i] \in snapshot[a]
  /\ promoted[a] /= NoSession => at[a] <= Len(pool) /\ promoted[a] = pool[at[a]]
  /\ got[a] \subseteq snapshot[a]
  /\ \A i \in 1 .. Len(pool) : i < at[a] /\ pool[i] \in snapshot[a] =>
       pool[i] \in got[a] \/ life[pool[i]] \in {"closed", "gone"}

Walks == \A a \in Callers : Sending(a) /\ ~overwritten[a] => OwnWalk(a)

IInv == TypeOK /\ Places /\ Dooms /\ Registered /\ Bounded /\ Walks

-----------------------------------------------------------------------------
(* The member vectors *)

\* The vectors hold the chosen sessions and no others, so no more than there are.
LEMMA PoolIs ==
  ASSUME NEW S, S \subseteq Sessions
  PROVE  /\ SetToSeq(S) \in Seq(Sessions) /\ Len(SetToSeq(S)) <= Cardinality(Sessions)
         /\ \A i \in 1 .. Len(SetToSeq(S)) : SetToSeq(S)[i] \in S
         /\ \A s \in S : \E i \in 1 .. Len(SetToSeq(S)) : SetToSeq(S)[i] = s
<1> DEFINE n == Cardinality(S)
           f == SetToSeq(S)
<1>1. /\ IsFiniteSet(S) /\ n \in Nat /\ n <= Cardinality(Sessions)
      /\ IsFiniteSet(1 .. n) /\ Cardinality(1 .. n) = n
  <2>1. IsFiniteSet(S) /\ n <= Cardinality(Sessions)
    BY SharedAssumption, FS_Subset
  <2>2. n \in Nat
    BY <2>1, FS_CardinalityType
  <2>3. IsFiniteSet(1 .. n) /\ Cardinality(1 .. n) = n
    BY <2>2, FS_Interval
  <2> QED BY <2>1, <2>2, <2>3
<1>2. \E g \in [1 .. n -> S] : IsInjective(g)
  <2>1. ExistsBijection(1 .. n, S)
    BY <1>1, FS_CardinalityType
  <2> QED BY <2>1 DEF ExistsBijection, Bijection, Injection
<1>3. f \in [1 .. n -> S] /\ IsInjective(f)
  BY <1>2 DEF SetToSeq
<1>4. \A s \in S : \E i \in 1 .. n : f[i] = s
  <2>1. f \in Injection(1 .. n, S)
    BY <1>3 DEF Injection
  <2> HIDE DEF f, n
  <2>2. f \in Surjection(1 .. n, S)
    BY <1>1, <2>1, FS_Injection DEF n
  <2> QED BY <2>2 DEF Surjection
<1> HIDE DEF f
<1>5. f \in Seq(Sessions) /\ Len(f) = n
  BY <1>1, <1>3
<1> QED BY <1>1, <1>3, <1>4, <1>5 DEF f

-----------------------------------------------------------------------------
(* Who can be reached *)

\* A session nobody can reach is never reached again, whatever anybody does.
LEMMA Unreachable ==
  ASSUME TypeOK, [Next]_vars, NEW s \in Sessions, ~Held(s)
  PROVE  ~Held(s)'
<1> USE DEF Held, HeldBy
<1>0. /\ life[s] \notin {"fresh", "open"} /\ inbox[s] = {}
      /\ \A a \in Callers : promoted[a] /= s
  OBVIOUS
<1>1. life'[s] \notin {"fresh", "open"}
  BY <1>0 DEF TypeOK, Next, Register, Close, Handle, Destroy, SendAsync, Fill, SumStart, CallStep,
     Promote, PromoteOther, Post, Finish, Return, SumPromote, SumDrop, SumEnds, Erase,
     vars, sessionVars
<1>2. \A a \in Callers : promoted'[a] /= s
  <2>1. NoSession /= s
    BY SharedAssumption
  <2>2. ASSUME NEW a \in Callers, Promote(a) \/ PromoteOther(a) \/ SumPromote(a)
        PROVE  \A b \in Callers : promoted'[b] /= s
    BY <1>0, <2>1, <2>2 DEF Promote, PromoteOther, SumPromote, TypeOK
  <2>3. ASSUME NEW a \in Callers, Post(a) \/ SumDrop(a) PROVE \A b \in Callers : promoted'[b] /= s
    BY <1>0, <2>1, <2>3 DEF Post, SumDrop, DropPointer, TypeOK
  <2>4. (\A a \in Callers : ~(Promote(a) \/ PromoteOther(a) \/ SumPromote(a) \/ Post(a) \/ SumDrop(a)))
          => promoted' = promoted
    BY DEF Next, Register, Close, Handle, Destroy, SendAsync, Fill, SumStart, CallStep,
       Finish, Return, SumEnds, Erase, vars, callVars
  <2> QED BY <1>0, <2>2, <2>3, <2>4
<1>3. inbox'[s] = {}
  <2>1. ASSUME NEW r \in Sessions, Handle(r) PROVE inbox'[s] = {}
    BY <1>0, <2>1 DEF Handle, TypeOK
  <2>2. ASSUME NEW a \in Callers, Post(a) PROVE inbox'[s] = {}
    BY <1>0, <2>2 DEF Post, TypeOK
  <2>3. (\A a \in Callers : ~Post(a)) /\ (\A r \in Sessions : ~Handle(r)) => inbox' = inbox
    BY DEF Next, Register, Close, Destroy, SendAsync, Fill, SumStart, CallStep, Promote,
       PromoteOther, Finish, Return, SumPromote, SumDrop, SumEnds, Erase, vars, sessionVars
  <2> QED BY <1>0, <2>1, <2>2, <2>3
<1> QED BY <1>1, <1>2, <1>3

\* A pointer that is dropped dooms its session only when it was the last.
LEMMA DropDooms ==
  ASSUME TypeOK, Registered, NEW a \in Callers, NEW next, NEW s \in Sessions, promoted[a] = s,
         DropPointer(a, inbox', next), life' = life
  PROVE  /\ Held(s)
         /\ \/ doomed' = doomed /\ pc' = [pc EXCEPT ![a] = next]
            \/ /\ doomed' = [doomed EXCEPT ![a] = s] /\ pc' = [pc EXCEPT ![a] = "erase"]
               /\ life[s] = "closed" /\ ~Held(s)'
<1>1. Held(s)
  BY DEF Held, HeldBy
<1>2. life[s] /= "gone"
  BY <1>1 DEF Registered
<1>3. CASE HeldBy(s, life, inbox', promoted')
  BY <1>1, <1>3 DEF DropPointer
<1>4. CASE ~HeldBy(s, life, inbox', promoted')
  <2>1. life[s] = "closed"
    BY <1>2, <1>4 DEF HeldBy, TypeOK
  <2>2. ~Held(s)'
    BY <1>4 DEF Held, HeldBy
  <2> QED BY <1>1, <1>4, <2>1, <2>2 DEF DropPointer
<1> QED BY <1>3, <1>4

-----------------------------------------------------------------------------
(* The registry *)

\* A step that dooms and destroys nobody.
LEMMA DoomsStay ==
  ASSUME TypeOK, Dooms, doomed' = doomed, [Next]_vars,
         \A s \in Sessions : life[s] = "closed" => life'[s] = "closed"
  PROVE  Dooms'
<1> SUFFICES ASSUME NEW a \in Callers, doomed[a] /= NoSession
             PROVE  /\ life'[doomed[a]] = "closed" /\ ~Held(doomed[a])'
                    /\ \A b \in Callers \ {a} : doomed[b] /= doomed[a]
  BY DEF Dooms
<1> PICK s \in Sessions : s = doomed[a]
  BY DEF TypeOK
<1>1. life[s] = "closed" /\ ~Held(s) /\ \A b \in Callers \ {a} : doomed[b] /= s
  BY DEF Dooms
<1>2. ~Held(s)'
  BY <1>1, Unreachable
<1> QED BY <1>1, <1>2

\* Registered is kept where no session and not the registry changes.
LEMMA RegisteredStays ==
  ASSUME TypeOK, Registered, UNCHANGED <<life, registry>>, [Next]_vars
  PROVE  Registered'
BY Unreachable DEF Registered

\* A dropped pointer dooms its session, and no session twice.
LEMMA DoomsDropped ==
  ASSUME TypeOK, Dooms, Registered, Places, [Next]_vars, NEW a \in Callers, NEW next,
         promoted[a] /= NoSession, DropPointer(a, inbox', next), life' = life
  PROVE  Dooms'
<1> PICK s \in Sessions : s = promoted[a]
  BY DEF TypeOK
<1>1. /\ Held(s)
      /\ \/ doomed' = doomed
         \/ doomed' = [doomed EXCEPT ![a] = s] /\ life[s] = "closed" /\ ~Held(s)'
  BY DropDooms
<1>2. CASE doomed' = doomed
  BY <1>2, DoomsStay
<1>3. CASE doomed' = [doomed EXCEPT ![a] = s] /\ life[s] = "closed" /\ ~Held(s)'
  <2>1. /\ doomed'[a] = s /\ \A b \in Callers \ {a} : doomed'[b] = doomed[b]
        /\ \A b \in Callers : doomed[b] /= s
    BY <1>1, <1>3, SharedAssumption DEF TypeOK, Dooms
  <2>2. ASSUME NEW b \in Callers \ {a}, doomed[b] /= NoSession
        PROVE  life'[doomed'[b]] = "closed" /\ ~Held(doomed[b])'
               /\ \A c \in Callers \ {b} : doomed'[c] /= doomed'[b]
    <3> PICK r \in Sessions : r = doomed[b]
      BY <2>2 DEF TypeOK
    <3>1. life[r] = "closed" /\ ~Held(r) /\ \A c \in Callers \ {b} : doomed[c] /= r
      BY <2>2 DEF Dooms
    <3>2. ~Held(r)'
      BY <3>1, Unreachable
    <3>3. r /= s
      BY <2>1
    <3>4. doomed'[b] = r
      BY <2>1
    <3> QED BY <2>1, <3>1, <3>2, <3>3, <3>4
  <2> QED BY <1>3, <2>1, <2>2 DEF Dooms
<1> QED BY <1>1, <1>2, <1>3

\* The registry follows the lives of the sessions, and destructors run once.
LEMMA RegistryStep ==
  ASSUME TypeOK, Places, Dooms, Registered, [Next]_vars
  PROVE  Registered' /\ Dooms'
<1>1. ASSUME NEW s \in Sessions, Register(s) PROVE Registered' /\ Dooms'
  <2>1. /\ life[s] = "fresh" /\ life'[s] = "open" /\ registry' = registry \cup {s}
        /\ \A r \in Sessions \ {s} : life'[r] = life[r]
        /\ doomed' = doomed /\ inbox' = inbox /\ promoted' = promoted
    BY <1>1 DEF Register, callVars, TypeOK
  <2>2. Dooms'
    BY <2>1, DoomsStay
  <2>3. Registered'
    BY <2>1, Unreachable DEF Registered
  <2> QED BY <2>2, <2>3
<1>2. ASSUME NEW s \in Sessions, Close(s) PROVE Registered' /\ Dooms'
  <2>1. /\ life[s] = "open" /\ life'[s] = "closed" /\ registry' = registry
        /\ \A r \in Sessions \ {s} : life'[r] = life[r]
        /\ doomed' = doomed
    BY <1>2 DEF Close, callVars, TypeOK
  <2>2. Dooms'
    BY <2>1, DoomsStay
  <2>3. Registered'
    BY <2>1, Unreachable DEF Registered
  <2> QED BY <2>2, <2>3
<1>3. ASSUME NEW s \in Sessions, Destroy(s) PROVE Registered' /\ Dooms'
  <2>1. /\ life[s] = "closed" /\ life'[s] = "gone" /\ registry' = registry \ {s}
        /\ \A r \in Sessions \ {s} : life'[r] = life[r]
        /\ doomed' = doomed /\ ~Held(s) /\ \A a \in Callers : doomed[a] /= s
    BY <1>3 DEF Destroy, callVars, TypeOK
  <2>2. Dooms'
    <3> SUFFICES ASSUME NEW a \in Callers, doomed[a] /= NoSession
                 PROVE  /\ life'[doomed[a]] = "closed" /\ ~Held(doomed[a])'
                        /\ \A b \in Callers \ {a} : doomed[b] /= doomed[a]
      BY <2>1 DEF Dooms
    <3> PICK r \in Sessions : r = doomed[a]
      BY DEF TypeOK
    <3>1. life[r] = "closed" /\ ~Held(r) /\ \A b \in Callers \ {a} : doomed[b] /= r
      BY DEF Dooms
    <3>2. ~Held(r)'
      BY <3>1, Unreachable
    <3> QED BY <2>1, <3>1, <3>2
  <2>3. Registered'
    BY <2>1, Unreachable DEF Registered
  <2> QED BY <2>2, <2>3
<1>4. ASSUME NEW a \in Callers, Erase(a) PROVE Registered' /\ Dooms'
  <2> PICK s \in Sessions : s = doomed[a]
    BY <1>4 DEF Erase, Places, Place, TypeOK
  <2>1. /\ life[s] = "closed" /\ ~Held(s) /\ \A b \in Callers \ {a} : doomed[b] /= s
        /\ life'[s] = "gone" /\ registry' = registry \ {s}
        /\ \A r \in Sessions \ {s} : life'[r] = life[r]
        /\ doomed'[a] = NoSession /\ \A b \in Callers \ {a} : doomed'[b] = doomed[b]
    BY <1>4, SharedAssumption DEF Erase, Dooms, TypeOK
  <2>2. Dooms'
    <3>1. ASSUME NEW b \in Callers \ {a}, doomed[b] /= NoSession
          PROVE  /\ life'[doomed'[b]] = "closed" /\ ~Held(doomed[b])'
                 /\ \A c \in Callers \ {b} : doomed'[c] /= doomed'[b]
      <4> PICK r \in Sessions : r = doomed[b]
        BY <3>1 DEF TypeOK
      <4>1. life[r] = "closed" /\ ~Held(r) /\ \A c \in Callers \ {b} : doomed[c] /= r
        BY <3>1 DEF Dooms
      <4>2. ~Held(r)'
        BY <4>1, Unreachable
      <4>3. doomed'[b] = r /\ r /= s /\ r /= NoSession
        BY <2>1, SharedAssumption
      <4> QED BY <2>1, <4>1, <4>2, <4>3
    <3> QED BY <2>1, <3>1 DEF Dooms
  <2>3. Registered'
    BY <2>1, Unreachable DEF Registered
  <2> QED BY <2>2, <2>3
<1>5. ASSUME NEW a \in Callers, Post(a) \/ SumDrop(a) PROVE Registered' /\ Dooms'
  <2>1. life' = life /\ registry' = registry /\ promoted[a] /= NoSession
    BY <1>5 DEF Post, SumDrop, sessionVars
  <2>2. Registered'
    BY <2>1, RegisteredStays
  <2>3. PICK next : DropPointer(a, inbox', next)
    <3>1. SumDrop(a) => DropPointer(a, inbox', "sum")
      BY DEF SumDrop, DropPointer, sessionVars
    <3>2. Post(a) => DropPointer(a, inbox', "send")
      BY DEF Post
    <3> QED BY <1>5, <3>1, <3>2
  <2>4. Dooms'
    BY <2>1, <2>3, DoomsDropped
  <2> QED BY <2>2, <2>4
<1>6. ASSUME UNCHANGED <<life, registry, doomed>> PROVE Registered' /\ Dooms'
  BY <1>6, RegisteredStays, DoomsStay
<1>7. ASSUME NEW s \in Sessions, Handle(s) PROVE UNCHANGED <<life, registry, doomed>>
  BY <1>7 DEF Handle, callVars
<1>8. ASSUME NEW a \in Callers,
             \/ SendAsync(a) \/ SumStart(a) \/ Promote(a) \/ PromoteOther(a) \/ Finish(a)
             \/ SumPromote(a) \/ SumEnds(a)
      PROVE  UNCHANGED <<life, registry, doomed>>
  BY <1>8 DEF SendAsync, Fill, SumStart, Promote, PromoteOther, Finish, Return, SumPromote,
     SumEnds, sessionVars
<1>9. UNCHANGED vars => UNCHANGED <<life, registry, doomed>>
  BY DEF vars, sessionVars, callVars
<1> QED BY <1>1, <1>2, <1>3, <1>4, <1>5, <1>6, <1>7, <1>8, <1>9 DEF Next, CallStep

-----------------------------------------------------------------------------
(* The calls *)

\* The callers' part of the state is not touched by the sessions.
LEMMA SessionsApart ==
  ASSUME NEW s \in Sessions, Register(s) \/ Close(s) \/ Handle(s) \/ Destroy(s)
  PROVE  UNCHANGED <<mutex, pool, callVars, crashed>>
BY DEF Register, Close, Handle, Destroy

\* What a's step leaves of b, who is another.
Untouched(b) ==
  /\ pc'[b] = pc[b] /\ to'[b] = to[b] /\ at'[b] = at[b] /\ promoted'[b] = promoted[b]
  /\ doomed'[b] = doomed[b] /\ calls'[b] = calls[b] /\ got'[b] = got[b]
  /\ snapshot'[b] = snapshot[b]
  /\ mutex' = b <=> mutex = b

CallerStep(a) == SendAsync(a) \/ SumStart(a) \/ CallStep(a)

\* A caller's step leaves the locals of the other callers alone.
LEMMA OthersUntouched ==
  ASSUME TypeOK, Places, NEW a \in Callers, CallerStep(a), NEW b \in Callers, b /= a
  PROVE  Untouched(b)
<1> USE DEF Untouched, TypeOK
<1>1. CASE SendAsync(a)
  BY <1>1 DEF SendAsync, Fill
<1>2. CASE SumStart(a)
  BY <1>2, SharedAssumption DEF SumStart
<1>3. CASE Promote(a) \/ PromoteOther(a) \/ SumPromote(a)
  BY <1>3 DEF Promote, PromoteOther, SumPromote
<1>4. CASE Post(a)
  BY <1>4 DEF Post, DropPointer
<1>5. CASE SumDrop(a)
  BY <1>5 DEF SumDrop, DropPointer
<1>6. CASE Finish(a)
  BY <1>6 DEF Finish, Return
<1>7. CASE SumEnds(a)
  <2>1. mutex = a /\ mutex' = Nobody
    BY <1>7 DEF SumEnds, Places, Place
  <2> QED BY <1>7, <2>1, SharedAssumption DEF SumEnds, Return
<1>8. CASE Erase(a)
  BY <1>8 DEF Erase
<1> QED BY <1>1, <1>2, <1>3, <1>4, <1>5, <1>6, <1>7, <1>8 DEF CallerStep, CallStep

\* A step of a caller, of a session or of nobody.
LEMMA WhoseStep ==
  ASSUME [Next]_vars
  PROVE  \/ \E a \in Callers : CallerStep(a)
         \/ UNCHANGED <<mutex, pool, callVars, crashed>>
BY SessionsApart DEF Next, CallerStep, vars

\* Every step leaves each caller where its locals say.
LEMMA PlacesStep ==
  ASSUME TypeOK, Registered, Places, [Next]_vars
  PROVE  Places'
<1>1. ASSUME UNCHANGED <<mutex, pool, callVars, crashed>> PROVE Places'
  BY <1>1 DEF Places, Place, callVars
<1>2. ASSUME NEW a \in Callers, CallerStep(a) PROVE Places'
  <2>1. ASSUME NEW b \in Callers, b /= a PROVE Place(b)'
    <3>1. Untouched(b)
      BY <1>2, <2>1, OthersUntouched
    <3> QED BY <3>1 DEF Untouched, Places, Place
  <2>2. Place(a) /\ calls[a] \in Nat /\ NoSession \notin Sessions /\ Nobody \notin Callers
    BY SharedAssumption DEF Places, TypeOK
  <2>3. CASE SendAsync(a) \/ SumStart(a)
    <3>1. /\ pc[a] = "idle" /\ mutex = Nobody /\ promoted'[a] = promoted[a] /\ doomed'[a] = doomed[a]
          /\ calls'[a] = calls[a] + 1
          /\ (pc'[a] = "send" /\ mutex' = mutex) \/ (pc'[a] = "sum" /\ mutex' = a)
      BY <2>3 DEF SendAsync, Fill, SumStart, TypeOK
    <3>2. Place(a)'
      BY <2>2, <3>1 DEF Place
    <3> QED BY <2>1, <3>2 DEF Places
  <2>4. CASE Promote(a) \/ PromoteOther(a) \/ SumPromote(a)
    <3>1. Place(a)'
      BY <2>2, <2>4 DEF Promote, PromoteOther, SumPromote, Walking, Place, TypeOK
    <3> QED BY <2>1, <3>1 DEF Places
  <2>5. CASE Post(a) \/ SumDrop(a)
    <3> PICK s \in Sessions : s = promoted[a]
      BY <2>5 DEF Post, SumDrop, TypeOK
    <3>1. PICK next \in {"send", "sum"} : DropPointer(a, inbox', next) /\ next = pc[a]
      <4>1. SumDrop(a) => DropPointer(a, inbox', "sum") /\ pc[a] = "sum"
        BY DEF SumDrop, DropPointer, sessionVars
      <4>2. Post(a) => DropPointer(a, inbox', "send") /\ pc[a] = "send"
        BY DEF Post
      <4> QED BY <2>5, <4>1, <4>2
    <3>2. life' = life /\ mutex' = mutex /\ calls' = calls
      BY <2>5 DEF Post, SumDrop, sessionVars
    <3>3. \/ doomed' = doomed /\ pc' = [pc EXCEPT ![a] = next]
          \/ doomed' = [doomed EXCEPT ![a] = s] /\ pc' = [pc EXCEPT ![a] = "erase"]
      BY <3>1, <3>2, DropDooms
    <3>4. promoted'[a] = NoSession
      BY <3>1 DEF DropPointer, TypeOK
    <3>5. Place(a)'
      BY <2>2, <3>1, <3>2, <3>3, <3>4 DEF Place, TypeOK
    <3> QED BY <2>1, <3>5 DEF Places
  <2>6. CASE Finish(a) \/ SumEnds(a)
    <3>1. Place(a)'
      BY <2>2, <2>6 DEF Finish, SumEnds, WalkEnds, Walking, Return, Place, TypeOK
    <3> QED BY <2>1, <3>1 DEF Places
  <2>7. CASE Erase(a)
    <3>1. Place(a)'
      BY <2>2, <2>7 DEF Erase, Place, TypeOK
    <3> QED BY <2>1, <3>1 DEF Places
  <2> QED BY <1>2, <2>3, <2>4, <2>5, <2>6, <2>7 DEF CallerStep, CallStep
<1> QED BY <1>1, <1>2, WhoseStep

\* No call walks or sums more sessions than there are.
LEMMA BoundedStep ==
  ASSUME TypeOK, Registered, Places, Bounded, [Next]_vars
  PROVE  Bounded'
<1> DEFINE N == Cardinality(Sessions)
<1>1. N \in Nat
  BY SharedAssumption, FS_CardinalityType
<1>2. ASSUME NEW a \in Callers
      PROVE  /\ Cardinality(got[a]) \in Nat /\ IsFiniteSet(got[a]) /\ at[a] \in Nat
             /\ Cardinality(got[a]) <= N
  <2>1. got[a] \in SUBSET Sessions /\ at[a] \in Nat
    BY <1>1 DEF TypeOK
  <2>2. IsFiniteSet(got[a]) /\ Cardinality(got[a]) <= N
    BY <2>1, SharedAssumption, FS_Subset
  <2> QED BY <2>1, <2>2, FS_CardinalityType
<1> HIDE DEF N
<1>3. ASSUME UNCHANGED <<mutex, pool, callVars, crashed>> PROVE Bounded'
  BY <1>3 DEF Bounded, InBounds, callVars
<1>4. ASSUME NEW a \in Callers, CallerStep(a) PROVE Bounded'
  <2>1. Len(pool') <= Cardinality(Sessions)
    <3>1. ASSUME SendAsync(a) PROVE Len(pool') <= Cardinality(Sessions)
      <4>1. PICK K : pool' = SetToSeq({s \in registry : Kind[s] \in K})
        BY <3>1 DEF SendAsync, Fill
      <4>2. {s \in registry : Kind[s] \in K} \subseteq Sessions
        BY DEF TypeOK
      <4> QED BY <4>1, <4>2, PoolIs
    <3>2. ~SendAsync(a) => pool' = pool
      BY <1>4 DEF CallerStep, SumStart, CallStep, Promote, PromoteOther, Post, Finish, Return,
         SumPromote, SumDrop, SumEnds, Erase
    <3> QED BY <3>1, <3>2 DEF Bounded
  <2>2. ASSUME NEW b \in Callers, b /= a PROVE InBounds(b)'
    <3>1. Untouched(b)
      BY <1>4, <2>2, OthersUntouched
    <3> QED BY <3>1 DEF Untouched, Bounded, InBounds
  <2>3. /\ Place(a) /\ InBounds(a) /\ at[a] \in Nat /\ NoSession \notin Sessions
        /\ Nobody \notin Callers /\ Len(pool) \in Nat /\ Len(pool) <= N
    BY <1>2, SharedAssumption DEF Places, Bounded, TypeOK, N
  <2>4. ASSUME SendAsync(a) \/ SumStart(a) PROVE InBounds(a)'
    <3>1. /\ pc[a] = "idle" /\ promoted'[a] = NoSession /\ at'[a] = 1 /\ got'[a] = {}
      BY <2>3, <2>4 DEF SendAsync, Fill, SumStart, Place, TypeOK
    <3>2. Cardinality(got'[a]) = 0
      BY <3>1, FS_EmptySet
    <3> QED BY <1>1, <3>1, <3>2 DEF InBounds, N
  <2>5. ASSUME Promote(a) \/ PromoteOther(a) PROVE InBounds(a)'
    <3>1. /\ mutex /= a /\ mutex' = mutex /\ at[a] <= N
          /\ (promoted'[a] /= NoSession /\ at'[a] = at[a])
             \/ (promoted'[a] = promoted[a] /\ (at'[a] = at[a] + 1 \/ at'[a] = at[a]))
          /\ promoted[a] = NoSession
      <4>1. mutex /= a /\ mutex' = mutex /\ promoted[a] = NoSession
        BY <2>3, <2>5 DEF Promote, PromoteOther, Walking, Place
      <4>2. at[a] <= N
        BY <1>1, <2>3, <2>5 DEF Promote, PromoteOther, N
      <4>3. (promoted'[a] /= NoSession /\ at'[a] = at[a])
             \/ (promoted'[a] = promoted[a] /\ (at'[a] = at[a] + 1 \/ at'[a] = at[a]))
        BY <2>3, <2>5 DEF Promote, PromoteOther, TypeOK
      <4> QED BY <4>1, <4>2, <4>3
    <3> QED BY <1>1, <2>3, <3>1 DEF InBounds, N
  <2>6. ASSUME Post(a) PROVE InBounds(a)'
    <3>1. /\ mutex /= a /\ mutex' = mutex /\ promoted[a] /= NoSession
          /\ promoted'[a] = NoSession /\ at'[a] = at[a] + 1
      BY <2>3, <2>6 DEF Post, DropPointer, Place, TypeOK
    <3> QED BY <1>1, <2>3, <3>1 DEF InBounds, N
  <2>7. ASSUME SumDrop(a) PROVE InBounds(a)'
    <3>1. /\ mutex = a /\ mutex' = mutex /\ promoted[a] /= NoSession
          /\ promoted'[a] = NoSession /\ at'[a] = at[a] + 1 /\ got' = got
      BY <2>3, <2>7 DEF SumDrop, DropPointer, Place, TypeOK
    <3> QED BY <1>2, <2>3, <3>1 DEF InBounds
  <2>8. ASSUME SumPromote(a) PROVE InBounds(a)'
    <3>1. PICK s \in Unsummed(a) : got' = [got EXCEPT ![a] = @ \cup {s}]
      BY <2>8 DEF SumPromote
    <3>2. mutex = a /\ mutex' = mutex /\ promoted[a] = NoSession /\ at' = at
      BY <2>3, <2>8 DEF SumPromote, Place
    <3>3. s \notin got[a] /\ got'[a] = got[a] \cup {s}
      BY <3>1 DEF Unsummed, TypeOK
    <3>4. Cardinality(got'[a]) = Cardinality(got[a]) + 1
      BY <1>2, <3>3, FS_AddElement
    <3> QED BY <1>2, <2>3, <3>2, <3>4 DEF InBounds
  <2>9. ASSUME Finish(a) \/ SumEnds(a) PROVE InBounds(a)'
    <3>1. /\ mutex' /= a /\ at'[a] = 1 /\ promoted'[a] = NoSession
      BY <2>3, <2>9 DEF Finish, SumEnds, WalkEnds, Walking, Return, Place, TypeOK
    <3> QED BY <1>1, <3>1 DEF InBounds, N
  <2>10. ASSUME Erase(a) PROVE InBounds(a)'
    BY <2>3, <2>10 DEF Erase, InBounds
  <2>11. InBounds(a)'
    BY <1>4, <2>4, <2>5, <2>6, <2>7, <2>8, <2>9, <2>10 DEF CallerStep, CallStep
  <2> QED BY <2>1, <2>2, <2>11 DEF Bounded
<1> QED BY <1>3, <1>4, WhoseStep

-----------------------------------------------------------------------------
(* The walks *)

\* A session that is not open any more is never open again.
LEMMA LifeGoesOn ==
  ASSUME TypeOK, Places, Dooms, [Next]_vars, NEW s \in Sessions, life[s] \in {"closed", "gone"}
  PROVE  life'[s] \in {"closed", "gone"}
BY DEF TypeOK, Next, Register, Close, Handle, Destroy, SendAsync, Fill, SumStart, CallStep,
   Promote, PromoteOther, Post, Finish, Return, SumPromote, SumDrop, SumEnds, Erase,
   vars, sessionVars

\* A walk is as far as it was, over the same vectors.
LEMMA OwnWalkStays ==
  ASSUME TypeOK, Places, Dooms, [Next]_vars, NEW b \in Callers, OwnWalk(b), pool' = pool,
         to'[b] = to[b], at'[b] = at[b], promoted'[b] = promoted[b], got'[b] = got[b],
         snapshot'[b] = snapshot[b]
  PROVE  OwnWalk(b)'
<1>1. \A i \in 1 .. Len(pool) : pool[i] \in Sessions
  BY DEF TypeOK
<1> QED BY <1>1, LifeGoesOn DEF OwnWalk

\* The vectors a call fills are those its walk needs.
LEMMA FillsOwn ==
  ASSUME TypeOK, Places, NEW a \in Callers, NEW K \in SUBSET Kinds, NEW E, Fill(a, K, E)
  PROVE  OwnWalk(a)'
<1> PICK S : S = {s \in registry : Kind[s] \in K}
  OBVIOUS
<1>1. /\ snapshot'[a] = {s \in S : Endpoint[s] \in E}
      /\ to'[a] = E /\ at'[a] = 1 /\ got'[a] = {} /\ promoted'[a] = NoSession
      /\ pool' = SetToSeq(S)
  BY DEF Fill, Matches, Places, Place, TypeOK
<1>2. S \subseteq Sessions
  BY DEF TypeOK
<1>3. /\ pool' \in Seq(Sessions)
      /\ \A i \in 1 .. Len(pool') : pool'[i] \in S
      /\ \A s \in S : \E i \in 1 .. Len(pool') : pool'[i] = s
  <2>1. pool' = SetToSeq(S)
    BY <1>1
  <2>2. /\ SetToSeq(S) \in Seq(Sessions)
        /\ \A i \in 1 .. Len(SetToSeq(S)) : SetToSeq(S)[i] \in S
        /\ \A s \in S : \E i \in 1 .. Len(SetToSeq(S)) : SetToSeq(S)[i] = s
    BY ONLY <1>2, PoolIs
  <2> QED BY ONLY <2>1, <2>2
<1>4. \A i \in 1 .. Len(pool') : ~(i < at'[a])
  BY <1>1, <1>3
<1> QED BY <1>1, <1>3, <1>4 DEF OwnWalk

\* The pointer taken is to the session the walk is at; one not taken has expired,
\* because its session is closed.
LEMMA PromoteWalks ==
  ASSUME TypeOK, NEW a \in Callers, OwnWalk(a), Promote(a)
  PROVE  OwnWalk(a)'
<1>1. /\ pool' = pool /\ to' = to /\ got' = got /\ snapshot' = snapshot /\ life' = life
      /\ at[a] \in 1 .. Len(pool) /\ at[a] \in Nat /\ Len(pool) \in Nat /\ pool[at[a]] \in Sessions
  BY DEF Promote, sessionVars, TypeOK
<1>2. CASE Held(pool[at[a]])
  <2>1. promoted'[a] = pool[at[a]] /\ at' = at
    BY <1>2 DEF Promote, TypeOK
  <2> QED BY <1>1, <2>1 DEF OwnWalk
<1>3. CASE ~Held(pool[at[a]])
  <2>1. promoted'[a] = promoted[a] /\ at'[a] = at[a] + 1 /\ promoted[a] = NoSession
    BY <1>3 DEF Promote, Walking, TypeOK
  <2>2. life[pool[at[a]]] \in {"closed", "gone"}
    BY <1>1, <1>3 DEF Held, HeldBy, TypeOK
  <2>3. \A i \in 1 .. Len(pool) : i < at'[a] => i < at[a] \/ i = at[a]
    BY <1>1, <2>1
  <2> QED BY <1>1, <2>1, <2>2, <2>3 DEF OwnWalk
<1> QED BY <1>2, <1>3

\* The message is posted exactly to a session the call is for.
LEMMA PostWalks ==
  ASSUME TypeOK, NEW a \in Callers, OwnWalk(a), Post(a)
  PROVE  OwnWalk(a)'
<1> PICK s \in Sessions : s = promoted[a]
  BY DEF Post, TypeOK
<1>1. /\ pool' = pool /\ to' = to /\ snapshot' = snapshot /\ life' = life
      /\ promoted'[a] = NoSession /\ at'[a] = at[a] + 1
      /\ got'[a] = IF Endpoint[s] \in to[a] THEN got[a] \cup {s} ELSE got[a]
  BY DEF Post, DropPointer, TypeOK
<1>2. at[a] \in 1 .. Len(pool) /\ Len(pool) \in Nat /\ s = pool[at[a]]
  BY SharedAssumption DEF OwnWalk, Post, TypeOK
<1>3. Endpoint[s] \in to[a] <=> s \in snapshot[a]
  BY <1>2 DEF OwnWalk
<1>4. \A i \in 1 .. Len(pool) : i < at'[a] => i < at[a] \/ i = at[a]
  BY <1>1, <1>2
<1> QED BY <1>1, <1>2, <1>3, <1>4 DEF OwnWalk

\* Every step leaves the walks whose vectors nobody has overwritten as they should be.
LEMMA WalksStep ==
  ASSUME TypeOK, Registered, Places, Dooms, Walks, [Next]_vars
  PROVE  Walks'
<1>1. ASSUME UNCHANGED <<mutex, pool, callVars, crashed>> PROVE Walks'
  <2> SUFFICES ASSUME NEW b \in Callers, Sending(b), ~overwritten[b] PROVE OwnWalk(b)'
    BY <1>1 DEF Walks, Sending, callVars
  <2>1. OwnWalk(b)
    BY DEF Walks
  <2> QED BY <1>1, <2>1, OwnWalkStays DEF callVars
<1>2. ASSUME NEW a \in Callers, CallerStep(a) PROVE Walks'
  <2>1. ASSUME NEW b \in Callers, b /= a, Sending(b)', ~overwritten'[b] PROVE OwnWalk(b)'
    <3>1. Untouched(b)
      BY <1>2, <2>1, OthersUntouched
    <3>2. Sending(b)
      BY <2>1, <3>1 DEF Sending, Untouched
    <3>3. ~SendAsync(a) /\ pool' = pool /\ overwritten'[b] = overwritten[b]
      <4>1. ASSUME SendAsync(a) PROVE FALSE
        BY <2>1, <3>2, <4>1 DEF SendAsync, Fill
      <4>2. pool' = pool
        BY <1>2, <4>1 DEF CallerStep, SumStart, CallStep, Promote, PromoteOther, Post, Finish,
           Return, SumPromote, SumDrop, SumEnds, Erase
      <4>3. overwritten'[b] = overwritten[b]
        BY <1>2, <2>1, <4>1 DEF CallerStep, SumStart, CallStep, Promote, PromoteOther, Post,
           Finish, Return, SumPromote, SumDrop, SumEnds, Erase, TypeOK
      <4> QED BY <4>1, <4>2, <4>3
    <3>4. OwnWalk(b)
      BY <2>1, <3>2, <3>3 DEF Walks
    <3> QED BY <3>1, <3>3, <3>4, OwnWalkStays DEF Untouched
  <2>2. ASSUME Sending(a)', ~overwritten'[a] PROVE OwnWalk(a)'
    <3>1. Place(a)
      BY DEF Places
    <3>2. CASE SendAsync(a)
      BY <3>2, FillsOwn DEF SendAsync
    <3>3. ASSUME SumStart(a) \/ SumPromote(a) \/ SumDrop(a) PROVE FALSE
      <4>1. mutex' = a
        BY <3>1, <3>3 DEF SumStart, SumPromote, SumDrop, Place
      <4> QED BY <2>2, <4>1 DEF Sending
    <3>4. ASSUME Finish(a) \/ SumEnds(a) PROVE FALSE
      <4>1. pc'[a] = "idle"
        BY <3>4 DEF Finish, SumEnds, Return, TypeOK
      <4> QED BY <2>2, <4>1 DEF Sending
    <3>5. ASSUME Promote(a) \/ PromoteOther(a) \/ Post(a) PROVE OwnWalk(a) /\ ~PromoteOther(a)
      <4>1. overwritten' = overwritten /\ Sending(a)
        BY <3>1, <3>5 DEF Promote, PromoteOther, Post, Walking, Sending, Place
      <4>2. ~overwritten[a]
        BY <2>2, <4>1
      <4> QED BY <4>1, <4>2 DEF Walks, PromoteOther
    <3>6. CASE Erase(a)
      <4>1. /\ overwritten' = overwritten /\ pool' = pool /\ to' = to /\ at' = at /\ got' = got
            /\ promoted' = promoted /\ snapshot' = snapshot /\ mutex' = mutex /\ pc[a] = "erase"
        BY <3>6 DEF Erase
      <4>2. Sending(a) /\ ~overwritten[a]
        BY <2>2, <4>1 DEF Sending
      <4>3. OwnWalk(a)
        BY <4>2 DEF Walks
      <4> QED BY <4>1, <4>3, OwnWalkStays
    <3> QED BY <1>2, <3>2, <3>3, <3>4, <3>5, <3>6, PromoteWalks, PostWalks DEF CallerStep, CallStep
  <2> QED BY <2>1, <2>2 DEF Walks
<1> QED BY <1>1, <1>2, WhoseStep

-----------------------------------------------------------------------------
(* The invariant *)

\* Every step keeps the types.
LEMMA TypeStep ==
  ASSUME TypeOK, Places, Bounded', [Next]_vars
  PROVE  TypeOK'
<1> DEFINE N == Cardinality(Sessions)
<1>1. N \in Nat
  BY SharedAssumption, FS_CardinalityType
<1>2. ASSUME NEW a \in Callers, pc[a] /= "idle" PROVE Message(a) \in Messages
  <2>1. calls[a] > 0 /\ calls[a] \in 0 .. MaxCalls /\ MaxCalls \in Nat
    BY <1>2, SharedAssumption DEF Places, Place, TypeOK
  <2>2. calls[a] \in 1 .. MaxCalls
    BY <2>1
  <2> QED BY <2>2 DEF Message, Messages
<1>3. life' \in [Sessions -> {"fresh", "open", "closed", "gone"}] /\ registry' \subseteq Sessions
  BY DEF TypeOK, Next, Register, Close, Handle, Destroy, SendAsync, Fill, SumStart, CallStep,
     Promote, PromoteOther, Post, Finish, Return, SumPromote, SumDrop, SumEnds, Erase,
     vars, sessionVars
<1>4. inbox' \in [Sessions -> SUBSET Messages] /\ called' \subseteq Messages
  <2>1. ASSUME NEW s \in Sessions, Handle(s)
        PROVE  inbox' \in [Sessions -> SUBSET Messages] /\ called' \subseteq Messages
    BY <2>1 DEF Handle, TypeOK
  <2>2. ASSUME NEW a \in Callers, Post(a) \/ Finish(a)
        PROVE  inbox' \in [Sessions -> SUBSET Messages] /\ called' \subseteq Messages
    <3>1. Message(a) \in Messages
      <4>1. pc[a] = "send"
        BY <2>2 DEF Post, Finish, WalkEnds, Walking
      <4> QED BY <1>2, <4>1
    <3>2. /\ inbox' = inbox \/ inbox' = [inbox EXCEPT ![promoted[a]] = @ \cup {Message(a)}]
          /\ called' = called \/ called' = called \cup {Message(a)}
      BY <2>2 DEF Post, Finish, Return, sessionVars
    <3>3. inbox \in [Sessions -> SUBSET Messages] /\ called \subseteq Messages
      BY DEF TypeOK
    <3>4. inbox' \in [Sessions -> SUBSET Messages]
      <4>1. CASE inbox' = inbox
        BY <3>3, <4>1
      <4>2. CASE inbox' = [inbox EXCEPT ![promoted[a]] = @ \cup {Message(a)}]
        BY <3>1, <3>3, <4>2
      <4> QED BY <3>2, <4>1, <4>2
    <3> QED BY <3>1, <3>2, <3>3, <3>4
  <2>3. (\A a \in Callers : ~(Post(a) \/ Finish(a))) /\ (\A s \in Sessions : ~Handle(s))
          => inbox' = inbox /\ called' = called
    BY DEF Next, Register, Close, Destroy, SendAsync, Fill, SumStart, CallStep, Promote,
       PromoteOther, Return, SumPromote, SumDrop, SumEnds, Erase, vars, sessionVars
  <2> QED BY <2>1, <2>2, <2>3 DEF TypeOK
<1>5. ASSUME UNCHANGED <<mutex, pool, callVars, crashed>>
      PROVE  TypeOK'
  BY <1>3, <1>4, <1>5 DEF TypeOK, callVars
<1>6. ASSUME NEW a \in Callers, CallerStep(a)
      PROVE  TypeOK'
  <2>1. mutex' \in Callers \cup {Nobody} /\ crashed' \in BOOLEAN
    BY <1>6 DEF TypeOK, CallerStep, SendAsync, Fill, SumStart, CallStep, Promote,
       PromoteOther, Post, Finish, Return, SumPromote, SumDrop, SumEnds, Erase
  <2>2. pool' \in Seq(Sessions)
    <3>1. ASSUME SendAsync(a) PROVE pool' \in Seq(Sessions)
      <4>1. PICK K : pool' = SetToSeq({s \in registry : Kind[s] \in K})
        BY <3>1 DEF SendAsync, Fill
      <4>2. {s \in registry : Kind[s] \in K} \subseteq Sessions
        BY DEF TypeOK
      <4> QED BY <4>1, <4>2, PoolIs
    <3>2. ~SendAsync(a) => pool' = pool
      BY <1>6 DEF CallerStep, SumStart, CallStep, Promote, PromoteOther, Post, Finish, Return,
         SumPromote, SumDrop, SumEnds, Erase
    <3> QED BY <3>1, <3>2 DEF TypeOK
  <2>3. pc' \in [Callers -> {"idle", "send", "sum", "erase"}]
    BY <1>6 DEF TypeOK, CallerStep, SendAsync, Fill, SumStart, CallStep, Promote,
       PromoteOther, Post, DropPointer, Finish, Return, SumPromote, SumDrop, SumEnds, Erase
  <2>4. to' \in [Callers -> SUBSET Endpoints] /\ calls' \in [Callers -> 0 .. MaxCalls]
    <3>1. to' \in [Callers -> SUBSET Endpoints]
      <4>1. to' = to \/ \E E \in SUBSET Endpoints : to' = [to EXCEPT ![a] = E]
        <5>1. CASE SendAsync(a)
          <6>1. PICK K \in SUBSET Kinds, E \in SUBSET Endpoints : Fill(a, K, E)
            <7>1. \A e \in Endpoints : {e} \in SUBSET Endpoints
              OBVIOUS
            <7>2. Kinds \in SUBSET Kinds /\ Endpoints \in SUBSET Endpoints
              OBVIOUS
            <7> HIDE DEF Fill
            <7> QED BY <5>1, <7>1, <7>2, Zenon DEF SendAsync
          <6> QED BY <6>1 DEF Fill
        <5>2. CASE Finish(a) \/ SumEnds(a)
          BY <5>2 DEF Finish, SumEnds, Return
        <5>3. CASE ~SendAsync(a) /\ ~Finish(a) /\ ~SumEnds(a)
          BY <1>6, <5>3 DEF CallerStep, SumStart, CallStep, Promote, PromoteOther, Post,
             SumPromote, SumDrop, Erase
        <5> QED BY <5>1, <5>2, <5>3
      <4> QED BY <4>1 DEF TypeOK
    <3>2. calls' = calls \/ (calls' = [calls EXCEPT ![a] = @ + 1] /\ calls[a] < MaxCalls)
      BY <1>6 DEF CallerStep, SendAsync, Fill, SumStart, CallStep, Promote,
         PromoteOther, Post, Finish, Return, SumPromote, SumDrop, SumEnds, Erase
    <3>3. calls \in [Callers -> 0 .. MaxCalls] /\ MaxCalls \in Nat
      BY SharedAssumption DEF TypeOK
    <3>4. calls[a] < MaxCalls => calls[a] + 1 \in 0 .. MaxCalls
      BY <3>3
    <3>5. calls' \in [Callers -> 0 .. MaxCalls]
      BY <3>2, <3>3, <3>4
    <3> QED BY <3>1, <3>5
  <2>5. promoted' \in [Callers -> Sessions \cup {NoSession}]
    <3>1. promoted' = promoted \/ \E s \in Sessions \cup {NoSession} :
                                     promoted' = [promoted EXCEPT ![a] = s]
      <4>1. CASE Promote(a)
        <5>1. at[a] \in 1 .. Len(pool)
          BY <1>1, <4>1 DEF Promote, TypeOK
        <5>2. pool[at[a]] \in Sessions
          BY <5>1 DEF TypeOK
        <5> QED BY <4>1, <5>2 DEF Promote
      <4>2. CASE PromoteOther(a)
        BY <4>2 DEF PromoteOther
      <4>3. CASE SumPromote(a)
        BY <4>3 DEF SumPromote, Unsummed, TypeOK
      <4>4. CASE Post(a) \/ SumDrop(a)
        BY <4>4 DEF Post, SumDrop, DropPointer
      <4>5. CASE ~(Promote(a) \/ PromoteOther(a) \/ SumPromote(a) \/ Post(a) \/ SumDrop(a))
        BY <1>6, <4>5 DEF CallerStep, SendAsync, Fill, SumStart, CallStep, Finish, Return,
           SumEnds, Erase
      <4> QED BY <4>1, <4>2, <4>3, <4>4, <4>5
    <3> QED BY <3>1 DEF TypeOK
  <2>6. doomed' \in [Callers -> Sessions \cup {NoSession}]
    BY <1>6 DEF TypeOK, CallerStep, SendAsync, Fill, SumStart, CallStep, Promote,
       PromoteOther, Post, DropPointer, Finish, Return, SumPromote, SumDrop, SumEnds, Erase
  <2>7. /\ got' \in [Callers -> SUBSET Sessions] /\ snapshot' \in [Callers -> SUBSET Sessions]
        /\ overwritten' \in [Callers -> BOOLEAN]
    <3>1. got' \in [Callers -> SUBSET Sessions]
      <4>1. got' = got \/ got' = [got EXCEPT ![a] = {}]
              \/ \E s \in Sessions : got' = [got EXCEPT ![a] = @ \cup {s}]
        <5>1. CASE Post(a)
          BY <5>1 DEF Post, TypeOK
        <5>2. CASE SumPromote(a)
          BY <5>2 DEF SumPromote, Unsummed, TypeOK
        <5>3. CASE ~Post(a) /\ ~SumPromote(a)
          BY <1>6, <5>3 DEF CallerStep, SendAsync, Fill, SumStart, CallStep, Promote,
             PromoteOther, Finish, Return, SumDrop, SumEnds, Erase
        <5> QED BY <5>1, <5>2, <5>3
      <4>2. got \in [Callers -> SUBSET Sessions]
        BY DEF TypeOK
      <4> QED BY <4>1, <4>2
    <3>2. snapshot' \in [Callers -> SUBSET Sessions]
      <4>1. snapshot' = snapshot \/ \E S \in SUBSET Sessions :
                                       snapshot' = [snapshot EXCEPT ![a] = S]
        <5>1. CASE SendAsync(a)
          <6>1. PICK K, E : snapshot' = [snapshot EXCEPT ![a] = {s \in registry : Matches(s, K, E)}]
            <7>1. PICK K, E : Fill(a, K, E)
              BY <5>1, Zenon DEF SendAsync
            <7> QED BY <7>1 DEF Fill
          <6>2. {s \in registry : Matches(s, K, E)} \in SUBSET Sessions
            BY DEF TypeOK
          <6> QED BY <6>1, <6>2
        <5>2. CASE SumStart(a)
          BY <5>2 DEF SumStart, TypeOK
        <5>3. CASE Finish(a) \/ SumEnds(a)
          BY <5>3 DEF Finish, SumEnds, Return
        <5>4. CASE ~(SendAsync(a) \/ SumStart(a) \/ Finish(a) \/ SumEnds(a))
          BY <1>6, <5>4 DEF CallerStep, CallStep, Promote, PromoteOther, Post, SumPromote,
             SumDrop, Erase
        <5> QED BY <5>1, <5>2, <5>3, <5>4
      <4> QED BY <4>1 DEF TypeOK
    <3>3. overwritten' \in [Callers -> BOOLEAN]
      BY <1>6 DEF TypeOK, CallerStep, SendAsync, Fill, SumStart, CallStep, Promote,
         PromoteOther, Post, Finish, Return, SumPromote, SumDrop, SumEnds, Erase
    <3> QED BY <3>1, <3>2, <3>3
  <2>8. at' \in [Callers -> 1 .. Cardinality(Sessions) + 2]
    <3>1. \/ at' = at \/ at' = [at EXCEPT ![a] = @ + 1] \/ at' = [at EXCEPT ![a] = 1]
      BY <1>6 DEF CallerStep, SendAsync, Fill, SumStart, CallStep, Promote,
         PromoteOther, Post, DropPointer, Finish, Return, SumPromote, SumDrop, SumEnds, Erase
    <3>2. at'[a] <= N + 1
      <4>1. got'[a] \subseteq Sessions
        BY <2>7
      <4>2. IsFiniteSet(got'[a]) /\ Cardinality(got'[a]) <= N
        BY <4>1, SharedAssumption, FS_Subset
      <4>3. Cardinality(got'[a]) \in Nat
        BY <4>2, FS_CardinalityType
      <4>4. at'[a] <= N + 1 \/ at'[a] <= Cardinality(got'[a]) + 1
        BY DEF Bounded, InBounds
      <4>5. at'[a] \in Nat
        BY <1>1, <3>1 DEF TypeOK
      <4> QED BY <1>1, <4>2, <4>3, <4>4, <4>5
    <3>3. at[a] \in 1 .. N + 2 /\ at \in [Callers -> 1 .. N + 2]
      BY DEF TypeOK
    <3>4. at'[a] \in 1 .. N + 2
      BY <1>1, <3>1, <3>2, <3>3
    <3> QED BY <3>1, <3>3, <3>4
  <2> QED BY <1>3, <1>4, <2>1, <2>2, <2>3, <2>4, <2>5, <2>6, <2>7, <2>8 DEF TypeOK
<1> QED BY <1>5, <1>6, WhoseStep

\* A registry without sessions.
LEMMA InitIInv == Init => IInv
<1> SUFFICES ASSUME Init PROVE IInv
  OBVIOUS
<1>1. Cardinality(Sessions) \in Nat /\ Cardinality({}) = 0
  BY SharedAssumption, FS_CardinalityType, FS_EmptySet
<1>2. <<>> \in Seq(Sessions)
  OBVIOUS
<1>3. TypeOK
  <2>1. /\ life \in [Sessions -> {"fresh", "open", "closed", "gone"}] /\ registry \subseteq Sessions
        /\ inbox \in [Sessions -> SUBSET Messages] /\ called \subseteq Messages
        /\ mutex \in Callers \cup {Nobody} /\ crashed \in BOOLEAN
    BY DEF Init
  <2>2. pool \in Seq(Sessions)
    BY <1>2 DEF Init
  <2>3. /\ pc \in [Callers -> {"idle", "send", "sum", "erase"}]
        /\ to \in [Callers -> SUBSET Endpoints]
        /\ promoted \in [Callers -> Sessions \cup {NoSession}]
        /\ doomed \in [Callers -> Sessions \cup {NoSession}]
        /\ got \in [Callers -> SUBSET Sessions] /\ snapshot \in [Callers -> SUBSET Sessions]
        /\ overwritten \in [Callers -> BOOLEAN]
    BY DEF Init
  <2>4. 1 \in 1 .. Cardinality(Sessions) + 2 /\ 0 \in 0 .. MaxCalls
    BY <1>1, SharedAssumption
  <2>5. at \in [Callers -> 1 .. Cardinality(Sessions) + 2] /\ calls \in [Callers -> 0 .. MaxCalls]
    BY <2>4 DEF Init
  <2> QED BY <2>1, <2>2, <2>3, <2>5 DEF TypeOK
<1>4. Places
  BY SharedAssumption DEF Init, Places, Place
<1>5. Dooms /\ Registered
  BY DEF Init, Dooms, Registered, Held, HeldBy
<1>6. Len(pool) = 0
  BY DEF Init
<1>7. Bounded
  BY <1>1, <1>6 DEF Init, Bounded, InBounds
<1>8. Walks
  BY DEF Init, Walks, Sending
<1> QED BY <1>3, <1>4, <1>5, <1>7, <1>8 DEF IInv

\* The parts together.
LEMMA NextIInv == IInv /\ [Next]_vars => IInv'
<1> SUFFICES ASSUME IInv, [Next]_vars PROVE IInv'
  OBVIOUS
<1>1. TypeOK /\ Places /\ Dooms /\ Registered /\ Bounded /\ Walks
  BY DEF IInv
<1>2. Bounded'
  BY <1>1, BoundedStep
<1>3. TypeOK'
  BY <1>1, <1>2, TypeStep
<1>4. Places' /\ Walks' /\ Registered' /\ Dooms'
  BY <1>1, PlacesStep, WalksStep, RegistryStep
<1> QED BY <1>2, <1>3, <1>4 DEF IInv

\* What the callers hold, what the registry shows and how far each walk has come
\* fit together in every reachable state.
THEOREM Invariance == Spec => []IInv
BY InitIInv, NextIInv, PTL DEF Spec

\* A session is registered from its upgrade or join until its destructor has removed
\* it, whichever thread runs that, and nobody holds or posts to one that is gone.
THEOREM RegistrySound == Spec => []RegistryValid
<1>1. IInv => RegistryValid
  BY DEF IInv, Registered, RegistryValid
<1> QED BY <1>1, Invariance, PTL

\* A sendAsync whose vectors no other call refills reaches every session it was
\* meant for that is still open, and no other.
THEOREM CallsReachTheirSessions == Spec => []ReachesItsSessions
<1>1. IInv => ReachesItsSessions
  <2> SUFFICES ASSUME IInv, NEW a \in Callers, WalkEnds(a), ~overwritten[a]
               PROVE  /\ got[a] \subseteq snapshot[a]
                      /\ \A s \in snapshot[a] : life[s] = "open" => s \in got[a]
    BY DEF ReachesItsSessions
  <2>1. Place(a) /\ TypeOK
    BY DEF IInv, Places
  <2>2. Sending(a)
    BY <2>1 DEF WalkEnds, Walking, Sending, Place
  <2>3. OwnWalk(a)
    BY <2>2 DEF IInv, Walks
  <2>4. at[a] > Len(pool) /\ at[a] \in Nat /\ Len(pool) \in Nat
    <3>1. at[a] > Len(pool)
      BY DEF WalkEnds
    <3>2. Cardinality(Sessions) \in Nat
      BY SharedAssumption, FS_CardinalityType
    <3> QED BY <2>1, <3>1, <3>2 DEF TypeOK
  <2>5. ASSUME NEW s \in snapshot[a], life[s] = "open" PROVE s \in got[a]
    <3>1. PICK i \in 1 .. Len(pool) : pool[i] = s
      BY <2>3 DEF OwnWalk
    <3>2. i < at[a]
      BY <2>4
    <3> QED BY <2>3, <2>5, <3>1, <3>2 DEF OwnWalk
  <2> QED BY <2>3, <2>5 DEF OwnWalk
<1> QED BY <1>1, Invariance, PTL
=============================================================================
