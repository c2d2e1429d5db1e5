-------------------------- MODULE ApplyHelpersProofs -------------------------
(***************************************************************************)
(* createOrAdopt and createOrUpdate for any number of managers, any UIDs,   *)
(* contents and attempts: the invariants and action properties of           *)
(* ApplyHelpers, how many API calls a helper call makes, and that it        *)
(* implements AtomicApply.                                                  *)
(***************************************************************************)
EXTENDS ApplyHelpers, TLAPS

-----------------------------------------------------------------------------
(* Objects and the log. *)

\* The objects the helpers build are objects: content wanted, owner the CR.
LEMMA DesiredType ==
    ASSUME NEW c \in Callers
    PROVE  /\ Desired(Me[c], Want[c]) \in Objects(Contents)
           /\ Desired(Me[c], Want[c]).owner = Me[c]
           /\ Desired(Me[c], Want[c]) # Absent
  BY ApplyAssumption DEF Desired, Objects, ApplyAssumption

\* Taking control changes the owner of an object and nothing else.
LEMMA ControlledType ==
    ASSUME NEW c \in Callers, NEW obj \in Objects(Contents)
    PROVE  /\ Controlled(obj, Me[c]) \in Objects(Contents)
           /\ Controlled(obj, Me[c]).owner = Me[c]
           /\ Controlled(obj, Me[c]).data = obj.data
           /\ Controlled(obj, Me[c]) # Absent
  BY ApplyAssumption DEF Controlled, Objects, ApplyAssumption

\* One version more: the older ones keep their place and the new one is live.
LEMMA AppendVersion ==
    ASSUME log \in Seq(Versions), NEW v \in Versions, log' = Append(log, v)
    PROVE  /\ log' \in Seq(Versions)
           /\ Len(log') = Len(log) + 1
           /\ Len(log) \in Nat
           /\ log'[Len(log) + 1] = v
           /\ \A i \in 1 .. Len(log) : log'[i] = log[i]
           /\ Live' = v
  BY DEF Live, At

-----------------------------------------------------------------------------
(* The inductive invariant. *)

\* What a caller about to Update knows: the copy it holds is a version of the
\* log, and one its CR may control.
WriteInv ==
    \A c \in Callers : pc[c] = "write" =>
        /\ base[c] \in 1 .. Len(log)
        /\ log[base[c]] # Absent
        /\ helper[c] = "adopt" => CanControl(log[base[c]], Me[c])

\* Informers only move forward.
SinceInv == \A c \in Callers : since[c] <= seen[c]

Inv == TypeOK /\ WriteInv /\ SinceInv /\ OkMeansControlled

\* Every step leaves the log alone or adds one version to it.
LogSteps ==
    \/ log' = log
    \/ \E v \in Versions : log' = Append(log, v)

\* A step of the helpers, or of anyone else, appends at most one version to the log.
LEMMA StepsGrowLog ==
    ASSUME Inv, [Next]_vars
    PROVE  LogSteps
<1>1. ASSUME NEW c \in Callers, Step(c)
      PROVE  LogSteps
  <2>1. CASE Create(c)
    BY <2>1, DesiredType DEF Create, Writes, LogSteps, Versions
  <2>2. CASE GetToAdopt(c) \/ GetToReplace(c)
    BY <2>2 DEF GetToAdopt, GetToReplace, LogSteps
  <2>3. CASE Write(c)
    <3>1. Update(c) \in Versions
      <4>1. log[base[c]] \in Objects(Contents)
        BY <2>3 DEF Inv, TypeOK, WriteInv, Write, Versions
      <4> QED
        BY <4>1, DesiredType, ControlledType DEF Update, Versions
    <3> QED
      BY <2>3, <3>1 DEF Write, Writes, Retry, LogSteps
  <2> QED
    BY <1>1, <2>1, <2>2, <2>3 DEF Step
<1>2. CASE OtherWrite
  <2>1. ASSUME Live # Absent, NEW d \in Contents
        PROVE  [Live EXCEPT !.data = d] \in Versions
    <3>1. Live \in Objects(Contents)
      BY <2>1 DEF Live, At, Inv, TypeOK, Versions
    <3> QED
      BY <3>1 DEF Objects, Versions
  <2> QED
    BY <1>2, <2>1 DEF OtherWrite, LogSteps, Versions
<1>3. ASSUME NEW c \in Callers, NEW h \in {"adopt", "replace"},
             Begin(c, h) \/ Fault(c) \/ InformerSync(c)
      PROVE  LogSteps
  BY <1>3 DEF Begin, Fault, InformerSync, LogSteps
<1> QED
  BY <1>1, <1>2, <1>3 DEF Next, vars, LogSteps

\* The log never shrinks and never changes what it holds.
LEMMA LogOnlyGrows ==
    ASSUME Inv, [Next]_vars
    PROVE  /\ log' \in Seq(Versions)
           /\ Len(log) \in Nat /\ Len(log') \in Nat
           /\ Len(log) <= Len(log')
           /\ \A i \in 1 .. Len(log) : log'[i] = log[i]
<1>1. log \in Seq(Versions)
  BY DEF Inv, TypeOK
<1>2. CASE log' = log
  BY <1>1, <1>2
<1>3. ASSUME NEW v \in Versions, log' = Append(log, v)
      PROVE  /\ log' \in Seq(Versions)
             /\ Len(log) \in Nat /\ Len(log') \in Nat
             /\ Len(log) <= Len(log')
             /\ \A i \in 1 .. Len(log) : log'[i] = log[i]
  BY <1>1, <1>3, AppendVersion
<1> QED
  BY <1>2, <1>3, StepsGrowLog DEF LogSteps

\* Every step keeps the types.
LEMMA TypeStep ==
    ASSUME Inv, [Next]_vars
    PROVE  TypeOK'
<1> USE DEF TypeOK
<1>0. /\ TypeOK
      /\ log' \in Seq(Versions)
      /\ Len(log) \in Nat /\ Len(log') \in Nat
      /\ Len(log) <= Len(log')
      /\ MaxTries \in Nat \ {0}
  BY LogOnlyGrows, ApplyAssumption DEF Inv, ApplyAssumption
<1>1. ASSUME NEW c \in Callers, Create(c)
      PROVE  TypeOK'
  <2>1. /\ pc' \in [Callers -> {"idle", "create", "get", "write", "ok", "err"}]
        /\ UNCHANGED <<seen, helper, tries, base, since>>
    BY <1>0, <1>1 DEF Create, Writes, Ends, Goes
  <2> QED
    BY <1>0, <2>1
<1>2. ASSUME NEW c \in Callers, GetToAdopt(c)
      PROVE  TypeOK'
  BY <1>0, <1>2 DEF GetToAdopt, Ends, Goes
<1>3. ASSUME NEW c \in Callers, GetToReplace(c)
      PROVE  TypeOK'
  BY <1>0, <1>3 DEF GetToReplace, Ends, Goes
<1>4. ASSUME NEW c \in Callers, Write(c)
      PROVE  TypeOK'
  <2>1. /\ pc' \in [Callers -> {"idle", "create", "get", "write", "ok", "err"}]
        /\ UNCHANGED <<seen, helper, base, since>>
    BY <1>0, <1>4 DEF Write, Writes, Retry, Ends, Goes
  <2>2. tries' \in [Callers -> 0 .. MaxTries]
    <3>1. \/ tries' = tries
          \/ tries[c] < MaxTries /\ tries' = [tries EXCEPT ![c] = @ + 1]
      BY <1>4 DEF Write, Retry
    <3>2. tries \in [Callers -> 0 .. MaxTries] /\ MaxTries \in Nat
      BY <1>0
    <3> HIDE DEF TypeOK
    <3> QED
      BY <3>1, <3>2
  <2> QED
    BY <1>0, <2>1, <2>2
<1>5. ASSUME NEW c \in Callers, Fault(c)
      PROVE  TypeOK'
  BY <1>0, <1>5 DEF Fault, Ends
<1>6. ASSUME NEW c \in Callers, NEW h \in {"adopt", "replace"}, Begin(c, h)
      PROVE  TypeOK'
  BY <1>0, <1>6 DEF Begin, Goes
<1>7. ASSUME NEW c \in Callers, InformerSync(c)
      PROVE  TypeOK'
  BY <1>0, <1>7 DEF InformerSync
<1>8. CASE OtherWrite
  BY <1>0, <1>8 DEF OtherWrite
<1>9. CASE UNCHANGED vars
  BY <1>0, <1>9 DEF vars
<1> QED
  BY <1>1, <1>2, <1>3, <1>4, <1>5, <1>6, <1>7, <1>8, <1>9 DEF Next, Step

\* A copy about to be written was read from the cache in this call's Get, and the
\* log keeps that version.
LEMMA WriteStep ==
    ASSUME Inv, [Next]_vars
    PROVE  WriteInv'
<1>0. /\ TypeOK /\ WriteInv
      /\ Len(log) \in Nat /\ Len(log') \in Nat
      /\ Len(log) <= Len(log')
      /\ \A i \in 1 .. Len(log) : log'[i] = log[i]
  BY LogOnlyGrows DEF Inv
<1>1. SUFFICES ASSUME NEW c \in Callers, pc'[c] = "write"
               PROVE  /\ base'[c] \in 1 .. Len(log')
                      /\ log'[base'[c]] # Absent
                      /\ helper'[c] = "adopt" => CanControl(log'[base'[c]], Me[c])
  BY DEF WriteInv, CanControl
<1>2. CASE pc[c] = "write" /\ base'[c] = base[c] /\ helper'[c] = helper[c]
  BY <1>0, <1>2 DEF WriteInv
<1>3. CASE /\ base'[c] = seen[c] /\ helper'[c] = helper[c]
           /\ Cached(c) # Absent
           /\ helper[c] = "adopt" => CanControl(Cached(c), Me[c])
  <2>1. seen[c] \in 1 .. Len(log) /\ Cached(c) = log[seen[c]]
    BY <1>0, <1>3 DEF TypeOK, Cached, At
  <2> QED
    BY <1>0, <1>3, <2>1
<1>4. ASSUME NEW d \in Callers, Step(d) \/ Fault(d)
      PROVE  \/ pc[c] = "write" /\ base'[c] = base[c] /\ helper'[c] = helper[c]
             \/ /\ base'[c] = seen[c] /\ helper'[c] = helper[c]
                /\ Cached(c) # Absent
                /\ helper[c] = "adopt" => CanControl(Cached(c), Me[c])
  <2>1. CASE Create(d)
    BY <1>0, <1>1, <2>1 DEF TypeOK, Create, Writes, Ends, Goes
  <2>2. CASE GetToAdopt(d)
    BY <1>0, <1>1, <2>2 DEF TypeOK, GetToAdopt, Ends, Goes
  <2>3. CASE GetToReplace(d)
    BY <1>0, <1>1, <2>3 DEF TypeOK, GetToReplace, Ends, Goes
  <2>4. CASE Write(d)
    BY <1>0, <1>1, <2>4 DEF TypeOK, Write, Writes, Retry, Ends, Goes
  <2>5. CASE Fault(d)
    BY <1>0, <1>1, <2>5 DEF TypeOK, Fault, Ends
  <2> QED
    BY <1>4, <2>1, <2>2, <2>3, <2>4, <2>5 DEF Step
<1>5. ASSUME NEW d \in Callers, NEW h \in {"adopt", "replace"},
             Begin(d, h) \/ InformerSync(d)
      PROVE  pc[c] = "write" /\ base'[c] = base[c] /\ helper'[c] = helper[c]
  BY <1>0, <1>1, <1>5 DEF TypeOK, Begin, InformerSync, InCall, Goes
<1>6. CASE OtherWrite \/ UNCHANGED vars
  BY <1>1, <1>2, <1>6 DEF OtherWrite, vars
<1> QED
  BY <1>2, <1>3, <1>4, <1>5, <1>6 DEF Next

\* Every step keeps a caller's informer at or past the place where its call began.
LEMMA SinceStep ==
    ASSUME Inv, [Next]_vars
    PROVE  SinceInv'
<1>0. TypeOK /\ SinceInv /\ Len(log) \in Nat
  BY LogOnlyGrows DEF Inv
<1>1. SUFFICES ASSUME NEW c \in Callers
               PROVE  since'[c] <= seen'[c]
  BY DEF SinceInv
<1>2. ASSUME NEW d \in Callers, Step(d) \/ Fault(d)
      PROVE  since' = since /\ seen' = seen
  BY <1>2 DEF Step, Create, GetToAdopt, GetToReplace, Write, Fault
<1>3. ASSUME NEW d \in Callers, NEW h \in {"adopt", "replace"}, Begin(d, h)
      PROVE  since'[c] <= seen'[c]
  BY <1>0, <1>3 DEF TypeOK, SinceInv, Begin
<1>4. ASSUME NEW d \in Callers, InformerSync(d)
      PROVE  since'[c] <= seen'[c]
  BY <1>0, <1>4 DEF TypeOK, SinceInv, InformerSync
<1>5. CASE OtherWrite \/ UNCHANGED vars
  BY <1>0, <1>5 DEF SinceInv, OtherWrite, vars
<1> QED
  BY <1>0, <1>2, <1>3, <1>4, <1>5 DEF Next, SinceInv

\* A caller that has got nil keeps its witness, since the log keeps its versions;
\* a caller that gets it now has just written the version, or has read it at a
\* place its informer had not passed when the call began.
LEMMA OkStep ==
    ASSUME Inv, [Next]_vars
    PROVE  OkMeansControlled'
<1>0. /\ TypeOK /\ SinceInv /\ OkMeansControlled
      /\ log \in Seq(Versions)
      /\ Len(log) \in Nat /\ Len(log') \in Nat
      /\ Len(log) <= Len(log')
      /\ \A i \in 1 .. Len(log) : log'[i] = log[i]
  BY LogOnlyGrows DEF Inv, TypeOK
<1>1. SUFFICES ASSUME NEW c \in Callers, pc'[c] = "ok"
               PROVE  \E v \in 1 .. Len(log') :
                         /\ v >= since'[c]
                         /\ log'[v] # Absent
                         /\ log'[v].owner = Me[c]
  BY DEF OkMeansControlled, IsControlledBy
<1>2. CASE pc[c] = "ok" /\ since'[c] = since[c]
  <2>1. PICK v \in 1 .. Len(log) :
               v >= since[c] /\ log[v] # Absent /\ log[v].owner = Me[c]
    BY <1>0, <1>2 DEF OkMeansControlled, IsControlledBy
  <2> QED
    BY <1>0, <1>2, <2>1
<1>3. ASSUME NEW obj \in Versions, obj # Absent, obj.owner = Me[c],
             log' = Append(log, obj), since' = since
      PROVE  \E v \in 1 .. Len(log') :
                v >= since'[c] /\ log'[v] # Absent /\ log'[v].owner = Me[c]
  <2>1. Len(log') = Len(log) + 1 /\ log'[Len(log) + 1] = obj
    BY <1>0, <1>3, AppendVersion
  <2>2. since[c] \in 0 .. Len(log)
    BY <1>0 DEF TypeOK
  <2> QED
    BY <1>0, <1>3, <2>1, <2>2
<1>4. CASE Create(c)
  <2>1. /\ log' = Append(log, Desired(Me[c], Want[c]))
        /\ since' = since
    BY <1>0, <1>1, <1>4 DEF TypeOK, Create, Writes, Ends, Goes
  <2> QED
    BY <1>3, <2>1, DesiredType DEF Versions
<1>5. CASE Write(c)
  <2>1. /\ log' = Append(log, Update(c))
        /\ since' = since
    BY <1>0, <1>1, <1>5 DEF TypeOK, Write, Writes, Retry, Ends, Goes
  <2>2. log[base[c]] \in Objects(Contents)
    BY <1>5 DEF Inv, TypeOK, WriteInv, Write, Versions
  <2>3. Update(c) \in Versions /\ Update(c) # Absent /\ Update(c).owner = Me[c]
    BY <2>2, DesiredType, ControlledType DEF Update, Versions
  <2> QED
    BY <1>3, <2>1, <2>3
<1>6. CASE GetToAdopt(c)
  <2>1. Cached(c) # Absent /\ Cached(c).owner = Me[c] /\ log' = log /\ since' = since
    BY <1>0, <1>1, <1>6 DEF TypeOK, GetToAdopt, Ends, Goes, IsControlledBy
  <2>2. seen[c] \in 1 .. Len(log) /\ Cached(c) = log[seen[c]] /\ seen[c] >= since[c]
    BY <1>0, <2>1 DEF TypeOK, SinceInv, Cached, At
  <2> QED
    BY <2>1, <2>2
<1>7. ASSUME NEW d \in Callers, d # c, Step(d)
      PROVE  pc[c] = "ok" /\ since'[c] = since[c]
  <2>1. CASE Create(d)
    BY <1>0, <1>1, <1>7, <2>1 DEF TypeOK, Create, Writes, Ends, Goes
  <2>2. CASE GetToAdopt(d)
    BY <1>0, <1>1, <1>7, <2>2 DEF TypeOK, GetToAdopt, Ends, Goes
  <2>3. CASE GetToReplace(d)
    BY <1>0, <1>1, <1>7, <2>3 DEF TypeOK, GetToReplace, Ends, Goes
  <2>4. CASE Write(d)
    BY <1>0, <1>1, <1>7, <2>4 DEF TypeOK, Write, Writes, Retry, Ends, Goes
  <2> QED
    BY <1>7, <2>1, <2>2, <2>3, <2>4 DEF Step
<1>8. CASE GetToReplace(c)
  BY <1>0, <1>1, <1>8 DEF TypeOK, GetToReplace, Ends, Goes
<1>9. ASSUME NEW d \in Callers, NEW h \in {"adopt", "replace"},
             Fault(d) \/ Begin(d, h) \/ InformerSync(d)
      PROVE  pc[c] = "ok" /\ since'[c] = since[c]
  BY <1>0, <1>1, <1>9 DEF TypeOK, Fault, Begin, InformerSync, InCall, Ends, Goes
<1>10. CASE OtherWrite \/ UNCHANGED vars
  BY <1>1, <1>2, <1>10 DEF OtherWrite, vars
<1> QED
  BY <1>2, <1>4, <1>5, <1>6, <1>7, <1>8, <1>9, <1>10 DEF Next, Step

-----------------------------------------------------------------------------
(* The theorems. *)

\* The invariant holds at first.
LEMMA InitInv == Init => Inv
<1> SUFFICES ASSUME Init
             PROVE  Inv
  OBVIOUS
<1>1. log \in Seq(Versions) /\ Len(log) \in {0, 1}
  <2>1. CASE log = << >>
    BY <2>1
  <2>2. ASSUME NEW obj \in Objects(Contents), log = <<obj>>
        PROVE  log \in Seq(Versions) /\ Len(log) \in {0, 1}
    BY <2>2 DEF Versions
  <2> QED
    BY <2>1, <2>2 DEF Init
<1>2. TypeOK
  BY <1>1, ApplyAssumption DEF Init, TypeOK, ApplyAssumption
<1>3. WriteInv /\ OkMeansControlled
  BY DEF Init, WriteInv, OkMeansControlled
<1>4. SinceInv
  BY <1>1, <1>2 DEF Init, SinceInv, TypeOK
<1> QED
  BY <1>2, <1>3, <1>4 DEF Inv

\* The invariant behind every other theorem of this module.
THEOREM Invariance == Spec => []Inv
<1>1. Inv /\ [Next]_vars => Inv'
  BY TypeStep, WriteStep, SinceStep, OkStep DEF Inv
<1> QED
  BY InitInv, <1>1, PTL DEF Spec

\* The helpers keep their state well typed: in particular a copy that is written
\* carries the number of a version that exists, and RetryOnConflict makes no more
\* than MaxTries attempts.
THEOREM TypeCorrect == Spec => []TypeOK
<1>1. Inv => TypeOK
  BY DEF Inv
<1> QED
  BY Invariance, <1>1, PTL

\* A helper that answers nil has seen the object under its CR, in a version no
\* older than what its informer showed when the call began.
THEOREM OkSound == Spec => []OkMeansControlled
<1>1. Inv => OkMeansControlled
  BY DEF Inv
<1> QED
  BY Invariance, <1>1, PTL

\* What an adopting Update does to the log.
LEMMA AdoptionIsOfLive ==
    ASSUME Inv, [Next]_vars, NEW c \in Callers, AdoptionWrites(c)
    PROVE  /\ Live # Absent /\ Live \in Objects(Contents)
           /\ CanControl(Live, Me[c])
           /\ Live' = Controlled(Live, Me[c])
<1>0. TypeOK /\ WriteInv /\ Len(log) \in Nat
  BY LogOnlyGrows DEF Inv
<1>1. Write(c)
  <2>1. ASSUME NEW d \in Callers, d # c, Step(d) \/ Fault(d)
        PROVE  pc'[c] = pc[c]
    <3>1. CASE Create(d)
      BY <1>0, <2>1, <3>1 DEF TypeOK, Create, Writes, Ends, Goes
    <3>2. CASE GetToAdopt(d) \/ GetToReplace(d)
      BY <1>0, <2>1, <3>2 DEF TypeOK, GetToAdopt, GetToReplace, Ends, Goes
    <3>3. CASE Write(d)
      BY <1>0, <2>1, <3>3 DEF TypeOK, Write, Writes, Retry, Ends, Goes
    <3>4. CASE Fault(d)
      BY <1>0, <2>1, <3>4 DEF TypeOK, Fault, Ends
    <3> QED
      BY <2>1, <3>1, <3>2, <3>3, <3>4 DEF Step
  <2>2. ASSUME NEW d \in Callers, NEW h \in {"adopt", "replace"},
               Begin(d, h) \/ Fault(d) \/ InformerSync(d)
        PROVE  log' = log
    BY <2>2 DEF Begin, Fault, InformerSync
  <2>3. CASE OtherWrite \/ UNCHANGED vars
    BY <2>3 DEF AdoptionWrites, OtherWrite, vars
  <2>4. CASE Create(c) \/ GetToAdopt(c) \/ GetToReplace(c)
    BY <2>4 DEF AdoptionWrites, Create, GetToAdopt, GetToReplace
  <2> QED
    BY <2>1, <2>2, <2>3, <2>4 DEF AdoptionWrites, Next, Step
<1>2. /\ base[c] = Len(log)
      /\ log' = Append(log, Controlled(log[base[c]], Me[c]))
  BY <1>1 DEF AdoptionWrites, Write, Writes, Update
<1>3. /\ base[c] \in 1 .. Len(log)
      /\ log[base[c]] # Absent
      /\ CanControl(log[base[c]], Me[c])
  BY <1>0, <1>1 DEF AdoptionWrites, WriteInv, Write
<1>4. Live = log[base[c]] /\ log[base[c]] \in Objects(Contents)
  BY <1>0, <1>2, <1>3 DEF Live, At, TypeOK, Versions
<1>5. Controlled(log[base[c]], Me[c]) \in Versions /\ log \in Seq(Versions)
  BY <1>0, <1>4, ControlledType DEF Versions, TypeOK
<1>6. Live' = Controlled(log[base[c]], Me[c])
  BY <1>2, <1>5, AppendVersion
<1> QED
  BY <1>3, <1>4, <1>6

\* createOrAdopt never takes an object from another CR, however stale its cache.
THEOREM NeverSteals == Spec => AdoptNeverSteals
<1>1. Inv /\ [Next]_vars
        => [\A c \in Callers : AdoptionWrites(c) => CanControl(Live, Me[c])]_vars
  BY AdoptionIsOfLive
<1> QED
  BY Invariance, <1>1, PTL DEF Spec, AdoptNeverSteals

\* createOrAdopt never undoes a concurrent change of the object's content.
THEOREM KeepsContent == Spec => AdoptKeepsContent
<1>1. ASSUME Inv, [Next]_vars, NEW c \in Callers, AdoptionWrites(c)
      PROVE  Live # Absent /\ Live'.data = Live.data
  BY <1>1, AdoptionIsOfLive, ControlledType
<1>2. Inv /\ [Next]_vars
        => [\A c \in Callers : AdoptionWrites(c) =>
                Live # Absent /\ Live'.data = Live.data]_vars
  BY <1>1
<1> QED
  BY Invariance, <1>2, PTL DEF Spec, AdoptKeepsContent

-----------------------------------------------------------------------------
(* How many API calls a helper call makes. *)

\* A caller in a call is at one of its attempts.
TriesInv == \A c \in Callers : InCall(c) => tries[c] \in 1 .. MaxTries

\* The steps of one caller leave the calls of the others as they are.
LEMMA OthersCalls ==
    ASSUME TypeOK, NEW c \in Callers, NEW d \in Callers \ {c},
           \/ \E h \in {"adopt", "replace"} : Begin(d, h)
           \/ Step(d)
           \/ Fault(d)
    PROVE  pc'[c] = pc[c] /\ helper'[c] = helper[c] /\ tries'[c] = tries[c]
<1> USE DEF TypeOK, Ends, Goes
<1>1. ASSUME NEW h \in {"adopt", "replace"}, Begin(d, h)
      PROVE  pc'[c] = pc[c] /\ helper'[c] = helper[c] /\ tries'[c] = tries[c]
  BY <1>1 DEF Begin
<1>2. CASE Create(d)
  BY <1>2 DEF Create, Writes
<1>3. CASE GetToAdopt(d) \/ GetToReplace(d)
  BY <1>3 DEF GetToAdopt, GetToReplace
<1>4. CASE Write(d)
  BY <1>4 DEF Write, Writes, Retry
<1>5. CASE Fault(d)
  BY <1>5 DEF Fault
<1> QED
  BY <1>1, <1>2, <1>3, <1>4, <1>5 DEF Step

\* One API call of a caller: it returns, or one call less is left to it.
LEMMA CallStep ==
    ASSUME TypeOK, TriesInv, NEW c \in Callers, Step(c) \/ Fault(c), InCall(c)'
    PROVE  tries'[c] \in 1 .. MaxTries /\ CallsLeft(c)' < CallsLeft(c)
<1>1. MaxTries \in Nat \ {0}
  BY ApplyAssumption DEF ApplyAssumption
<1> USE DEF TypeOK, Ends, Goes, InCall
<1>2. ~Fault(c)
  BY DEF Fault
<1>3. CASE Create(c)
  <2>1. /\ pc[c] = "create" /\ helper[c] = "adopt" /\ pc'[c] = "get"
        /\ tries'[c] = tries[c] /\ tries[c] \in 1 .. MaxTries
    BY <1>3 DEF Create, Writes, TriesInv
  <2>2. CallsLeft(c) = 2 * MaxTries + 1 /\ CallsLeft(c)' = 2 * (MaxTries - tries[c]) + 2
    BY <2>1 DEF CallsLeft
  <2> QED
    BY <1>1, <2>1, <2>2
<1>4. CASE GetToAdopt(c) \/ GetToReplace(c)
  <2>1. /\ pc[c] = "get" /\ tries'[c] = tries[c] /\ tries[c] \in 1 .. MaxTries
        /\ pc'[c] = "write" \/ (pc'[c] = "create" /\ helper'[c] = "replace")
    BY <1>4 DEF GetToAdopt, GetToReplace, TriesInv
  <2>2. /\ CallsLeft(c) = 2 * (MaxTries - tries[c]) + 2
        /\ CallsLeft(c)' = 2 * (MaxTries - tries[c]) + 1
    BY <2>1 DEF CallsLeft
  <2> QED
    BY <1>1, <2>1, <2>2
<1>5. CASE Write(c)
  <2>1. /\ pc[c] = "write" /\ pc'[c] = "get" /\ tries[c] \in 1 .. MaxTries
        /\ tries[c] < MaxTries /\ tries'[c] = tries[c] + 1
    BY <1>1, <1>5 DEF Write, Writes, Retry, TriesInv
  <2>2. /\ CallsLeft(c) = 2 * (MaxTries - tries[c]) + 1
        /\ CallsLeft(c)' = 2 * (MaxTries - (tries[c] + 1)) + 2
    BY <2>1 DEF CallsLeft
  <2> QED
    BY <1>1, <2>1, <2>2
<1> QED
  BY <1>2, <1>3, <1>4, <1>5 DEF Step

\* Where a caller stands after a step, given where it stood.
LEMMA CallerSteps ==
    ASSUME TypeOK, TriesInv, [Next]_vars, NEW c \in Callers, InCall(c)'
    PROVE  /\ tries'[c] \in 1 .. MaxTries
           /\ InCall(c) => \/ UNCHANGED <<pc[c], CallsLeft(c)>>
                           \/ CallsLeft(c)' < CallsLeft(c)
<1>1. CASE Step(c) \/ Fault(c)
  BY <1>1, CallStep
<1>2. ASSUME NEW h \in {"adopt", "replace"}, Begin(c, h)
      PROVE  tries'[c] \in 1 .. MaxTries /\ ~InCall(c)
  BY <1>2, ApplyAssumption DEF Begin, TypeOK, ApplyAssumption
<1>3. ASSUME pc'[c] = pc[c], helper'[c] = helper[c], tries'[c] = tries[c]
      PROVE  /\ tries'[c] \in 1 .. MaxTries
             /\ UNCHANGED <<pc[c], CallsLeft(c)>>
  BY <1>3 DEF InCall, TriesInv, CallsLeft
<1>4. ASSUME NEW d \in Callers \ {c},
             \/ \E h \in {"adopt", "replace"} : Begin(d, h)
             \/ Step(d)
             \/ Fault(d)
      PROVE  pc'[c] = pc[c] /\ helper'[c] = helper[c] /\ tries'[c] = tries[c]
  BY <1>4, OthersCalls
<1>5. ASSUME NEW d \in Callers, InformerSync(d) \/ OtherWrite \/ UNCHANGED vars
      PROVE  pc'[c] = pc[c] /\ helper'[c] = helper[c] /\ tries'[c] = tries[c]
  BY <1>5 DEF InformerSync, OtherWrite, vars
<1> QED
  BY <1>1, <1>2, <1>3, <1>4, <1>5 DEF Next

\* A helper call makes at most 2 * MaxTries + 1 API calls, for any number of callers
\* and any MaxTries: with a fair scheduler, which is for TLC to assume, it returns.
THEOREM Numbered == Spec => CallsAreNumbered
<1>1. Init => TriesInv
  BY DEF Init, TriesInv, InCall
<1>2. TypeOK /\ TriesInv /\ [Next]_vars => TriesInv'
  BY CallerSteps DEF TriesInv
<1>3. ASSUME TypeOK, TriesInv, [Next]_vars, NEW c \in Callers, InCall(c), InCall(c)'
      PROVE  /\ CallsLeft(c) \in 1 .. 2 * MaxTries + 1
             /\ \/ UNCHANGED <<pc[c], CallsLeft(c)>>
                \/ CallsLeft(c)' < CallsLeft(c)
  <2>1. MaxTries \in Nat /\ tries[c] \in 1 .. MaxTries
    BY <1>3, ApplyAssumption DEF TriesInv, ApplyAssumption
  <2>2. CallsLeft(c) \in 1 .. 2 * MaxTries + 1
    BY <2>1 DEF CallsLeft
  <2> QED
    BY <1>3, <2>2, CallerSteps
<1>4. TypeOK /\ TriesInv /\ [Next]_vars =>
        [\A c \in Callers : InCall(c) /\ InCall(c)' =>
           /\ CallsLeft(c) \in 1 .. 2 * MaxTries + 1
           /\ \/ UNCHANGED <<pc[c], CallsLeft(c)>>
              \/ CallsLeft(c)' < CallsLeft(c)]_vars
  BY <1>3
<1> QED
  BY <1>1, <1>2, <1>4, TypeCorrect, PTL DEF Spec, CallsAreNumbered

-----------------------------------------------------------------------------
(* The refinement. *)

\* The abstract state of the callers.
States == [c \in Callers |-> IF InCall(c) THEN "busy" ELSE pc[c]]

\* An appended version is the new object, and its owner joins the history.
LEMMA AppendBecomes ==
    ASSUME Inv, NEW v \in Versions, log' = Append(log, v)
    PROVE  Atomic!Becomes(v)
<1>1. /\ log \in Seq(Versions)
      /\ Len(log') = Len(log) + 1
      /\ Len(log) \in Nat
      /\ log'[Len(log) + 1] = v
      /\ \A i \in 1 .. Len(log) : log'[i] = log[i]
      /\ Live' = v
  BY AppendVersion DEF Inv, TypeOK
<1>2. CASE v = Absent
  <2>1. Owners' = Owners
    BY <1>1, <1>2 DEF Owners
  <2> QED
    BY <1>1, <1>2, <2>1 DEF Atomic!Becomes
<1>3. CASE v # Absent
  <2>1. Owners' = Owners \cup {v.owner}
    BY <1>1, <1>3 DEF Owners
  <2> QED
    BY <1>1, <1>3, <2>1 DEF Atomic!Becomes
<1> QED
  BY <1>2, <1>3

\* The initial states are initial states of the abstract helpers.
LEMMA InitRefines == Init => Atomic!Init
<1> SUFFICES ASSUME Init
             PROVE  Atomic!Init
  OBVIOUS
<1>1. /\ Live \in Objects(Contents) \cup {Absent}
      /\ Owners = IF Live = Absent THEN {} ELSE {Live.owner}
  <2>1. CASE log = << >>
    BY <2>1 DEF Live, At, Owners
  <2>2. ASSUME NEW obj \in Objects(Contents), log = <<obj>>
        PROVE  /\ Live \in Objects(Contents) \cup {Absent}
               /\ Owners = IF Live = Absent THEN {} ELSE {Live.owner}
    <3>1. Len(log) = 1 /\ log[1] = obj /\ obj # Absent
      BY <2>2, ApplyAssumption DEF ApplyAssumption
    <3> QED
      BY <2>2, <3>1 DEF Live, At, Owners
  <2> QED
    BY <2>1, <2>2 DEF Init
<1>2. \A c \in Callers : pc[c] = "idle" /\ ~InCall(c)
  BY DEF Init, InCall
<1> QED
  BY <1>1, <1>2 DEF Init, Objects, Atomic!Init, Atomic!Objects

\* A step of the helpers that leaves the log and the abstract states alone.
LEMMA Stutters ==
    ASSUME log' = log, UNCHANGED helper, States' = States
    PROVE  UNCHANGED Atomic!avars
  BY DEF Atomic!avars, Live, At, Owners, States

\* How the abstract state follows the program counter of the one caller that moves.
LEMMA StateOf ==
    ASSUME Inv, NEW c \in Callers, NEW next, pc' = [pc EXCEPT ![c] = next]
    PROVE  States' = [States EXCEPT ![c] =
                         IF next \in {"create", "get", "write"} THEN "busy" ELSE next]
<1>1. pc \in [Callers -> {"idle", "create", "get", "write", "ok", "err"}]
  BY DEF Inv, TypeOK
<1> QED
  BY <1>1 DEF States, InCall

\* Ending a call with the effect of its helper.
LEMMA SettlesBy ==
    ASSUME Inv, NEW c \in Callers, InCall(c), UNCHANGED helper,
           NEW result \in {"ok", "err"}, Ends(c, result)
    PROVE  Atomic!Settles(c, result)
<1>1. States' = [States EXCEPT ![c] = result]
  BY StateOf DEF Ends
<1>2. States[c] = "busy"
  BY DEF States
<1> QED
  BY <1>1, <1>2 DEF Atomic!Settles, States

\* While nothing is appended, the object and the history of its owners stay.
LEMMA NoWrite ==
    ASSUME log' = log
    PROVE  UNCHANGED <<Live, Owners>>
  BY DEF Live, At, Owners

\* Every step of a helper is its one atomic effect, its start, its failure, or nothing at
\* all in the abstract helpers.
LEMMA StepRefines ==
    ASSUME Inv, [Next]_vars
    PROVE  [Atomic!Next]_(Atomic!avars)
<1> USE DEF Atomic!Desired, Desired, Atomic!Controlled, Controlled,
            Atomic!CanControl, CanControl
<1>0. /\ TypeOK /\ WriteInv
      /\ pc \in [Callers -> {"idle", "create", "get", "write", "ok", "err"}]
      /\ helper \in [Callers -> {"adopt", "replace"}]
  BY DEF Inv, TypeOK
<1>1. ASSUME NEW c \in Callers, NEW h \in {"adopt", "replace"}, Begin(c, h)
      PROVE  Atomic!Next
  <2>1. States' = [States EXCEPT ![c] = "busy"]
    BY <1>1, StateOf DEF Begin, Goes
  <2>2. States[c] # "busy"
    BY <1>0, <1>1 DEF Begin, States, InCall
  <2>3. UNCHANGED <<Live, Owners>>
    BY <1>1, NoWrite DEF Begin
  <2>4. Atomic!Begin(c, h)
    BY <1>1, <2>1, <2>2, <2>3 DEF Begin, Atomic!Begin, States
  <2> QED
    BY <2>4 DEF Atomic!Next
<1>2. ASSUME NEW c \in Callers, InCall(c), UNCHANGED <<helper, log>>, Ends(c, "err")
      PROVE  Atomic!Next
  <2>1. Atomic!Settles(c, "err") /\ UNCHANGED <<Live, Owners>>
    BY <1>2, SettlesBy, NoWrite
  <2>2. Atomic!Failed(c)
    BY <2>1 DEF Atomic!Failed
  <2> QED
    BY <2>2 DEF Atomic!Next
<1>3. ASSUME NEW c \in Callers, InCall(c), UNCHANGED <<helper, log>>,
             NEW step \in {"create", "get", "write"}, Goes(c, step)
      PROVE  UNCHANGED Atomic!avars
  <2>1. States' = [States EXCEPT ![c] = "busy"]
    BY <1>3, StateOf DEF Goes
  <2>2. States' = States
    BY <1>3, <2>1 DEF States
  <2> QED
    BY <1>3, <2>2, Stutters
<1>4. ASSUME NEW c \in Callers, InCall(c), UNCHANGED helper,
             Atomic!Adopts(c) \/ Atomic!Replaces(c), Ends(c, "ok") \/ Ends(c, "err")
      PROVE  Atomic!Next
  <2>1. CASE Ends(c, "ok")
    <3>1. Atomic!Settles(c, "ok")
      BY <1>4, <2>1, SettlesBy
    <3> QED
      BY <1>4, <3>1 DEF Atomic!Applied, Atomic!Next
  <2>2. CASE Ends(c, "err")
    <3>1. Atomic!Settles(c, "err")
      BY <1>4, <2>2, SettlesBy
    <3> QED
      BY <1>4, <3>1 DEF Atomic!Failed, Atomic!Next
  <2> QED
    BY <1>4, <2>1, <2>2
<1>5. ASSUME NEW c \in Callers, Create(c)
      PROVE  Atomic!Next \/ UNCHANGED Atomic!avars
  <2>1. CASE Live = Absent /\ Writes(c, Desired(Me[c], Want[c]))
    <3>1. Atomic!Becomes(Desired(Me[c], Want[c]))
      BY <2>1, AppendBecomes, DesiredType DEF Writes, Versions
    <3>2. Atomic!Adopts(c) \/ Atomic!Replaces(c)
      BY <1>0, <2>1, <3>1 DEF Atomic!Adopts, Atomic!Replaces
    <3> QED
      BY <1>4, <1>5, <2>1, <3>2 DEF Create, InCall, Writes
  <2>2. CASE log' = log /\ (Goes(c, "get") \/ Ends(c, "err"))
    BY <1>2, <1>3, <1>5, <2>2 DEF Create, InCall
  <2> QED
    BY <1>5, <2>1, <2>2 DEF Create
<1>6. ASSUME NEW c \in Callers, GetToAdopt(c)
      PROVE  Atomic!Next \/ UNCHANGED Atomic!avars
  <2>1. CASE Ends(c, "err") \/ Goes(c, "write")
    BY <1>2, <1>3, <1>6, <2>1 DEF GetToAdopt, InCall
  <2>2. CASE Cached(c) # Absent /\ IsControlledBy(Cached(c), Me[c]) /\ Ends(c, "ok")
    <3>1. Me[c] \in Owners
      <4>1. seen[c] \in 1 .. Len(log) /\ Cached(c) = log[seen[c]]
        BY <1>0, <2>2 DEF TypeOK, Cached, At
      <4> QED
        BY <2>2, <4>1 DEF Owners, IsControlledBy
    <3>2. Atomic!Settles(c, "ok") /\ UNCHANGED <<Live, Owners>>
      BY <1>6, <2>2, SettlesBy, NoWrite DEF GetToAdopt, InCall
    <3>3. Atomic!AlreadyMine(c)
      BY <1>6, <3>1, <3>2 DEF GetToAdopt, Atomic!AlreadyMine
    <3> QED
      BY <3>3 DEF Atomic!Next
  <2> QED
    BY <1>6, <2>1, <2>2 DEF GetToAdopt
<1>7. ASSUME NEW c \in Callers, GetToReplace(c)
      PROVE  Atomic!Next \/ UNCHANGED Atomic!avars
  BY <1>3, <1>7 DEF GetToReplace, InCall
<1>8. ASSUME NEW c \in Callers, Write(c)
      PROVE  Atomic!Next \/ UNCHANGED Atomic!avars
  <2>1. CASE base[c] = Len(log) /\ Writes(c, Update(c))
    <3>1. /\ log[base[c]] # Absent /\ log[base[c]] = Live
          /\ log[base[c]] \in Objects(Contents)
          /\ helper[c] = "adopt" => CanControl(Live, Me[c])
      BY <1>0, <1>8, <2>1 DEF Inv, TypeOK, WriteInv, Write, Versions, Live, At
    <3>2. Update(c) \in Versions
      BY <3>1, DesiredType, ControlledType DEF Update, Versions
    <3>3. Atomic!Becomes(Update(c))
      BY <2>1, <3>2, AppendBecomes DEF Writes
    <3>4. Atomic!Adopts(c) \/ Atomic!Replaces(c)
      BY <1>0, <3>1, <3>3 DEF Update, Atomic!Adopts, Atomic!Replaces
    <3> QED
      BY <1>4, <1>8, <2>1, <3>4 DEF Write, InCall, Writes
  <2>2. CASE log' = log /\ (Ends(c, "err") \/ Goes(c, "get"))
    BY <1>2, <1>3, <1>8, <2>2 DEF Write, InCall
  <2> QED
    BY <1>8, <2>1, <2>2 DEF Write, Retry
<1>9. ASSUME NEW c \in Callers, Fault(c)
      PROVE  Atomic!Next
  BY <1>2, <1>9 DEF Fault
<1>10. ASSUME NEW c \in Callers, InformerSync(c)
       PROVE  UNCHANGED Atomic!avars
  <2>1. States' = States
    BY <1>10 DEF InformerSync, States, InCall
  <2> QED
    BY <1>10, <2>1, Stutters DEF InformerSync
<1>11. CASE OtherWrite
  <2>1. UNCHANGED <<States, helper>>
    BY <1>11 DEF OtherWrite, States, InCall
  <2>2. CASE Live = Absent /\ \E obj \in Objects(Contents) : log' = Append(log, obj)
    <3>1. PICK obj \in Objects(Contents) : log' = Append(log, obj)
      BY <2>2
    <3>2. Atomic!Becomes(obj)
      BY <3>1, AppendBecomes DEF Versions
    <3>3. Atomic!Other
      BY <2>1, <2>2, <3>2 DEF Atomic!Other, Atomic!Objects, Objects, States
    <3> QED
      BY <3>3 DEF Atomic!Next
  <2>3. CASE Live # Absent /\ log' = Append(log, Absent)
    <3>1. Atomic!Becomes(Absent)
      BY <2>3, AppendBecomes DEF Versions
    <3>2. Atomic!Other
      BY <2>1, <2>3, <3>1 DEF Atomic!Other, States
    <3> QED
      BY <3>2 DEF Atomic!Next
  <2>4. CASE /\ Live # Absent
             /\ \E d \in Contents : log' = Append(log, [Live EXCEPT !.data = d])
    <3>1. PICK d \in Contents : log' = Append(log, [Live EXCEPT !.data = d])
      BY <2>4
    <3>2. [Live EXCEPT !.data = d] \in Versions
      <4>1. Live \in Objects(Contents)
        BY <1>0, <2>4 DEF Live, At, TypeOK, Versions
      <4> QED
        BY <4>1 DEF Objects, Versions
    <3>3. Atomic!Becomes([Live EXCEPT !.data = d])
      BY <3>1, <3>2, AppendBecomes
    <3>4. Atomic!Other
      BY <2>1, <2>4, <3>3 DEF Atomic!Other, States
    <3> QED
      BY <3>4 DEF Atomic!Next
  <2> QED
    BY <1>11, <2>2, <2>3, <2>4 DEF OtherWrite
<1>12. CASE UNCHANGED vars
  <2>1. States' = States
    BY <1>12 DEF vars, States, InCall
  <2> QED
    BY <1>12, <2>1, Stutters DEF vars
<1> QED
  BY <1>1, <1>5, <1>6, <1>7, <1>8, <1>9, <1>10, <1>11, <1>12 DEF Next, Step

\* createOrAdopt and createOrUpdate take effect atomically or not at all.
THEOREM Implements == Spec => ImplementsAtomicApply
<1>1. Inv /\ [Next]_vars => [Atomic!Next]_(Atomic!avars)
  BY StepRefines
<1> QED
  BY Invariance, InitRefines, <1>1, PTL
     DEF Spec, ImplementsAtomicApply, Atomic!Spec
=============================================================================
