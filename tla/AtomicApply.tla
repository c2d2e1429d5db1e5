----------------------------- MODULE AtomicApply -----------------------------
(***************************************************************************)
(* What createOrAdopt and createOrUpdate promise of one object: each call   *)
(* takes effect at one instant, or not at all.  ApplyHelpers is shown to    *)
(* implement this, so the reconciler's model can use one atomic step per    *)
(* helper call.                                                             *)
(*                                                                          *)
(* A call that answers an error may still have taken effect (its answer was *)
(* lost), and an adopting call may answer ok without looking at the object  *)
(* of this instant: it only knows that its CR controlled the object once.   *)
(***************************************************************************)
EXTENDS OwnerRefs

CONSTANTS
    Callers,    \* concurrent callers: one worker of each running manager
    Me,         \* the UID of the CR each caller reconciles
    Want,       \* the content each caller wants the object to have
    Contents    \* contents an object may have

VARIABLES
    object,     \* the object now, or Absent
    owners,     \* every controller the object has ever had
    state,      \* "idle", "busy", "ok" or "err" per caller
    helper      \* the helper each caller is in: "adopt" or "replace"

avars == <<object, owners, state, helper>>

Init ==
    /\ object \in Objects(Contents) \cup {Absent}
    /\ owners = IF object = Absent THEN {} ELSE {object.owner}
    /\ state = [c \in Callers |-> "idle"]
    /\ helper = [c \in Callers |-> "adopt"]

\* The object becomes obj; an object that exists adds its owner to the history.
Becomes(obj) ==
    /\ object' = obj
    /\ owners' = IF obj = Absent THEN owners ELSE owners \cup {obj.owner}

Begin(c, h) ==
    /\ state[c] # "busy"
    /\ state' = [state EXCEPT ![c] = "busy"]
    /\ helper' = [helper EXCEPT ![c] = h]
    /\ UNCHANGED <<object, owners>>

\* The one write of an adopting call: create, or take over what it may control
\* with the content left as it was.
Adopts(c) ==
    /\ helper[c] = "adopt"
    /\ \/ object = Absent /\ Becomes(Desired(Me[c], Want[c]))
       \/ /\ object # Absent
          /\ CanControl(object, Me[c])
          /\ Becomes(Controlled(object, Me[c]))

\* The one write of a replacing call: whoever owned it, whatever it held.
Replaces(c) ==
    /\ helper[c] = "replace"
    /\ Becomes(Desired(Me[c], Want[c]))

Settles(c, result) ==
    /\ state[c] = "busy"
    /\ state' = [state EXCEPT ![c] = result]
    /\ UNCHANGED helper

Applied(c) == Settles(c, "ok") /\ (Adopts(c) \/ Replaces(c))

AlreadyMine(c) ==
    /\ Settles(c, "ok")
    /\ helper[c] = "adopt"
    /\ Me[c] \in owners
    /\ UNCHANGED <<object, owners>>

Failed(c) ==
    /\ Settles(c, "err")
    /\ \/ Adopts(c)
       \/ Replaces(c)
       \/ UNCHANGED <<object, owners>>

\* Anyone else: kubectl, another controller, the garbage collector.  Nobody else
\* changes the controller reference of an object that exists.
Other ==
    /\ \/ object = Absent /\ \E obj \in Objects(Contents) : Becomes(obj)
       \/ object # Absent /\ Becomes(Absent)
       \/ /\ object # Absent
          /\ \E d \in Contents : Becomes([object EXCEPT !.data = d])
    /\ UNCHANGED <<state, helper>>

Next ==
    \/ \E c \in Callers :
         \/ \E h \in {"adopt", "replace"} : Begin(c, h)
         \/ Applied(c)
         \/ AlreadyMine(c)
         \/ Failed(c)
    \/ Other

Spec == Init /\ [][Next]_avars
=============================================================================
