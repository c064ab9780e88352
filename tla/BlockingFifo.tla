----------------------------- MODULE BlockingFifo -----------------------------
(***************************************************************************)
(* What SharedQueue promises its callers: a first-in first-out channel     *)
(* whose Push and Pop take effect atomically, at one instant between the   *)
(* call and the return.  No mutex, no condition variable.                  *)
(***************************************************************************)
EXTENDS Naturals, Sequences

CONSTANTS Threads, Items, NoItem,
          Capacity   \* no Push takes effect on a channel that holds this much

VARIABLES contents,  \* the items in the channel, oldest first
          call,      \* call[t]: what t is doing to the channel
          value      \* value[t]: the item t pushes or has popped

fifoVars == <<contents, call, value>>

Init ==
  /\ contents = <<>>
  /\ call = [t \in Threads |-> "idle"]
  /\ value = [t \in Threads |-> NoItem]

InvokePush(t, x) ==
  /\ call[t] = "idle"
  /\ call' = [call EXCEPT ![t] = "pushing"]
  /\ value' = [value EXCEPT ![t] = x]
  /\ UNCHANGED contents

Put(t) ==
  /\ call[t] = "pushing"
  /\ Len(contents) < Capacity
  /\ contents' = Append(contents, value[t])
  /\ call' = [call EXCEPT ![t] = "pushed"]
  /\ UNCHANGED value

InvokePop(t) ==
  /\ call[t] = "idle"
  /\ call' = [call EXCEPT ![t] = "popping"]
  /\ UNCHANGED <<contents, value>>

Take(t) ==
  /\ call[t] = "popping"
  /\ contents # <<>>
  /\ contents' = Tail(contents)
  /\ value' = [value EXCEPT ![t] = Head(contents)]
  /\ call' = [call EXCEPT ![t] = "popped"]

Return(t) ==
  /\ call[t] \in {"pushed", "popped"}
  /\ call' = [call EXCEPT ![t] = "idle"]
  /\ UNCHANGED <<contents, value>>

Next ==
  \E t \in Threads :
    \/ \E x \in Items : InvokePush(t, x)
    \/ Put(t)
    \/ InvokePop(t)
    \/ Take(t)
    \/ Return(t)

Spec == Init /\ [][Next]_fifoVars
===============================================================================
