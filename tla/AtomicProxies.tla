--------------------------- MODULE AtomicProxies ---------------------------
(***************************************************************************)
(* What an object proxy promises to the threads that share it: its wrapped *)
(* object is a register.  docs/issues.rst ("Multithreading ...") says that *)
(* fields are protected individually and that the last writer wins; that   *)
(* is: an assignment writes its own value, exactly once, between the call  *)
(* and the return; an in-place operator writes at most once; reading       *)
(* __wrapped__ returns what the register holds at one instant of the call; *)
(* and nothing else changes it until the proxy is deallocated.             *)
(***************************************************************************)
CONSTANTS
  Threads, Proxies, Values,
  Empty,    \* what an uninitialised proxy and an empty hand hold
  NoTarget  \* the target of an operator whose first operand is not a proxy

VARIABLES
  value,  \* value[p]: what proxy p wraps, or Empty
  hand,   \* hand[t]: the object thread t's caller holds, or Empty
  call,   \* call[t]: the operation thread t is running
  stage   \* stage[t]: whether that operation has had its effect yet

registerVars == <<value, hand, call, stage>>

Call == [kind : {"use", "get", "set", "inplace"},
         target : Proxies \cup {NoTarget},
         other : Proxies \cup {NoTarget}]

NewCall(t) == call'[t] \in Call /\ call' = [call EXCEPT ![t] = call'[t]]

Register ==
  /\ value = [p \in Proxies |-> Empty]
  /\ hand = [t \in Threads |-> Empty]
  /\ stage = [t \in Threads |-> "idle"]
  /\ call \in [Threads -> Call]

(* The caller makes an object, or forgets the one it has. *)
Handle(t) ==
  /\ stage[t] = "idle"
  /\ UNCHANGED <<value, call, stage>>
  /\ \E v \in Values \cup {Empty} : hand' = [hand EXCEPT ![t] = v]

Invoke(t) ==
  /\ stage[t] = "idle"
  /\ stage' = [stage EXCEPT ![t] = "called"]
  /\ UNCHANGED <<value, hand>>
  /\ NewCall(t)

GetValue(t) ==
  /\ stage[t] = "called" /\ call[t].kind = "get"
  /\ value[call[t].target] # Empty
  /\ hand' = [hand EXCEPT ![t] = value[call[t].target]]
  /\ stage' = [stage EXCEPT ![t] = "idle"]
  /\ UNCHANGED value
  /\ NewCall(t)

SetValue(t) ==
  /\ stage[t] = "called" /\ call[t].kind = "set"
  /\ value' = [value EXCEPT ![call[t].target] = hand[t]]
  /\ stage' = [stage EXCEPT ![t] = "done"]
  /\ UNCHANGED <<hand, call>>

UpdateValue(t) ==
  /\ stage[t] = "called" /\ call[t].kind = "inplace"
  /\ stage' = [stage EXCEPT ![t] = "done"]
  /\ UNCHANGED <<hand, call>>
  /\ \E v \in Values : value' = [value EXCEPT ![call[t].target] = v]

(* Only an assignment has to have had its effect; a read without one has met
   an uninitialised proxy; an operator that raised or did not replace has none. *)
MayRespond(t) ==
  \/ stage[t] = "done"
  \/ stage[t] = "called" /\ call[t].kind \in {"use", "inplace"}
  \/ stage[t] = "called" /\ call[t].kind = "get" /\ value[call[t].target] = Empty

Respond(t) ==
  /\ MayRespond(t)
  /\ stage' = [stage EXCEPT ![t] = "idle"]
  /\ UNCHANGED <<value, hand>>
  /\ NewCall(t)

Forget(p) ==
  /\ \A t \in Threads : stage[t] # "idle" => p \notin {call[t].target, call[t].other}
  /\ value' = [value EXCEPT ![p] = Empty]
  /\ UNCHANGED <<hand, call, stage>>

RegisterStep ==
  \/ \E t \in Threads : Handle(t) \/ Invoke(t) \/ GetValue(t) \/ SetValue(t)
                          \/ UpdateValue(t) \/ Respond(t)
  \/ \E p \in Proxies : Forget(p)

RegisterSpec == Register /\ [][RegisterStep]_registerVars
=============================================================================
