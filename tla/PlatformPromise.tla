--------------------------- MODULE PlatformPromise ---------------------------
(***************************************************************************)
(* What the receiving half of the bridge promises, with no requests, rows, *)
(* failures or retries in it: commands are executed, those of an event     *)
(* whose failures are fatal in order; its producer may drop the envelope   *)
(* once they all are; and the office is texted about a key at most once,   *)
(* and only about an event that is wholly in the CRM.                      *)
(***************************************************************************)
EXTENDS PlatformEnvelopes

VARIABLES
  done,   \* the commands that have been executed
  told,   \* the fatal envelopes whose producer has been answered 2xx
  texts   \* how often the office was texted about a key

Init ==
  /\ done  = {}
  /\ told  = {}
  /\ texts = [k \in Keys |-> 0]

Do(e, i) ==
  /\ NonFatal(e) \/ \A j \in 1 .. i - 1 : CommandKey(e, j) \in done
  /\ done' = done \cup { CommandKey(e, i) }
  /\ UNCHANGED << told, texts >>

Tell(e) ==
  /\ CommandKeysOf(e) \subseteq done
  /\ told' = told \cup { e }
  /\ UNCHANGED << done, texts >>

Text(e) ==
  /\ LeadAlert(e)
  /\ CommandKeysOf(e) \subseteq done
  /\ texts[KeyOf[e]] = 0
  /\ texts' = [texts EXCEPT ![KeyOf[e]] = 1]
  /\ UNCHANGED << done, told >>

Next ==
  \E e \in EventIds :
    \/ \E i \in 1 .. NumCommands(e) : Do(e, i)
    \/ Tell(e)
    \/ Text(e)

Spec == Init /\ [][Next]_<< done, told, texts >>
=============================================================================
