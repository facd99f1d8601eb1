-------------------------- MODULE MCPlatformEvents --------------------------
(* Instances of PlatformEvents for TLC.                                    *)
EXTENDS PlatformEvents, TLC

\* A booking from the platform (fatal, two commands, alert), a lead (non-fatal, one
\* command, alert), and an envelope of the CRM's own that breaks its contract.
OneOfAKind  == [e \in EventIds |-> CASE e = "booking" -> "BookingConfirmed"
                                     [] e = "lead" -> "ConversationQualified"
                                     [] OTHER -> "booking.confirmed"]
FromRuntime == [e \in EventIds |-> "agentic_runtime"]
KeyIsId     == [e \in EventIds |-> e]

\* The invalid envelope meets the booking or the lead.
MCInit == Init /\ sender["bad"] = "pending" /\ sender["booking"] # sender["lead"]
MCSpec == MCInit /\ [][Next]_vars /\ Fairness
=============================================================================
