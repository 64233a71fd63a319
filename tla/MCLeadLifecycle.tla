-------------------------- MODULE MCLeadLifecycle --------------------------
(* Small instances of LeadLifecycle for TLC.                                *)
EXTENDS LeadLifecycle, TLC

MCLabels == {"brochure", "newsletter"}
MCMaterials == {"brochure"}

WalkIn == [info |-> "a", materials |-> MCLabels, inspection |-> FALSE,
           second |-> TRUE]
Viewing == [info |-> "b", materials |-> {}, inspection |-> TRUE,
            second |-> FALSE]
Subscriber == [info |-> "b", materials |-> {"newsletter"}, inspection |-> FALSE,
               second |-> FALSE]

\* A visitor who ticks everything and brings a second participant, and the
\* same visitor with other details who only asks for a viewing, or only for
\* the newsletter (a label that is no material).
OnePayload == {WalkIn}
TwoPayloads == {WalkIn, Viewing}
ThreePayloads == {WalkIn, Viewing, Subscriber}

Live == [active |-> TRUE, sync |-> TRUE, assets |-> {"brochure"}]
Test == [active |-> TRUE, sync |-> FALSE, assets |-> {}]

LiveCampaign == {Live}
LiveOrTest == {Live, Test}

On == [crm |-> TRUE, mail |-> TRUE]
Off == [crm |-> FALSE, mail |-> FALSE]

AllOn == {On}
OnOrOff == {On, Off}

MCSymmetry == Permutations(Captures)
=============================================================================
