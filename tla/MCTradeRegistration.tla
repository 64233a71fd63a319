------------------------ MODULE MCTradeRegistration ------------------------
(* A company that registers, retries, and brings a colleague.               *)
EXTENDS TradeRegistration

\* The form of one company with a second participant without an address, with
\* one who has an address, and the colleague's own registration.
MCPayloads ==
    { [email |-> "p", second |-> NoEmail], [email |-> "p", second |-> "q"],
      [email |-> "q", second |-> None] }
=============================================================================
