----------------------------- MODULE MCAccounts -----------------------------
(***************************************************************************)
(* Accounts for TLC.  Either two threads serve requests at once ("two"),   *)
(* or one serves all of them, and then there are spare customers, of which *)
(* a user whom the webhook creates takes two ("spare"), or Sidekiq runs    *)
(* jobs ("mail").                                                          *)
(***************************************************************************)
EXTENDS Accounts

CONSTANTS Spare,   \* the spare customers
          First    \* a thread

VARIABLE mode

MCInit == Init /\ mode \in {"two", "spare", "mail"}

MCNext ==
  /\ Next
  /\ UNCHANGED mode
  /\ mode # "two" => \A t \in Threads \ {First} : req'[t] = Idle
  /\ mode # "spare" => \A c \in Spare : customers'[c] = None
  /\ mode # "mail" => UNCHANGED welcomed

MCSpec == MCInit /\ [][MCNext]_<<vars, overlapped, mode>>

\* Sidekiq tries a job again and again.
MCFairSpec == MCSpec /\ \A i \in Ids : WF_vars(mode = "mail" /\ PerformWelcome(i))

\* WelcomeArrives (a welcome e-mail is sent sooner or later) when one thread serves.
WelcomeArrivesAlone == mode = "mail" => WelcomeArrives
=============================================================================
