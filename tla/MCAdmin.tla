------------------------------- MODULE MCAdmin -------------------------------
(***************************************************************************)
(* Accounts and Settings for TLC.  They meet in the role that authorize()  *)
(* reads only, and Accounts shows that a role never changes (RoleIsStable):*)
(* instead of their product, a behaviour moves one of the two, chosen at   *)
(* the start (`part`), and the other rests.                                *)
(***************************************************************************)
EXTENDS Accounts, Settings, TLC

CONSTANTS u1, u2, t1, t2, s1, s2, q1, q2, q3, m1, m2, p1, k1, a1, e1

VARIABLE part

MCKeyOf == (q1 :> "support") @@ (q2 :> "sales") @@ (q3 :> "support")

MCAllowed == (e1 :> {"site"})

Always == [mode |-> "off", open |-> {}, holidays |-> {}]
MCHourly == {Always, [Always EXCEPT !.mode = "closed"]}

adminVars == <<accountVars, settingsVars, part>>

\* The part that rests does so in one state.
AdminInit ==
  /\ AccountsInit /\ SettingsInit /\ part \in {"accounts", "settings"}
  /\ part = "accounts" => Active = {Support} /\ m1 \in staff[Support]

AdminNext ==
  \/ part = "accounts" /\ AccountsNext /\ UNCHANGED <<settingsVars, part>>
  \/ part = "settings" /\ SettingsNext /\ UNCHANGED <<accountVars, part>>

AdminSpec == AdminInit /\ [][AdminNext]_adminVars /\ AccountsFairness

\* ScheduleIsCover over every set of up to nine windows on a day of three minutes,
\* whose bounds take in midnight, touch, overlap and run backwards (evaluated at the
\* start of a behaviour).
ScheduleAgrees ==
  part = "settings" /\ edits = 0 => ScheduleIsCover({0, 1}, [dow: {0}, from: {0, 1, 2}, to: {0, 2, 3}])
==============================================================================
