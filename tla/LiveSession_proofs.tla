------------------------- MODULE LiveSession_proofs -------------------------
(***************************************************************************)
(* What a crashing and restarting session keeps, for any set of orders,    *)
(* any number of retries, calls, saves and crashes.                        *)
(***************************************************************************)
EXTENDS LiveSession, KisAdapter_proofs

\* A step of the session is a step of the adapter or its exchange, a crash,
\* or leaves both alone.
LEMMA StepOrCrash ==
    ASSUME [SessionNext]_allVars
    PROVE  \/ [Next]_vars
           \/ /\ orders' = << >> /\ index' = << >> /\ call' = NoCall
              /\ UNCHANGED <<dryRun, exchange>>
<1>1. CASE Trade
    BY <1>1 DEF Trade, Next
<1>2. CASE Exchanged
    BY <1>2 DEF Exchanged, Next
<1>3. CASE Crash
    BY <1>3 DEF Crash
<1>4. CASE \/ StartSync \/ AccountRead \/ PositionsRead \/ ReadLost \/ Reconcile
           \/ BeginSave \/ EndSave \/ SaveRaises \/ Restart
    BY <1>4 DEF StartSync, AccountRead, PositionsRead, ReadLost, Reconcile, BeginSave,
                EndSave, SaveRaises, Restart
<1>5. CASE UNCHANGED allVars
    BY <1>5 DEF allVars
<1> QED
    BY <1>1, <1>2, <1>3, <1>4, <1>5 DEF SessionNext

\* A process that has lost its records claims nothing about the exchange.
LEMMA SessionKeepsIInv ==
    ASSUME IInv, [SessionNext]_allVars
    PROVE  IInv'
<1>1. CASE [Next]_vars
    BY <1>1, NextKeeps
<1>2. CASE /\ orders' = << >> /\ index' = << >> /\ call' = NoCall
           /\ UNCHANGED <<dryRun, exchange>>
  <2>1. DOMAIN orders' = {}
      BY <1>2
  <2> QED
      BY <1>2, <2>1 DEF IInv, Typed, DryRunPostsNothing, Fulfilled
<1> QED
    BY <1>1, <1>2, StepOrCrash

\* What the exchange has received it has received for good.
LEMMA ReceivedGrows ==
    ASSUME IInv, [SessionNext]_allVars, NEW r
    PROVE  Of(r) \subseteq Of(r)'
<1> DEFINE Keeps == /\ DOMAIN exchange \subseteq DOMAIN exchange'
                    /\ \A n \in DOMAIN exchange : exchange'[n].request = exchange[n].request
<1>1. exchange \in Seq(Received)
    BY DEF IInv, Typed
<1>2. ASSUME UNCHANGED exchange PROVE Keeps
    BY <1>2
<1>3. ASSUME NEW received, exchange' = Append(exchange, received) PROVE Keeps
    BY <1>1, <1>3
<1>4. ASSUME NEW n \in DOMAIN exchange, NEW status,
             exchange' = [exchange EXCEPT ![n].status = status]
      PROVE  Keeps
    BY <1>1, <1>4 DEF Received
<1> HIDE DEF Keeps
<1>5. ASSUME Arrives PROVE Keeps
    BY <1>2, <1>3, <1>4, <1>5 DEF Arrives
<1>6. ASSUME Transport PROVE Keeps
    BY <1>2, <1>5, <1>6 DEF Transport, RequestLost, ResponseLost, Answered
<1>7. ASSUME NEW n \in DOMAIN exchange, Executes(n) PROVE Keeps
    BY <1>4, <1>7 DEF Executes
<1>8. UNCHANGED exchange \/ Transport \/ \E n \in DOMAIN exchange : Executes(n)
    BY StepOrCrash DEF Next, Submit, SubmitDryRun, Cancel, CancelDryRun, vars
<1>9. Keeps
    BY <1>2, <1>6, <1>7, <1>8
<1> QED
    BY <1>9 DEF Of, Keeps

LEMMA InitSession == SessionInit => IInv /\ OneExchangeOrderPerKey
<1>1. Init => OneExchangeOrderPerKey
    BY DEF Init, OneExchangeOrderPerKey
<1> QED
    BY <1>1, InitIInv DEF SessionInit

\* The process forgets its keys when it crashes; the exchange does not.  If it
\* honours the payload's key, no retry before a crash and no resubmission after
\* it makes a second order.
THEOREM KeysSurviveCrashes ==
    ASSUME HonoursKeys
    PROVE  SessionSpec => []OneExchangeOrderPerKey
<1>1. IInv /\ OneExchangeOrderPerKey /\ [SessionNext]_allVars =>
          IInv' /\ OneExchangeOrderPerKey'
  <2> SUFFICES ASSUME IInv, OneExchangeOrderPerKey, [SessionNext]_allVars
               PROVE  OneExchangeOrderPerKey'
      BY SessionKeepsIInv
  <2>1. CASE [Next]_vars
      BY <2>1, KeysKept
  <2>2. CASE UNCHANGED exchange
      BY <2>2 DEF OneExchangeOrderPerKey
  <2> QED
      BY <2>1, <2>2, StepOrCrash
<1> QED
    BY <1>1, InitSession, PTL DEF SessionSpec
-----------------------------------------------------------------------------
\* Only reconciling a file that could be loaded resumes trading.
LEMMA ResumesByReconcile ==
    ASSUME [SessionNext]_allVars, Resumes
    PROVE  /\ mode = "recovering" /\ sync.step = "read"
           /\ CanLoad /\ ~ SafeMode(BrokerState)
BY DEF SessionNext, Resumes, StartSync, AccountRead, PositionsRead, ReadLost, Reconcile,
       BeginSave, EndSave, SaveRaises, Crash, Restart, Trade, Exchanged, sessionVars,
       allVars

\* The state file tells a session that never saved from one that did.
FileRemembers ==
    /\ saves \in Nat
    /\ \/ file = Absent /\ saves = 0
       \/ file = Torn
       \/ file.status = "whole"

LEMMA FileRemembersKept ==
    ASSUME FileRemembers, [SessionNext]_allVars
    PROVE  FileRemembers'
<1>1. CASE BeginSave
    BY <1>1 DEF BeginSave, OpenForWriting, FileRemembers
<1>2. CASE EndSave
    BY <1>2 DEF EndSave, Write, Whole, FileRemembers
<1>3. CASE UNCHANGED <<saves, file>>
    BY <1>3 DEF FileRemembers
<1>4. BeginSave \/ EndSave \/ UNCHANGED <<saves, file>>
    BY DEF SessionNext, StartSync, AccountRead, PositionsRead, ReadLost, Reconcile,
           SaveRaises, Crash, Restart, Trade, Exchanged, sessionVars, allVars
<1> QED
    BY <1>1, <1>2, <1>3, <1>4

\* A session that saved, or began to, never restarts as if it were new.
THEOREM RestartsRemember == SessionSpec => NoAmnesia
<1>1. SessionInit => FileRemembers
    BY DEF SessionInit, FileRemembers
<1>2. FileRemembers /\ [SessionNext]_allVars => FileRemembers'
    BY FileRemembersKept
<1>3. FileRemembers /\ [SessionNext]_allVars =>
          [Resumes => saves = 0 \/ (~ LocalStateIsEmpty /\ Agrees(BrokerState))]_allVars
  <2> SUFFICES ASSUME FileRemembers, [SessionNext]_allVars, Resumes
               PROVE  saves = 0 \/ (~ LocalStateIsEmpty /\ Agrees(BrokerState))
      OBVIOUS
  <2>1. file # Torn /\ (file.status # "whole" \/ Agrees(BrokerState))
      BY ResumesByReconcile DEF CanLoad, SafeMode, LocalStateIsEmpty
  <2> QED
      BY <2>1 DEF FileRemembers, LocalStateIsEmpty
<1> QED
    BY <1>1, <1>2, <1>3, PTL DEF SessionSpec, NoAmnesia
-----------------------------------------------------------------------------
\* What is saved is what the adapter has recorded of a session that is not a
\* dry run, and it stays true of the exchange whatever happens to the process.
LEMMA SavedKept ==
    ASSUME IInv, ~ dryRun, SavedWasReceived, [SessionNext]_allVars
    PROVE  SavedWasReceived'
<1>1. \A r : Of(r) \subseteq Of(r)'
    BY ReceivedGrows
<1>2. CASE BeginSave
    BY <1>2 DEF BeginSave, OpenForWriting, Torn, SavedWasReceived
<1>3. CASE EndSave
  <2>1. file' = Whole(BrokerState)
      BY <1>3 DEF EndSave, Write
  <2>2. file'.state.orders = {orders[id] : id \in DOMAIN orders}
      BY <2>1 DEF Whole, BrokerState, Recorded
  <2>3. \A id \in DOMAIN orders : Of(orders[id].request) # {}
      BY DEF IInv, Fulfilled, Matches, Of
  <2> QED
      BY <1>1, <2>2, <2>3 DEF SavedWasReceived
<1>4. CASE UNCHANGED file
    BY <1>1, <1>4 DEF SavedWasReceived
<1>5. BeginSave \/ EndSave \/ UNCHANGED file
    BY DEF SessionNext, StartSync, AccountRead, PositionsRead, ReadLost, Reconcile,
           SaveRaises, Crash, Restart, Trade, Exchanged, sessionVars, allVars
<1> QED
    BY <1>2, <1>3, <1>4, <1>5

\* No saved record is invented, whatever was lost, retried or crashed.
THEOREM SavedStatesAreReceived == SessionSpec => []SavedWasReceived
<1>1. SessionInit => ~ dryRun /\ SavedWasReceived
    BY DEF SessionInit, Absent, SavedWasReceived
<1>2. IInv /\ [SessionNext]_allVars => IInv'
    BY SessionKeepsIInv
<1>3. ~ dryRun /\ [SessionNext]_allVars => ~ dryRun'
    BY StepOrCrash DEF Next, Submit, SubmitDryRun, Cancel, CancelDryRun, Transport, RequestLost,
       ResponseLost, Retry, Answered, Executes, vars
<1>4. IInv /\ ~ dryRun /\ SavedWasReceived /\ [SessionNext]_allVars => SavedWasReceived'
    BY SavedKept
<1> QED
    BY <1>1, <1>2, <1>3, <1>4, InitSession, PTL DEF SessionSpec
=============================================================================
