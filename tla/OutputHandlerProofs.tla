------------------------- MODULE OutputHandlerProofs -------------------------
(***************************************************************************)
(* Whatever SQS, DynamoDB, SES, CloudWatch and Lambda do, a message that is *)
(* consumed was handled, the links that were mailed work, and a delivery    *)
(* mails once. The invariant follows a record through the loop: what is     *)
(* true of it while it waits, while it is handled and once it is behind.    *)
(***************************************************************************)
EXTENDS OutputHandler, FiniteSetTheorems, TLAPS

\* The records of the batch that the loop has put behind it.
Behind(l) == (batch[l] \ left[l]) \ {at[l]}

\* After the parsing there is no invalid record in the batch, and what is behind
\* the loop was told or counted.
PassedOverBy(l) ==
    /\ pc[l] = "idle" => batch[l] = {}
    /\ pc[l] = "parse" => left[l] = batch[l]
    /\ pc[l] \in Busy \ {"parse"} =>
          /\ \A m \in batch[l] : m.kind # "invalid"
          /\ \A m \in Behind(l) : Told(m) \/ Counted(m)
    /\ pc[l] = "timing" => \A m \in batch[l] : at[l] = m => Told(m)
NothingIsPassedOver == \A l \in Invocations : PassedOverBy(l)

\* The item of a record is written at its first await, and only there.
WritesFirst(l) ==
    /\ pc[l] = "write" => at[l].kind \in LlmKinds \cup {"SUCCESS"}
    /\ pc[l] = "sign" => at[l].kind = "TRANSCRIPTION_FAILURE"
    /\ pc[l] \in {"email", "timing"} => at[l].kind \in EmailKinds
    /\ pc[l] \in {"email", "timing"} /\ at[l].kind = "SUCCESS" =>
          item[at[l].job] = "transcript"
WritesComeFirst == \A l \in Invocations : WritesFirst(l)

ConsumedWereParsed ==
    \A m \in Messages : queue[m] = "consumed" => m.kind # "invalid"

IInv ==
    /\ TypeOK /\ NothingIsPassedOver /\ WritesComeFirst
    /\ LinksWork /\ ConsumedMeansToldOrCounted /\ ConsumedWereParsed

----------------------------------------------------------------------------
LEMMA InitInvariant == Init => IInv
BY ConstantsAssumption
DEF ConstantsAssumption, Init, IInv, TypeOK, Busy, NothingIsPassedOver, PassedOverBy,
    WritesComeFirst, WritesFirst, LinksWork, ConsumedMeansToldOrCounted, ConsumedWereParsed

\* The part of TypeOK about the invocations.
LambdaTypeOK ==
    /\ pc \in [Invocations -> Busy \cup {"idle"}]
    /\ batch \in [Invocations -> SUBSET Messages]
    /\ left \in [Invocations -> SUBSET Messages]
    /\ at \in [Invocations -> Messages \cup {NoMessage}]
    /\ \A l \in Invocations :
          /\ left[l] \subseteq batch[l] /\ at[l] \in batch[l] \cup {NoMessage}
          /\ pc[l] \in Busy \ {"parse", "next"} <=> at[l] \in Messages

\* The ways on from an await keep the types of the invocation.
LEMMA LambdaTypes ==
    ASSUME TypeOK, NEW l \in Invocations
    PROVE  /\ Leave(l) \/ NextRecord(l) => LambdaTypeOK'
           /\ at[l] \in Messages =>
                 \A to \in Busy \ {"parse", "next"} : Goto(l, to) => LambdaTypeOK'
           /\ pc[l] = "parse" /\ Goto(l, "next") => LambdaTypeOK'
           /\ UNCHANGED lambdaVars => LambdaTypeOK'
BY ConstantsAssumption
DEF ConstantsAssumption, TypeOK, LambdaTypeOK, Leave, NextRecord, Goto, Busy, lambdaVars

LEMMA TypeStep == TypeOK /\ [Next]_vars => TypeOK'
<1> SUFFICES ASSUME TypeOK, [Next]_vars
             PROVE  TypeOK'
  OBVIOUS
<1>q. LambdaTypeOK' /\ queue' \in [Messages -> {"unsent", "visible", "inflight", "consumed"}]
      /\ deliveries' \in [Messages -> 0..MaxDeliveries]
      /\ item' \in [Jobs -> {"none", "transcript", "llmSuccess", "llmFailure"}]
      /\ emails' \in [Messages -> Nat]
      /\ metrics' \subseteq {FailurePoint(m) : m \in Messages}
      => TypeOK'
  BY DEF TypeOK, LambdaTypeOK, FailurePoint
<1>a. ASSUME NEW l \in Invocations, pc[l] \in Busy \ {"parse", "next"}
      PROVE  at[l] \in Messages
  BY <1>a DEF TypeOK
<1>1. CASE UNCHANGED vars
  BY <1>1, <1>q DEF vars, TypeOK, LambdaTypeOK, queueVars, lambdaVars
<1>2. ASSUME NEW m \in Messages, Send(m) \/ VisibilityExpires(m) PROVE TypeOK'
  BY <1>2, <1>q, LambdaTypes DEF Send, VisibilityExpires, TypeOK, LambdaTypeOK, lambdaVars
<1>3. ASSUME NEW l \in Invocations, NEW S \in SUBSET Messages, Deliver(l, S) PROVE TypeOK'
  <2>1. deliveries' \in [Messages -> 0..MaxDeliveries]
    BY <1>3, ConstantsAssumption DEF ConstantsAssumption, Deliver, Deliverable, TypeOK
  <2>2. LambdaTypeOK'
    BY <1>3 DEF Deliver, TypeOK, LambdaTypeOK, Busy
  <2>3. queue' \in [Messages -> {"unsent", "visible", "inflight", "consumed"}]
    BY <1>3 DEF Deliver, TypeOK
  <2> QED BY <1>3, <1>q, <2>1, <2>2, <2>3 DEF Deliver, TypeOK
<1>4. ASSUME NEW l \in Invocations, Parse(l) PROVE TypeOK'
  <2>1. LambdaTypeOK'
    BY <1>4, LambdaTypes DEF Parse
  <2> QED BY <1>4, <1>q, <2>1 DEF Parse, TypeOK, queueVars
<1>5. ASSUME NEW l \in Invocations, NEW m \in Messages, Take(l, m) PROVE TypeOK'
  <2>1. LambdaTypeOK'
    BY <1>5 DEF Take, FirstAwait, TypeOK, LambdaTypeOK, Busy
  <2> QED BY <1>5, <1>q, <2>1 DEF Take, TypeOK, queueVars
<1>6. ASSUME NEW l \in Invocations, Return(l) PROVE TypeOK'
  <2>1. LambdaTypeOK'
    BY <1>6, LambdaTypes DEF Return
  <2> QED BY <1>6, <1>q, <2>1 DEF Return, TypeOK
<1>7. ASSUME NEW l \in Invocations, Write(l) PROVE TypeOK'
  <2>1. at[l] \in Messages /\ at[l].job \in Jobs
    BY <1>7, <1>a, ConstantsAssumption DEF Write, Busy, ConstantsAssumption, Output
  <2>2. item' \in [Jobs -> {"none", "transcript", "llmSuccess", "llmFailure"}]
    BY <1>7, <2>1 DEF Write, WriteItem, ItemOf, TypeOK
  <2>3. LambdaTypeOK'
    BY <1>7, <2>1, LambdaTypes DEF Write, Busy
  <2> QED BY <1>7, <1>q, <2>2, <2>3 DEF Write, TypeOK, queueVars
<1>8. ASSUME NEW l \in Invocations, Sign(l) PROVE TypeOK'
  <2>1. LambdaTypeOK'
    BY <1>8, <1>a, LambdaTypes DEF Sign, Busy
  <2> QED BY <1>8, <1>q, <2>1 DEF Sign, TypeOK, queueVars
<1>9. ASSUME NEW l \in Invocations, Email(l) PROVE TypeOK'
  <2>1. at[l] \in Messages
    BY <1>9, <1>a DEF Email, Busy
  <2>2. emails' \in [Messages -> Nat]
    BY <1>9, <2>1 DEF Email, TypeOK
  <2>3. LambdaTypeOK'
    BY <1>9, <2>1, LambdaTypes DEF Email, Busy
  <2> QED BY <1>9, <1>q, <2>2, <2>3 DEF Email, TypeOK, queueVars
<1>10. ASSUME NEW l \in Invocations, Timing(l) PROVE TypeOK'
  <2>1. LambdaTypeOK'
    BY <1>10, <1>a, LambdaTypes DEF Timing, Busy
  <2> QED BY <1>10, <1>q, <2>1 DEF Timing, TypeOK, queueVars
<1>11. ASSUME NEW l \in Invocations, Alarm(l) PROVE TypeOK'
  <2>1. at[l] \in Messages
    BY <1>11, <1>a DEF Alarm, Busy
  <2>2. LambdaTypeOK'
    BY <1>11, <2>1, LambdaTypes DEF Alarm
  <2>3. metrics' \subseteq {FailurePoint(m) : m \in Messages}
    BY <1>11, <2>1 DEF Alarm, TypeOK
  <2> QED BY <1>11, <1>q, <2>2, <2>3 DEF Alarm, TypeOK, queueVars
<1>12. ASSUME NEW l \in Invocations, Crash(l) PROVE TypeOK'
  <2>1. LambdaTypeOK'
    BY <1>12, LambdaTypes DEF Crash
  <2> QED BY <1>12, <1>q, <2>1 DEF Crash, TypeOK, queueVars
<1> QED
  BY <1>1, <1>2, <1>3, <1>4, <1>5, <1>6, <1>7, <1>8, <1>9, <1>10, <1>11, <1>12
  DEF Next, Step

\* An item is replaced by one of the same sort only.
LEMMA ItemStep ==
    ASSUME TypeOK, WritesComeFirst, [Next]_vars, NEW m \in Messages
    PROVE  /\ m.kind = "SUCCESS" /\ item[m.job] = "transcript" => item'[m.job] = "transcript"
           /\ m.kind \in LlmKinds /\ item[m.job] \in {"llmSuccess", "llmFailure"} =>
                  item'[m.job] \in {"llmSuccess", "llmFailure"}
<1>1. CASE item' = item
  BY <1>1
<1>2. ASSUME NEW l \in Invocations, pc[l] = "write", WriteItem(l)
      PROVE  /\ m.kind = "SUCCESS" /\ item[m.job] = "transcript" => item'[m.job] = "transcript"
             /\ m.kind \in LlmKinds /\ item[m.job] \in {"llmSuccess", "llmFailure"} =>
                    item'[m.job] \in {"llmSuccess", "llmFailure"}
  <2>1. at[l] \in Messages /\ at[l].kind \in LlmKinds \cup {"SUCCESS"}
    BY <1>2 DEF TypeOK, Busy, WritesComeFirst, WritesFirst
  <2>2. m.job \in Jobs /\ at[l].job \in Jobs
    BY <2>1, ConstantsAssumption DEF ConstantsAssumption, Output
  <2>3. item'[m.job] = IF m.job = at[l].job THEN ItemOf(at[l]) ELSE item[m.job]
    BY <1>2, <2>2 DEF WriteItem, TypeOK
  <2>4. m.job = at[l].job => (m.kind = "SUCCESS" => at[l].kind \notin LlmKinds)
                             /\ (at[l].kind = "SUCCESS" => m.kind \notin LlmKinds)
    BY <2>1, IdsAssumption DEF IdsAssumption
  <2> QED BY <2>1, <2>3, <2>4 DEF ItemOf, LlmKinds
<1> QED
  BY <1>1, <1>2 DEF Next, Step, vars, Send, VisibilityExpires, Deliver, Parse, Take, Return,
      Write, Sign, Email, Timing, Alarm, Crash

\* What is told stays told, and what is counted stays counted.
LEMMA ToldStays ==
    ASSUME TypeOK, WritesComeFirst, [Next]_vars, NEW m \in Messages, m.kind # "invalid"
    PROVE  (Told(m) => Told(m)') /\ (Counted(m) => Counted(m)')
<1>1. emails[m] > 0 => emails'[m] > 0
  BY DEF Next, Step, vars, Send, VisibilityExpires, Deliver, Parse, Take, Return,
      Write, Sign, Email, Timing, Alarm, Crash, TypeOK
<1>2. metrics \subseteq metrics'
  BY DEF Next, Step, vars, Send, VisibilityExpires, Deliver, Parse, Take, Return,
      Write, Sign, Email, Timing, Alarm, Crash
<1>3. m.kind \in EmailKinds \/ m.kind \in LlmKinds
  BY ConstantsAssumption DEF ConstantsAssumption, Output
<1>4. Told(m) => Told(m)'
  BY <1>1, <1>3, ItemStep DEF Told
<1>5. Counted(m) => Counted(m)'
  BY <1>2 DEF Counted
<1> QED BY <1>4, <1>5

Unmoved(k) ==
    pc'[k] = pc[k] /\ batch'[k] = batch[k] /\ left'[k] = left[k] /\ at'[k] = at[k]

\* A step moves one invocation, or none.
LEMMA WhoMoves ==
    ASSUME TypeOK, [Next]_vars, NEW k \in Invocations
    PROVE  \/ Unmoved(k) \/ Step(k) \/ Crash(k)
           \/ \E S \in SUBSET Messages : Deliver(k, S)
<1> USE DEF TypeOK, Unmoved, lambdaVars
<1>1. CASE UNCHANGED vars
  BY <1>1 DEF vars
<1>2. ASSUME NEW m \in Messages, Send(m) \/ VisibilityExpires(m) PROVE Unmoved(k)
  BY <1>2 DEF Send, VisibilityExpires
<1>3. ASSUME NEW l \in Invocations, l # k, Step(l) PROVE Unmoved(k)
  BY <1>3 DEF Step, Parse, Return, Write, Sign, Email, Timing, Alarm, Take,
      Goto, NextRecord, Leave
<1>4. ASSUME NEW l \in Invocations, l # k, NEW S \in SUBSET Messages, Crash(l) \/ Deliver(l, S)
      PROVE  Unmoved(k)
  BY <1>4 DEF Crash, Deliver, Leave
<1> QED BY <1>1, <1>2, <1>3, <1>4 DEF Next

LEMMA WritesStep ==
    ASSUME TypeOK, NothingIsPassedOver, WritesComeFirst, [Next]_vars
    PROVE  WritesComeFirst'
<1> SUFFICES ASSUME NEW k \in Invocations
             PROVE  WritesFirst(k)'
  BY DEF WritesComeFirst
<1>1. WritesFirst(k) /\ PassedOverBy(k)
  BY DEF WritesComeFirst, NothingIsPassedOver
<1>2. CASE Unmoved(k)
  <2>1. pc[k] \in {"email", "timing"} => at[k] \in Messages
    BY DEF TypeOK, Busy
  <2> QED BY <1>1, <1>2, <2>1, ItemStep DEF Unmoved, WritesFirst
<1>3. ASSUME Leave(k) \/ NextRecord(k) PROVE WritesFirst(k)'
  BY <1>3 DEF Leave, NextRecord, WritesFirst, TypeOK
<1>4. CASE Parse(k)
  BY <1>4, <1>3 DEF Parse, Goto, WritesFirst, TypeOK
<1>5. ASSUME NEW m \in Messages, Take(k, m) PROVE WritesFirst(k)'
  <2>1. m.kind \in EmailKinds \cup LlmKinds
    BY <1>5, <1>1, ConstantsAssumption
    DEF ConstantsAssumption, Output, Take, PassedOverBy, Busy, TypeOK
  <2>2. at'[k] = m /\ pc'[k] = FirstAwait(m)
    BY <1>5 DEF Take, TypeOK
  <2> QED BY <2>1, <2>2 DEF FirstAwait, WritesFirst, EmailKinds, LlmKinds
<1>6. CASE Write(k)
  <2>1. at[k] \in Messages /\ at[k].job \in Jobs
    BY <1>6, ConstantsAssumption DEF ConstantsAssumption, Output, Write, TypeOK, Busy
  <2>2. CASE WriteItem(k) /\ Goto(k, "email") /\ at[k].kind = "SUCCESS"
    BY <2>1, <2>2 DEF WriteItem, Goto, WritesFirst, ItemOf, TypeOK, EmailKinds
  <2>3. CASE Goto(k, "alarm")
    BY <2>3 DEF Goto, WritesFirst, TypeOK
  <2> QED BY <1>6, <2>2, <2>3, <1>3 DEF Write
<1>7. CASE Sign(k)
  BY <1>1, <1>7 DEF Sign, Goto, WritesFirst, TypeOK, EmailKinds
<1>8. CASE Email(k)
  BY <1>1, <1>3, <1>8 DEF Email, Goto, WritesFirst, TypeOK
<1>9. CASE Timing(k)
  BY <1>3, <1>9 DEF Timing, Goto, WritesFirst, TypeOK
<1>10. CASE Return(k) \/ Alarm(k) \/ Crash(k)
  BY <1>3, <1>10 DEF Return, Alarm, Crash
<1>11. ASSUME NEW S \in SUBSET Messages, Deliver(k, S) PROVE WritesFirst(k)'
  BY <1>11 DEF Deliver, WritesFirst, TypeOK
<1> QED
  BY <1>2, <1>4, <1>5, <1>6, <1>7, <1>8, <1>9, <1>10, <1>11, WhoMoves DEF Step

LEMMA PassedOverStep ==
    ASSUME TypeOK, NothingIsPassedOver, WritesComeFirst, [Next]_vars
    PROVE  NothingIsPassedOver'
<1> SUFFICES ASSUME NEW k \in Invocations
             PROVE  PassedOverBy(k)'
  BY DEF NothingIsPassedOver
<1>1. WritesFirst(k) /\ PassedOverBy(k)
  BY DEF WritesComeFirst, NothingIsPassedOver
<1>2. \A m \in Messages : m.kind # "invalid" => (Told(m) => Told(m)') /\ (Counted(m) => Counted(m)')
  BY ToldStays
<1>3. CASE Unmoved(k)
  <2>1. Behind(k)' = Behind(k)
    BY <1>3 DEF Unmoved, Behind
  <2>2. batch[k] \subseteq Messages
    BY DEF TypeOK
  <2>3. pc[k] = "timing" => \A m \in batch[k] : at[k] = m => Told(m)'
    BY <1>1, <1>2, <2>2 DEF PassedOverBy, Busy
  <2>4. pc[k] \in Busy \ {"parse"} => \A m \in Behind(k) : Told(m)' \/ Counted(m)'
    BY <1>1, <1>2, <2>2 DEF PassedOverBy, Behind
  <2> QED BY <1>1, <1>3, <2>1, <2>3, <2>4 DEF Unmoved, PassedOverBy
<1>a. pc[k] \in Busy \ {"parse", "next"} => at[k] \in Messages /\ at[k] \in batch[k]
  BY ConstantsAssumption DEF TypeOK, ConstantsAssumption
<1>b. batch[k] \subseteq Messages
  BY DEF TypeOK
<1>4. ASSUME Leave(k) PROVE PassedOverBy(k)'
  BY <1>4 DEF Leave, PassedOverBy, TypeOK, Busy
<1>5. ASSUME pc[k] \in Busy \ {"parse"}, NEW to \in Busy \ {"parse"}, Goto(k, to),
             to = "timing" => \A m \in batch[k] : at[k] = m => Told(m)'
      PROVE  PassedOverBy(k)'
  <2>1. pc'[k] = to /\ batch'[k] = batch[k] /\ left'[k] = left[k] /\ at'[k] = at[k]
    BY <1>5 DEF Goto, TypeOK
  <2>2. \A m \in Behind(k) : Told(m)' \/ Counted(m)'
    BY <1>1, <1>2, <1>5, <1>b DEF PassedOverBy, Behind
  <2>3. Behind(k)' = Behind(k)
    BY <2>1 DEF Behind
  <2> QED BY <1>1, <1>5, <2>1, <2>2, <2>3 DEF PassedOverBy, Busy
<1>6. ASSUME pc[k] \in Busy \ {"parse"}, NextRecord(k),
             \A m \in batch[k] : at[k] = m => Told(m)' \/ Counted(m)'
      PROVE  PassedOverBy(k)'
  <2>1. pc'[k] = "next" /\ batch'[k] = batch[k] /\ left'[k] = left[k]
    BY <1>6 DEF NextRecord, TypeOK
  <2>2. \A m \in Behind(k) : Told(m)' \/ Counted(m)'
    BY <1>1, <1>2, <1>6, <1>b DEF PassedOverBy, Behind
  <2>3. \A m \in Behind(k)' : m \in batch[k] /\ (m \in Behind(k) \/ at[k] = m)
    BY <2>1 DEF Behind
  <2> QED BY <1>1, <1>6, <2>1, <2>2, <2>3 DEF PassedOverBy, Busy
<1>7. CASE Parse(k)
  <2>1. CASE Goto(k, "next") /\ \A m \in batch[k] : m.kind # "invalid"
    <3>1. pc'[k] = "next" /\ batch'[k] = batch[k] /\ left'[k] = batch[k]
      BY <1>1, <1>7, <2>1 DEF Parse, Goto, TypeOK, PassedOverBy
    <3> QED BY <2>1, <3>1 DEF PassedOverBy, Behind
  <2> QED BY <1>4, <1>7, <2>1 DEF Parse
<1>8. ASSUME NEW m \in Messages, Take(k, m) PROVE PassedOverBy(k)'
  <2>1. /\ pc'[k] = FirstAwait(m) /\ batch'[k] = batch[k]
        /\ left'[k] = left[k] \ {m} /\ at'[k] = m
    BY <1>8 DEF Take, TypeOK
  <2>2. at[k] \notin Messages
    BY <1>8 DEF Take, TypeOK
  <2>3. \A n \in Behind(k)' : n \in Behind(k)
    BY <1>b, <2>1, <2>2 DEF Behind
  <2>4. \A n \in Behind(k) : Told(n)' \/ Counted(n)'
    BY <1>1, <1>2, <1>8, <1>b DEF PassedOverBy, Behind, Take, Busy
  <2> QED BY <1>1, <1>8, <2>1, <2>3, <2>4 DEF PassedOverBy, Busy, FirstAwait, Take
<1>9. CASE Write(k)
  <2>1. CASE Goto(k, "email") \/ Goto(k, "alarm")
    BY <1>5, <1>9, <2>1 DEF Write, Busy
  <2>2. CASE NextRecord(k) /\ WriteItem(k) /\ at[k].kind # "SUCCESS"
    <3>1. at[k] \in Messages /\ at[k].job \in Jobs /\ at[k].kind \in LlmKinds
      BY <1>1, <1>9, <1>a, <2>2, ConstantsAssumption
      DEF ConstantsAssumption, Output, Write, WritesFirst, Busy
    <3>2. item'[at[k].job] = ItemOf(at[k])
      BY <2>2, <3>1 DEF WriteItem, TypeOK
    <3>3. \A m \in batch[k] : at[k] = m => Told(m)'
      BY <3>1, <3>2 DEF Told, ItemOf, LlmKinds, EmailKinds
    <3> QED BY <1>6, <1>9, <2>2, <3>3 DEF Write, Busy
  <2> QED BY <1>9, <2>1, <2>2 DEF Write
<1>10. CASE Sign(k)
  BY <1>5, <1>10 DEF Sign, Busy
<1>11. CASE Email(k)
  <2>1. CASE Goto(k, "alarm")
    BY <1>5, <1>11, <2>1 DEF Email, Busy
  <2>2. CASE emails' = [emails EXCEPT ![at[k]] = @ + 1]
    <3>1. at[k] \in Messages /\ at[k].kind \in EmailKinds
      BY <1>1, <1>11, <1>a DEF Email, WritesFirst, Busy
    <3>2. emails'[at[k]] > 0
      BY <2>2, <3>1 DEF TypeOK
    <3>3. \A m \in batch[k] : at[k] = m => Told(m)'
      BY <3>1, <3>2 DEF Told
    <3>4. CASE NextRecord(k)
      BY <1>6, <1>11, <3>3, <3>4 DEF Email, Busy
    <3>5. CASE Goto(k, "timing")
      BY <1>5, <1>11, <3>3, <3>5 DEF Email, Busy
    <3> QED BY <1>11, <2>1, <3>4, <3>5 DEF Email
  <2> QED BY <1>11, <2>1, <2>2 DEF Email
<1>12. CASE Timing(k)
  BY <1>1, <1>2, <1>5, <1>6, <1>12, <1>b DEF Timing, Busy, PassedOverBy
<1>13. CASE Alarm(k)
  <2>1. ASSUME NEW m \in batch[k], at[k] = m, metrics' = metrics \cup {FailurePoint(at[k])}
        PROVE  Counted(m)'
    <3>1. FailurePoint(m) \in metrics' /\ FailurePoint(m).of = m
      BY <2>1 DEF FailurePoint
    <3> QED BY <3>1 DEF Counted
  <2>2. CASE NextRecord(k) /\ metrics' = metrics \cup {FailurePoint(at[k])}
    <3>1. pc[k] \in Busy \ {"parse"}
      BY <1>13 DEF Alarm, Busy
    <3> QED BY <1>6, <2>1, <2>2, <3>1
  <2> QED BY <1>4, <1>13, <2>2 DEF Alarm
<1>14. CASE Return(k) \/ Crash(k)
  BY <1>4, <1>14 DEF Return, Crash
<1>15. ASSUME NEW S \in SUBSET Messages, Deliver(k, S) PROVE PassedOverBy(k)'
  BY <1>15 DEF Deliver, PassedOverBy, TypeOK
<1> QED
  BY <1>3, <1>7, <1>8, <1>9, <1>10, <1>11, <1>12, <1>13, <1>14, <1>15, WhoMoves DEF Step

\* The links of a success email are made good by the write before it.
LEMMA LinksStep ==
    ASSUME TypeOK, WritesComeFirst, LinksWork, [Next]_vars
    PROVE  LinksWork'
<1> SUFFICES ASSUME NEW m \in Messages, m.kind = "SUCCESS", emails'[m] > 0
             PROVE  item'[m.job] = "transcript"
  BY DEF LinksWork
<1>1. CASE emails[m] > 0
  BY <1>1, ItemStep DEF LinksWork
<1>2. CASE ~(emails[m] > 0)
  <2>1. PICK l \in Invocations : Email(l) /\ at[l] = m
    BY <1>2 DEF Next, Step, vars, Send, VisibilityExpires, Deliver, Parse, Take, Return,
        Write, Sign, Email, Timing, Alarm, Crash, TypeOK
  <2>2. item[m.job] = "transcript"
    BY <2>1 DEF Email, WritesComeFirst, WritesFirst
  <2> QED BY <2>1, <2>2 DEF Email
<1> QED BY <1>1, <1>2

\* Only a batch whose records are all behind the loop is consumed.
LEMMA ConsumedStep ==
    ASSUME IInv, [Next]_vars
    PROVE  (ConsumedMeansToldOrCounted /\ ConsumedWereParsed)'
<1> USE DEF IInv
<1> SUFFICES ASSUME NEW m \in Messages, queue'[m] = "consumed"
             PROVE  (Told(m)' \/ Counted(m)') /\ m.kind # "invalid"
  BY DEF ConsumedMeansToldOrCounted, ConsumedWereParsed
<1>1. CASE queue[m] = "consumed"
  BY <1>1, ToldStays DEF ConsumedMeansToldOrCounted, ConsumedWereParsed
<1>2. CASE queue[m] # "consumed"
  <2>1. PICK l \in Invocations : Return(l) /\ m \in batch[l]
    BY <1>2 DEF Next, Step, vars, queueVars, Send, VisibilityExpires, Deliver, Parse, Take,
        Return, Write, Sign, Email, Timing, Alarm, Crash, TypeOK
  <2>2. pc[l] = "next" /\ left[l] = {} /\ PassedOverBy(l)
    BY <2>1 DEF Return, NothingIsPassedOver
  <2>3. at[l] # m
    BY <2>2 DEF TypeOK
  <2>4. (Told(m) \/ Counted(m)) /\ m.kind # "invalid"
    BY <2>1, <2>2, <2>3 DEF PassedOverBy, Behind, Busy
  <2> QED BY <2>4, ToldStays
<1> QED BY <1>1, <1>2

\* The records whose email a delivery still owes.
Owing(m) ==
    {l \in Invocations : m \in left[l] \/ (at[l] = m /\ pc[l] \in {"write", "sign", "email"})}

\* What was mailed and what is owed was delivered; a record is taken once.
DeliveriesAccountForEmails ==
    /\ \A l \in Invocations : at[l] \notin left[l]
    /\ \A m \in Messages : emails[m] + Cardinality(Owing(m)) <= deliveries[m]

LEMMA InitAccounts == Init => DeliveriesAccountForEmails
<1> SUFFICES ASSUME Init, NEW m \in Messages
             PROVE  emails[m] + Cardinality(Owing(m)) <= deliveries[m]
  BY DEF Init, DeliveriesAccountForEmails
<1>1. Owing(m) = {}
  BY DEF Init, Owing
<1> QED BY <1>1, FS_EmptySet DEF Init

LEMMA TakenOnceStep ==
    ASSUME TypeOK, NothingIsPassedOver, \A l \in Invocations : at[l] \notin left[l], [Next]_vars
    PROVE  \A l \in Invocations : at'[l] \notin left'[l]
<1> SUFFICES ASSUME NEW k \in Invocations
             PROVE  at'[k] \notin left'[k]
  OBVIOUS
<1> USE ConstantsAssumption DEF TypeOK, ConstantsAssumption
<1>1. CASE Unmoved(k)
  BY <1>1 DEF Unmoved
<1>2. CASE Step(k) \/ Crash(k)
  BY <1>2 DEF Step, Parse, Return, Write, Sign, Email, Timing, Alarm, Take, Crash,
      Goto, NextRecord, Leave
<1>3. ASSUME NEW S \in SUBSET Messages, Deliver(k, S) PROVE at'[k] \notin left'[k]
  BY <1>3 DEF Deliver, Busy
<1> QED BY <1>1, <1>2, <1>3, WhoMoves

\* A delivery adds one email to what is owed, sending it takes one away, and no
\* other step adds any.
LEMMA AccountsStep ==
    ASSUME IInv, DeliveriesAccountForEmails, [Next]_vars
    PROVE  DeliveriesAccountForEmails'
<1>1. TypeOK /\ NothingIsPassedOver
  BY DEF IInv
<1>2. SUFFICES ASSUME NEW m \in Messages
               PROVE  (emails[m] + Cardinality(Owing(m)) <= deliveries[m])'
  BY <1>1, TakenOnceStep DEF DeliveriesAccountForEmails
<1>3. /\ emails[m] + Cardinality(Owing(m)) <= deliveries[m]
      /\ emails[m] \in Nat /\ deliveries[m] \in Nat
  BY <1>1, ConstantsAssumption DEF DeliveriesAccountForEmails, TypeOK, ConstantsAssumption
<1>4. IsFiniteSet(Owing(m)) /\ Cardinality(Owing(m)) \in Nat
  BY ConstantsAssumption, FS_Subset, FS_CardinalityType DEF ConstantsAssumption, Owing
<1>5. ASSUME Owing(m)' \subseteq Owing(m), emails'[m] = emails[m], deliveries'[m] = deliveries[m]
      PROVE  (emails[m] + Cardinality(Owing(m)) <= deliveries[m])'
  <2>1. Cardinality(Owing(m)') <= Cardinality(Owing(m)) /\ Cardinality(Owing(m)') \in Nat
    BY <1>4, <1>5, FS_Subset, FS_CardinalityType
  <2> QED BY <1>3, <1>4, <1>5, <2>1
<1>6. ASSUME NEW l \in Invocations, NEW S \in SUBSET Messages, Deliver(l, S)
      PROVE  (emails[m] + Cardinality(Owing(m)) <= deliveries[m])'
  <2>1. Owing(m)' = Owing(m) \cup (IF m \in S THEN {l} ELSE {}) /\ l \notin Owing(m)
    BY <1>1, <1>6, ConstantsAssumption
    DEF ConstantsAssumption, Deliver, Owing, TypeOK, NothingIsPassedOver, PassedOverBy
  <2>2. emails'[m] = emails[m] /\ deliveries'[m] = deliveries[m] + IF m \in S THEN 1 ELSE 0
    BY <1>6 DEF Deliver
  <2>3. Cardinality(Owing(m)') = Cardinality(Owing(m)) + IF m \in S THEN 1 ELSE 0
    <3>1. CASE m \in S
      BY <1>4, <2>1, <3>1, FS_AddElement
    <3>2. CASE m \notin S
      <4>1. Owing(m)' = Owing(m)
        BY <2>1, <3>2
      <4> QED BY <1>4, <3>2, <4>1
    <3> QED BY <3>1, <3>2
  <2> QED BY <1>3, <1>4, <2>2, <2>3
<1>7. ASSUME NEW l \in Invocations, Email(l), at[l] = m
      PROVE  (emails[m] + Cardinality(Owing(m)) <= deliveries[m])'
  <2>1. l \in Owing(m)
    BY <1>7 DEF Email, Owing
  <2>2. Owing(m)' = Owing(m) \ {l}
    BY <1>1, <1>7 DEF Email, Owing, Goto, NextRecord, TypeOK, DeliveriesAccountForEmails
  <2>3. Cardinality(Owing(m)') = Cardinality(Owing(m)) - 1
    BY <1>4, <2>1, <2>2, FS_RemoveElement
  <2>4. emails'[m] \in {emails[m], emails[m] + 1} /\ deliveries' = deliveries
    BY <1>1, <1>7 DEF Email, queueVars, TypeOK
  <2> QED BY <1>3, <1>4, <2>3, <2>4
<1>8. ASSUME NEW l \in Invocations,
             Parse(l) \/ Return(l) \/ Write(l) \/ Sign(l) \/ Timing(l) \/ Alarm(l)
             \/ Crash(l) \/ (\E n \in Messages : Take(l, n)) \/ (Email(l) /\ at[l] # m)
      PROVE  (emails[m] + Cardinality(Owing(m)) <= deliveries[m])'
  <2>1. Owing(m)' \subseteq Owing(m)
    BY <1>1, <1>8, ConstantsAssumption
    DEF ConstantsAssumption, Owing, TypeOK, Parse, Return, Write, Sign, Email, Timing, Alarm,
        Crash, Take, Goto, NextRecord, Leave
  <2>2. emails'[m] = emails[m] /\ deliveries' = deliveries
    BY <1>1, <1>8
    DEF TypeOK, queueVars, Parse, Return, Write, Sign, Email, Timing, Alarm, Crash, Take
  <2> QED BY <1>5, <2>1, <2>2
<1>9. CASE UNCHANGED vars \/ \E n \in Messages : Send(n) \/ VisibilityExpires(n)
  <2>1. Owing(m)' = Owing(m) /\ emails' = emails /\ deliveries' = deliveries
    BY <1>9 DEF vars, queueVars, lambdaVars, Send, VisibilityExpires, Owing
  <2> QED BY <1>5, <2>1
<1> QED BY <1>6, <1>7, <1>8, <1>9 DEF Next, Step

----------------------------------------------------------------------------
\* What was delivered, is in a batch, or was written to the table was sent before.
SentBefore ==
    /\ \A m \in Messages : deliveries[m] > 0 => queue[m] # "unsent"
    /\ \A l \in Invocations : \A m \in batch[l] : deliveries[m] > 0
    /\ \A j \in Jobs : item[j] # "none" =>
          \E m \in Messages :
             /\ m.job = j /\ m.kind \in LlmKinds \cup {"SUCCESS"}
             /\ queue[m] # "unsent" /\ item[j] = ItemOf(m)

\* A message that was sent stays known to the queue.
LEMMA SentStays ==
    ASSUME TypeOK, [Next]_vars, NEW m \in Messages, queue[m] # "unsent"
    PROVE  queue'[m] # "unsent"
BY DEF Next, Step, vars, queueVars, Send, VisibilityExpires, Deliver, Parse, Take, Return,
    Write, Sign, Email, Timing, Alarm, Crash, TypeOK

\* No delivery is taken back.
LEMMA DeliveriesStay ==
    ASSUME TypeOK, [Next]_vars, NEW m \in Messages, deliveries[m] > 0
    PROVE  deliveries'[m] > 0
<1>1. deliveries[m] \in 0..MaxDeliveries
  BY DEF TypeOK
<1>2. ASSUME NEW l \in Invocations, NEW S \in SUBSET Messages, Deliver(l, S)
      PROVE  deliveries'[m] > 0
  BY <1>1, <1>2, ConstantsAssumption DEF ConstantsAssumption, Deliver
<1>3. CASE deliveries' = deliveries
  BY <1>3
<1> QED
  BY <1>2, <1>3 DEF Next, Step, vars, queueVars, Send, VisibilityExpires, Parse, Take, Return,
      Write, Sign, Email, Timing, Alarm, Crash

\* Only what is on the queue is delivered, and only what was delivered is handled.
LEMMA SentStep ==
    ASSUME TypeOK, WritesComeFirst, SentBefore, [Next]_vars
    PROVE  SentBefore'
<1>1. ASSUME NEW m \in Messages, deliveries'[m] > 0 PROVE queue'[m] # "unsent"
  <2>1. CASE deliveries[m] > 0
    BY <2>1, SentStays DEF SentBefore
  <2>2. CASE ~(deliveries[m] > 0)
    <3>1. PICK l \in Invocations, S \in SUBSET Messages : Deliver(l, S) /\ m \in S
      BY <1>1, <2>2 DEF Next, Step, vars, queueVars, Send, VisibilityExpires, Deliver, Parse,
          Take, Return, Write, Sign, Email, Timing, Alarm, Crash, TypeOK
    <3> QED BY <3>1 DEF Deliver, Deliverable
  <2> QED BY <2>1, <2>2
<1>2. ASSUME NEW l \in Invocations, NEW m \in batch'[l] PROVE deliveries'[m] > 0
  <2>1. CASE m \in batch[l]
    <3>1. m \in Messages /\ deliveries[m] > 0
      BY <2>1 DEF SentBefore, TypeOK
    <3> QED BY <3>1, DeliveriesStay
  <2>2. CASE m \notin batch[l]
    <3>1. PICK S \in SUBSET Messages : Deliver(l, S)
      BY <1>2, <2>2, WhoMoves DEF Unmoved, Step, Parse, Take, Return, Write, Sign, Email,
          Timing, Alarm, Crash, Goto, NextRecord, Leave, TypeOK
    <3>2. m \in S /\ m \in Messages /\ deliveries[m] \in 0..MaxDeliveries
      BY <1>2, <3>1 DEF Deliver, TypeOK
    <3>3. deliveries'[m] = deliveries[m] + 1
      BY <3>1, <3>2 DEF Deliver
    <3> QED BY <3>2, <3>3, ConstantsAssumption DEF ConstantsAssumption
  <2> QED BY <2>1, <2>2
<1>3. ASSUME NEW j \in Jobs, item'[j] # "none"
      PROVE  \E m \in Messages :
                /\ m.job = j /\ m.kind \in LlmKinds \cup {"SUCCESS"}
                /\ queue'[m] # "unsent" /\ item'[j] = ItemOf(m)
  <2>1. CASE item'[j] = item[j]
    BY <1>3, <2>1, SentStays DEF SentBefore
  <2>2. CASE item'[j] # item[j]
    <3>1. PICK l \in Invocations : Write(l) /\ WriteItem(l)
      BY <2>2 DEF Next, Step, vars, Send, VisibilityExpires, Deliver, Parse, Take, Return,
          Write, Sign, Email, Timing, Alarm, Crash, TypeOK
    <3>2. at[l] \in Messages /\ at[l] \in batch[l] /\ at[l].kind \in LlmKinds \cup {"SUCCESS"}
      BY <3>1, ConstantsAssumption
      DEF Write, TypeOK, Busy, WritesComeFirst, WritesFirst, ConstantsAssumption
    <3>3. at[l].job = j /\ item'[j] = ItemOf(at[l])
      BY <2>2, <3>1, <3>2 DEF WriteItem, TypeOK
    <3>4. queue[at[l]] # "unsent"
      BY <3>2 DEF SentBefore
    <3>5. queue'[at[l]] # "unsent"
      BY <3>2, <3>4, SentStays
    <3> QED BY <3>2, <3>3, <3>5
  <2> QED BY <2>1, <2>2
<1> QED BY <1>1, <1>2, <1>3 DEF SentBefore

----------------------------------------------------------------------------
\* Every step keeps every part of the invariant.
LEMMA InvariantStep == IInv /\ [Next]_vars => IInv'
BY TypeStep, PassedOverStep, WritesStep, LinksStep, ConsumedStep DEF IInv

\* IInv is an inductive invariant of the output handler.
THEOREM Invariance == Spec => []IInv
BY InitInvariant, InvariantStep, PTL DEF Spec

\* For any number of messages and concurrent invocations every variable keeps its
\* type.
THEOREM TypeCorrect == Spec => []TypeOK
BY Invariance, PTL DEF IInv

\* No message is consumed unhandled: whatever fails, and however often it was
\* delivered, its user was told or its failure counted.
THEOREM ConsumptionIsJustified == Spec => []ConsumedMeansToldOrCounted
BY Invariance, PTL DEF IInv

\* A success email is never sent before its item is there, and the item stays.
THEOREM MailedLinksWork == Spec => []LinksWork
BY Invariance, PTL DEF IInv

\* A handler never mails twice about one delivery of a message.
THEOREM RepeatsExplained == Spec => []RepeatsNeedRedelivery
<1>1. IInv /\ DeliveriesAccountForEmails => RepeatsNeedRedelivery
  <2> SUFFICES ASSUME IInv, DeliveriesAccountForEmails, NEW m \in Messages
               PROVE  emails[m] <= deliveries[m]
    BY DEF RepeatsNeedRedelivery
  <2>1. Cardinality(Owing(m)) \in Nat
    BY ConstantsAssumption, FS_Subset, FS_CardinalityType DEF ConstantsAssumption, Owing
  <2>2. emails[m] \in Nat /\ deliveries[m] \in Nat
    BY ConstantsAssumption DEF IInv, TypeOK, ConstantsAssumption
  <2> QED BY <2>1, <2>2 DEF DeliveriesAccountForEmails
<1> QED
  BY InitAccounts, AccountsStep, Invariance, <1>1, PTL DEF Spec

\* Nothing is delivered, handled or written that was not sent: every item is that of
\* a message the queue has had.
THEOREM NothingFromNowhere == Spec => []SentBefore
<1>1. Init => SentBefore
  BY ConstantsAssumption DEF Init, SentBefore, ConstantsAssumption
<1>2. IInv /\ SentBefore /\ [Next]_vars => SentBefore'
  BY SentStep DEF IInv
<1> QED BY <1>1, <1>2, Invariance, PTL DEF Spec

----------------------------------------------------------------------------
(* The handler implements Notification.                                     *)

StateFn == [m \in Messages |-> StateOf(queue[m])]
CountedSet == {d.of : d \in metrics}

\* A step that changes nothing of this is a stuttering step.
SameNotice ==
    /\ StateFn' = StateFn /\ deliveries' = deliveries /\ item' = item
    /\ emails' = emails /\ metrics' = metrics

LEMMA StutterNotice ==
    ASSUME SameNotice
    PROVE  [Notice!Next]_(Notice!vars)
BY DEF SameNotice, StateFn, Notice!vars

\* What the refinement rests on.
RInv == IInv /\ DeliveriesAccountForEmails /\ SentBefore

\* A record that is being handled was delivered, and its email is owed.
LEMMA HandledRecord ==
    ASSUME RInv, NEW l \in Invocations, pc[l] \in Busy \ {"parse", "next"}
    PROVE  /\ at[l] \in Messages /\ at[l].job \in Jobs /\ deliveries[at[l]] > 0
           /\ pc[l] = "email" => emails[at[l]] < deliveries[at[l]]
<1>1. at[l] \in Messages /\ at[l] \in batch[l]
  BY ConstantsAssumption DEF RInv, IInv, TypeOK, ConstantsAssumption
<1>2. at[l].job \in Jobs /\ deliveries[at[l]] > 0
  BY <1>1, ConstantsAssumption DEF RInv, SentBefore, ConstantsAssumption, Output
<1>3. ASSUME pc[l] = "email" PROVE emails[at[l]] < deliveries[at[l]]
  <2>1. l \in Owing(at[l]) /\ Owing(at[l]) \subseteq Invocations
    BY <1>3 DEF Owing
  <2>2. IsFiniteSet(Owing(at[l]))
    BY <2>1, FS_Subset, ConstantsAssumption DEF ConstantsAssumption
  <2>3. Cardinality(Owing(at[l])) \in Nat /\ Cardinality(Owing(at[l])) # 0
    BY <2>1, <2>2, FS_EmptySet, FS_CardinalityType
  <2>4. emails[at[l]] \in Nat /\ deliveries[at[l]] \in Int
    BY <1>1, ConstantsAssumption DEF RInv, IInv, TypeOK, ConstantsAssumption
  <2> QED BY <1>1, <2>3, <2>4 DEF RInv, DeliveriesAccountForEmails
<1> QED BY <1>1, <1>2, <1>3

\* The queue's steps submit and offer messages, or show their senders nothing.
LEMMA QueueIsNotice ==
    ASSUME RInv
    PROVE  /\ \A m \in Messages : Send(m) => Notice!Submit(m)
           /\ \A m \in Messages : VisibilityExpires(m) => SameNotice
           /\ \A l \in Invocations, S \in SUBSET Messages : Deliver(l, S) => Notice!Offer(S)
<1>1. TypeOK
  BY DEF RInv, IInv
<1>2. ASSUME NEW m \in Messages, Send(m) PROVE Notice!Submit(m)
  BY <1>1, <1>2 DEF TypeOK, Send, Notice!Submit, StateOf
<1>3. ASSUME NEW m \in Messages, VisibilityExpires(m) PROVE SameNotice
  BY <1>1, <1>3 DEF TypeOK, VisibilityExpires, SameNotice, StateFn, StateOf
<1>4. ASSUME NEW l \in Invocations, NEW S \in SUBSET Messages, Deliver(l, S)
      PROVE  Notice!Offer(S)
  <2>1. StateFn' = StateFn
    BY <1>1, <1>4 DEF TypeOK, Deliver, StateFn, StateOf
  <2>2. \A m \in S : StateFn[m] # "unsent" /\ deliveries[m] < MaxDeliveries
    BY <1>1, <1>4 DEF TypeOK, Deliver, Deliverable, StateFn, StateOf
  <2> QED BY <1>4, <2>1, <2>2 DEF Deliver, Notice!Offer, StateFn
<1> QED BY <1>2, <1>3, <1>4

\* Handling a record writes its item, mails its user or counts its failure.
LEMMA RecordIsNotice ==
    ASSUME RInv, NEW l \in Invocations, Write(l) \/ Email(l) \/ Alarm(l)
    PROVE  [Notice!Next]_(Notice!vars)
<1>1. pc[l] \in Busy \ {"parse", "next"}
  BY DEF Write, Email, Alarm, Busy
<1>2. PICK m \in Messages : at[l] = m /\ m.job \in Jobs /\ deliveries[m] > 0
  BY <1>1, HandledRecord
<1>3. TypeOK /\ WritesFirst(l)
  BY DEF RInv, IInv, WritesComeFirst
<1>4. queue' = queue /\ deliveries' = deliveries /\ StateFn' = StateFn
  BY DEF Write, Email, Alarm, queueVars, StateFn
<1>5. CASE Write(l)
  <2>1. m.kind \in LlmKinds \cup {"SUCCESS"}
    BY <1>2, <1>3, <1>5 DEF Write, WritesFirst
  <2>2. ItemOf(m) = Notice!Written(m)
    BY <2>1 DEF ItemOf, Notice!Written, LlmKinds
  <2>3. CASE WriteItem(l)
    <3>1. Notice!Record(m)
      BY <1>2, <1>4, <1>5, <2>1, <2>2, <2>3
      DEF Write, WriteItem, Notice!Record, StateFn, LlmKinds
    <3> QED BY <1>2, <3>1 DEF Notice!Next
  <2>4. CASE item' = item
    BY <1>4, <1>5, <2>4, StutterNotice DEF Write, SameNotice
  <2> QED BY <1>5, <2>3, <2>4 DEF Write
<1>6. CASE Email(l)
  <2>1. pc[l] = "email" /\ emails[m] < deliveries[m]
    BY <1>2, <1>1, <1>6, HandledRecord DEF Email
  <2>2. m.kind \in Notice!Mailed /\ (m.kind = "SUCCESS" => item[m.job] = "transcript")
    BY <1>2, <1>3, <2>1 DEF WritesFirst, EmailKinds, Notice!Mailed
  <2>3. CASE emails' = [emails EXCEPT ![m] = @ + 1]
    <3>1. Notice!Mail(m)
      BY <1>2, <1>4, <1>6, <2>1, <2>2, <2>3 DEF Email, Notice!Mail, StateFn
    <3> QED BY <1>2, <3>1 DEF Notice!Next
  <2>4. CASE emails' = emails
    BY <1>4, <1>6, <2>4, StutterNotice DEF Email, SameNotice
  <2> QED BY <1>2, <1>6, <2>3, <2>4 DEF Email
<1>7. CASE Alarm(l)
  <2>1. CASE metrics' = metrics \cup {FailurePoint(m)}
    <3>1. CountedSet' = CountedSet \cup {m}
      <4>1. FailurePoint(m).of = m
        BY DEF FailurePoint
      <4>2. \A x : x \in CountedSet' <=> x \in CountedSet \/ x = m
        BY <2>1, <4>1 DEF CountedSet
      <4> QED BY <4>2
    <3>2. Notice!Count(m)
      BY <1>2, <1>4, <1>7, <3>1 DEF Alarm, Notice!Count, StateFn, CountedSet
    <3> QED BY <1>2, <3>2 DEF Notice!Next
  <2>2. CASE metrics' = metrics
    BY <1>4, <1>7, <2>2, StutterNotice DEF Alarm, SameNotice
  <2> QED BY <1>2, <1>7, <2>1, <2>2 DEF Alarm
<1> QED BY <1>5, <1>6, <1>7

\* The poller settles a batch that is behind the loop.
LEMMA ReturnIsNotice ==
    ASSUME RInv, NEW l \in Invocations, Return(l)
    PROVE  [Notice!Next]_(Notice!vars)
<1>1. TypeOK /\ PassedOverBy(l) /\ batch[l] \in SUBSET Messages
  BY DEF RInv, IInv, NothingIsPassedOver, TypeOK
<1>2. CASE queue' = queue
  BY <1>2, StutterNotice DEF Return, SameNotice, StateFn
<1>3. CASE queue' = [m \in Messages |-> IF m \in batch[l] THEN "consumed" ELSE queue[m]]
  <2>1. at[l] \notin batch[l]
    BY <1>1 DEF Return, TypeOK
  <2>2. \A m \in batch[l] : Told(m) \/ Counted(m)
    BY <1>1, <2>1 DEF Return, PassedOverBy, Behind, Busy
  <2>3. \A m \in batch[l] : Notice!Told(m) \/ m \in CountedSet
    BY <2>2 DEF Told, Counted, Notice!Told, Notice!Mailed, EmailKinds, CountedSet
  <2>4. \A m \in batch[l] : StateFn[m] # "unsent"
    <3>1. \A m \in batch[l] : queue[m] # "unsent"
      BY <1>1 DEF RInv, SentBefore
    <3> QED BY <1>1, <3>1 DEF StateFn, StateOf, TypeOK
  <2>5. StateFn' = [m \in Messages |-> IF m \in batch[l] THEN "settled" ELSE StateFn[m]]
    BY <1>3 DEF StateFn, StateOf
  <2>6. Notice!Settle(batch[l])
    BY <2>3, <2>4, <2>5 DEF Return, Notice!Settle, StateFn, CountedSet
  <2> QED BY <1>1, <2>6 DEF Notice!Next
<1> QED BY <1>2, <1>3 DEF Return

LEMMA NoticeStep ==
    ASSUME RInv, [Next]_vars
    PROVE  [Notice!Next]_(Notice!vars)
<1>1. ASSUME NEW l \in Invocations,
             \/ Parse(l) \/ Sign(l) \/ Timing(l) \/ Crash(l)
             \/ \E m \in Messages : Take(l, m)
      PROVE  [Notice!Next]_(Notice!vars)
  BY <1>1, StutterNotice
  DEF Parse, Sign, Timing, Crash, Take, queueVars, SameNotice, StateFn
<1>2. CASE UNCHANGED vars
  BY <1>2, StutterNotice DEF vars, queueVars, SameNotice, StateFn
<1>3. ASSUME NEW m \in Messages, Send(m) \/ VisibilityExpires(m)
      PROVE  [Notice!Next]_(Notice!vars)
  BY <1>3, QueueIsNotice, StutterNotice DEF Notice!Next
<1>4. ASSUME NEW l \in Invocations, NEW S \in SUBSET Messages, Deliver(l, S)
      PROVE  [Notice!Next]_(Notice!vars)
  BY <1>4, QueueIsNotice DEF Notice!Next
<1> QED
  BY <1>1, <1>2, <1>3, <1>4, RecordIsNotice, ReturnIsNotice DEF Next, Step

\* Every behaviour of the handler is one of Notification, for any number of messages
\* and invocations and every fault.
THEOREM HandlerImplementsNotification == Spec => ImplementsNotification
<1>1. Init => Notice!Init
  BY DEF Init, Notice!Init, StateOf
<1>2. Spec => []RInv
  BY Invariance, NothingFromNowhere, InitAccounts, AccountsStep, PTL DEF RInv, Spec
<1> QED
  BY <1>1, <1>2, NoticeStep, PTL DEF Spec, ImplementsNotification, Notice!Spec

=============================================================================
