------------------------ MODULE MorseListener_proofs ------------------------
(***************************************************************************)
(* Proofs about CharToMorse and MorseListener. The first part is about the *)
(* encoder alone: whatever the length of a unit and whatever the           *)
(* characters are, its three state machines never use the line and the     *)
(* counter at the same time, and the counter counts exactly while one of   *)
(* them waits for it. The second is about what is heard of a character: it *)
(* is its Morse code, for every character and for every unit of at least   *)
(* six periods. The tree of nxt_Charstate is compared with the code,       *)
(* branch by branch; then the invariant says for every state how long the  *)
(* line has been '1' or '0' and what was heard until then.                 *)
(***************************************************************************)
EXTENDS MorseListener, TLAPS

-----------------------------------------------------------------------------
(* The state machines of the encoder.                                      *)

\* A machine that waits for the counter.
Waiting ==
    \/ presentDot \in {"sendWait", "spacerWait"}
    \/ presentDash \in {"sendWait", "spacerWait"}
    \/ presentChar \in {"waitWordCharSpacer", "sendSpacerWaitChar"}

\* A sender is active only while the character machine asks for its symbol.
SendersObey ==
    /\ dotSMActive => sendDot
    /\ dashSMActive => sendDash

\* The counter counts if and only if a machine waits for it, and not too far.
CounterServes ==
    /\ Waiting <=> unitNbCounter > 0
    /\ unitNbCounter = 0 => unitCounter = 0
    /\ Waiting => unitNbCounter <= unitNb

Inv == TypeOK /\ SendersObey /\ CounterServes

-----------------------------------------------------------------------------
(* The character machine.                                                  *)

LEMMA SymbolsType ==
    ASSUME NEW symbol \in {dot, dash}, TypeOK, SendNext(symbol)
    PROVE  symbols' \in Seq({dot, dash}) /\ presentChar' \in {"send", "same"}
BY DEF TypeOK, SendNext

LEMMA AdvanceCases ==
    ASSUME TypeOK, Advance
    PROVE  /\ symbols' \in Seq({dot, dash})
           /\ \/ presentChar' \in {"send", "same", "waitWordChar", "endOfChar"}
              \/ UNCHANGED <<presentChar, symbols>>
<1> DEFINE glyph == Glyph(char)
           next == SymbolAfter(symbols)
<1>1. CASE glyph \in next.dot
  <2>1. SendNext(dot)
    BY <1>1 DEF Advance
  <2> QED BY <2>1, SymbolsType
<1>2. CASE glyph \notin next.dot /\ glyph \in next.dash
  <2>1. SendNext(dash)
    BY <1>2 DEF Advance
  <2> QED BY <2>1, SymbolsType
<1>3. CASE glyph \notin next.dot /\ glyph \notin next.dash
  <2>1. \/ Goto("waitWordChar")
        \/ Remain
        \/ Goto("endOfChar")
    BY <1>3 DEF Advance
  <2>2. CASE Remain
    BY <2>2 DEF Remain, TypeOK
  <2>3. ASSUME NEW state \in {"waitWordChar", "endOfChar"}, Goto(state)
        PROVE  symbols' \in Seq({dot, dash}) /\ presentChar' = state
    <3>1. <<>> \in Seq({dot, dash})
      OBVIOUS
    <3> QED BY <2>3, <3>1 DEF Goto
  <2> QED BY <2>1, <2>2, <2>3
<1> QED BY <1>1, <1>2, <1>3

\* No machine asks for a dot and a dash at once.
LEMMA OneSymbol == ~(sendDot /\ sendDash)
BY DEF sendDot, sendDash, dot, dash

\* The character machine keeps its types, and while it asks for a symbol it
\* does not move before the symbol is sent.
LEMMA CharStep ==
    ASSUME TypeOK, nxt_Charstate
    PROVE  /\ presentChar' \in CharStates
           /\ symbols' \in Seq({dot, dash})
           /\ presentChar = "send" /\ ~(sendDot /\ dotSent) /\ ~(sendDash /\ dashSent)
                 => UNCHANGED <<presentChar, symbols>>
           /\ presentChar = "send" =>
                 presentChar' \in {"send", "same", "waitWordChar", "endOfChar"}
           /\ presentChar \in {"waitForChar", "storeChar", "same", "getNextChar"} =>
                 presentChar' \notin {"waitWordCharSpacer", "sendSpacerWaitChar"}
           /\ presentChar = "waitWordChar" => presentChar' = "waitWordCharSpacer"
           /\ presentChar = "endOfChar" => presentChar' = "sendSpacerWaitChar"
           /\ presentChar = "waitWordCharSpacer" =>
                 presentChar' = IF counterDone THEN "endOfChar" ELSE "waitWordCharSpacer"
           /\ presentChar = "sendSpacerWaitChar" =>
                 presentChar' = IF counterDone THEN "getNextChar" ELSE "sendSpacerWaitChar"
<1>0. presentChar \in CharStates /\ symbols \in Seq({dot, dash}) /\ <<>> \in Seq({dot, dash})
  BY DEF TypeOK
<1>1. CASE presentChar = "waitForChar"
  BY <1>0, <1>1 DEF nxt_Charstate, Goto, Remain, CharStates
<1>2. CASE presentChar = "storeChar"
  <2>1. Advance
    BY <1>2 DEF nxt_Charstate
  <2> QED BY <1>0, <1>2, <2>1, AdvanceCases DEF CharStates
<1>3. CASE presentChar = "send" /\ ((sendDot /\ dotSent) \/ (sendDash /\ dashSent))
  <2>1. Advance
    BY <1>3 DEF nxt_Charstate
  <2> QED BY <1>0, <1>3, <2>1, AdvanceCases DEF CharStates
<1>4. CASE presentChar = "send" /\ ~((sendDot /\ dotSent) \/ (sendDash /\ dashSent))
  <2>1. Remain
    BY <1>4 DEF nxt_Charstate
  <2> QED BY <1>0, <1>4, <2>1 DEF Remain, CharStates
<1>5. CASE presentChar = "same"
  BY <1>0, <1>5 DEF nxt_Charstate, CharStates
<1>6. CASE presentChar \in {"waitWordChar", "endOfChar", "getNextChar"}
  BY <1>0, <1>6 DEF nxt_Charstate, Goto, CharStates
<1>7. CASE presentChar \in {"waitWordCharSpacer", "sendSpacerWaitChar"}
  BY <1>0, <1>7 DEF nxt_Charstate, Goto, Remain, CharStates
<1> QED BY <1>0, <1>1, <1>2, <1>3, <1>4, <1>5, <1>6, <1>7 DEF CharStates

-----------------------------------------------------------------------------
(* The counter.                                                            *)

\* What the counter does in the four situations it is ever in.
LEMMA CounterStep ==
    ASSUME TypeOK, unitNb \in 0 .. 3, unitNbCounter = 0 => unitCounter = 0,
           countUnitDuration, countPeriods
    PROVE  /\ startCounter /\ unitNbCounter = 0 => unitNbCounter' = 1 /\ unitCounter' = 1
           /\ ~startCounter /\ unitNbCounter = 0 => unitNbCounter' = 0 /\ unitCounter' = 0
           /\ unitNbCounter > 0 /\ counterDone => unitNbCounter' = 0 /\ unitCounter' = 0
           /\ unitNbCounter > 0 /\ unitNbCounter <= unitNb /\ ~counterDone =>
                 unitNbCounter' \in 1 .. unitNb /\ unitCounter' \in 0 .. unitCountDivide
<1>0. unitCounter \in 0 .. unitCountDivide /\ unitNbCounter \in 0 .. 3
  BY DEF TypeOK
<1>1. CASE unitNbCounter = 0
  BY <1>0, <1>1 DEF countUnitDuration, countPeriods
<1>2. CASE unitNbCounter > 0 /\ counterDone
  BY <1>0, <1>2, UnitAssumption DEF countUnitDuration, countPeriods, counterDone, unitCountDone
<1>3. CASE unitNbCounter > 0 /\ ~counterDone /\ unitNbCounter <= unitNb
  <2>1. unitCounter' \in 0 .. unitCountDivide
    BY <1>0, <1>3, UnitAssumption DEF countUnitDuration, unitCountDone
  <2>2. CASE unitCountDone
    <3>1. unitNbCounter # unitNb
      BY <1>3, <2>2 DEF counterDone
    <3>2. unitNbCounter' = (unitNbCounter + 1) % 8
      BY <1>0, <1>3, <2>2 DEF countPeriods
    <3> QED BY <1>0, <1>3, <2>1, <3>1, <3>2
  <2>3. CASE ~unitCountDone
    BY <1>0, <1>3, <2>1, <2>3 DEF countPeriods
  <2> QED BY <2>2, <2>3
<1> QED BY <1>0, <1>1, <1>2, <1>3

\* What the counter is asked for fits its states.
LEMMA UnitNbType ==
    ASSUME TypeOK
    PROVE  unitNb \in 0 .. 3
BY DEF TypeOK, SenderStates, unitNb, SpacerUnits

-----------------------------------------------------------------------------
(* The two senders.                                                        *)

\* A step of the dot sender, with the counter, while the dash sender rests.
LEMMA DotStep ==
    ASSUME Inv, Circuit, presentDot # "waitStart"
    PROVE  /\ presentDash' = "waitStart"
           /\ presentDot' # "waitStart" => sendDot'
           /\ presentDot' \in SenderStates
           /\ CounterServes'
           /\ unitCounter' \in 0 .. unitCountDivide /\ unitNbCounter' \in 0 .. 3
<1>0. TypeOK /\ SendersObey /\ CounterServes /\ unitNb \in 0 .. 3
  BY UnitNbType DEF Inv
<1>1. /\ presentChar = "send" /\ sendDot /\ ~sendDash
      /\ dotSMActive /\ ~dashSMActive /\ presentDash = "waitStart" /\ presentDot \in SenderStates
  BY <1>0, OneSymbol DEF SendersObey, dotSMActive, dashSMActive, sendDot, sendDash, TypeOK
<1>2. presentDash' = "waitStart"
  BY <1>1 DEF Circuit, NextSender
<1>3. presentChar' \in {"send", "same", "waitWordChar", "endOfChar"}
  BY <1>0, <1>1, CharStep DEF Circuit
<1>4. /\ startCounter /\ unitNbCounter = 0 => unitNbCounter' = 1 /\ unitCounter' = 1
      /\ ~startCounter /\ unitNbCounter = 0 => unitNbCounter' = 0 /\ unitCounter' = 0
      /\ unitNbCounter > 0 /\ counterDone => unitNbCounter' = 0 /\ unitCounter' = 0
      /\ unitNbCounter > 0 /\ unitNbCounter <= unitNb /\ ~counterDone =>
            unitNbCounter' \in 1 .. unitNb /\ unitCounter' \in 0 .. unitCountDivide
  <2>1. countUnitDuration /\ countPeriods /\ (unitNbCounter = 0 => unitCounter = 0)
    BY <1>0 DEF Circuit, CounterServes
  <2> QED BY <1>0, <2>1, CounterStep
<1>5. presentDot' # "waitStart" => sendDot'
  <2>1. CASE presentDot = "end"
    BY <2>1 DEF Circuit, NextSender
  <2>2. CASE presentDot # "end"
    <3>1. UNCHANGED <<presentChar, symbols>>
      BY <1>0, <1>1, <2>2, CharStep DEF Circuit, dotSent, dashSent
    <3> QED BY <1>1, <3>1 DEF sendDot
  <2> QED BY <2>1, <2>2
<1>6. CASE presentDot \in {"sendStart", "spacerStart"}
  <2>1. startCounter /\ unitNbCounter = 0
    BY <1>0, <1>1, <1>6 DEF startCounter, CounterServes, Waiting, TypeOK
  <2>2. presentDot' = IF presentDot = "sendStart" THEN "sendWait" ELSE "spacerWait"
    BY <1>6 DEF Circuit, NextSender
  <2>3. unitNb' >= 1 /\ Waiting'
    BY <1>2, <2>2, <1>6 DEF unitNb, dotSMActive, dashSMActive, SpacerUnits, Waiting
  <2> QED BY <1>2, <1>4, <1>5, <2>1, <2>2, <2>3, UnitAssumption DEF CounterServes, SenderStates
<1>7. CASE presentDot \in {"sendWait", "spacerWait"}
  <2>1. unitNbCounter > 0 /\ unitNbCounter <= unitNb
    BY <1>0, <1>7 DEF CounterServes, Waiting
  <2>2. CASE counterDone
    <3>1. presentDot' = IF presentDot = "sendWait" THEN "spacerStart" ELSE "end"
      BY <1>7, <2>2 DEF Circuit, NextSender
    <3>2. ~Waiting'
      BY <1>2, <1>3, <3>1 DEF Waiting
    <3> QED BY <1>2, <1>4, <1>5, <2>1, <2>2, <3>1, <3>2, UnitAssumption DEF CounterServes, SenderStates
  <2>3. CASE ~counterDone
    <3>1. presentDot' = presentDot
      BY <1>7, <2>3 DEF Circuit, NextSender
    <3>2. unitNb' = unitNb /\ Waiting'
      BY <1>1, <1>2, <1>7, <3>1 DEF unitNb, dotSMActive, dashSMActive, SpacerUnits, Waiting
    <3> QED BY <1>0, <1>1, <1>2, <1>4, <1>5, <2>1, <2>3, <3>1, <3>2 DEF CounterServes
  <2> QED BY <2>2, <2>3
<1>8. CASE presentDot = "end"
  <2>1. ~startCounter /\ unitNbCounter = 0
    BY <1>0, <1>1, <1>8 DEF startCounter, CounterServes, Waiting, TypeOK
  <2>2. presentDot' = "waitStart"
    BY <1>8 DEF Circuit, NextSender
  <2>3. ~Waiting'
    BY <1>2, <1>3, <2>2 DEF Waiting
  <2> QED BY <1>2, <1>4, <1>5, <2>1, <2>2, <2>3, UnitAssumption DEF CounterServes, SenderStates
<1> QED BY <1>1, <1>6, <1>7, <1>8 DEF SenderStates


\* A step of the dash sender, with the counter, while the dot sender rests.
LEMMA DashStep ==
    ASSUME Inv, Circuit, presentDash # "waitStart"
    PROVE  /\ presentDot' = "waitStart"
           /\ presentDash' # "waitStart" => sendDash'
           /\ presentDash' \in SenderStates
           /\ CounterServes'
           /\ unitCounter' \in 0 .. unitCountDivide /\ unitNbCounter' \in 0 .. 3
<1>0. TypeOK /\ SendersObey /\ CounterServes /\ unitNb \in 0 .. 3
  BY UnitNbType DEF Inv
<1>1. /\ presentChar = "send" /\ sendDash /\ ~sendDot
      /\ dashSMActive /\ ~dotSMActive /\ presentDot = "waitStart" /\ presentDash \in SenderStates
  BY <1>0, OneSymbol DEF SendersObey, dotSMActive, dashSMActive, sendDot, sendDash, TypeOK
<1>2. presentDot' = "waitStart"
  BY <1>1 DEF Circuit, NextSender
<1>3. presentChar' \in {"send", "same", "waitWordChar", "endOfChar"}
  BY <1>0, <1>1, CharStep DEF Circuit
<1>4. /\ startCounter /\ unitNbCounter = 0 => unitNbCounter' = 1 /\ unitCounter' = 1
      /\ ~startCounter /\ unitNbCounter = 0 => unitNbCounter' = 0 /\ unitCounter' = 0
      /\ unitNbCounter > 0 /\ counterDone => unitNbCounter' = 0 /\ unitCounter' = 0
      /\ unitNbCounter > 0 /\ unitNbCounter <= unitNb /\ ~counterDone =>
            unitNbCounter' \in 1 .. unitNb /\ unitCounter' \in 0 .. unitCountDivide
  <2>1. countUnitDuration /\ countPeriods /\ (unitNbCounter = 0 => unitCounter = 0)
    BY <1>0 DEF Circuit, CounterServes
  <2> QED BY <1>0, <2>1, CounterStep
<1>5. presentDash' # "waitStart" => sendDash'
  <2>1. CASE presentDash = "end"
    BY <2>1 DEF Circuit, NextSender
  <2>2. CASE presentDash # "end"
    <3>1. UNCHANGED <<presentChar, symbols>>
      BY <1>0, <1>1, <2>2, CharStep DEF Circuit, dashSent, dotSent
    <3> QED BY <1>1, <3>1 DEF sendDash
  <2> QED BY <2>1, <2>2
<1>6. CASE presentDash \in {"sendStart", "spacerStart"}
  <2>1. startCounter /\ unitNbCounter = 0
    BY <1>0, <1>1, <1>6 DEF startCounter, CounterServes, Waiting, TypeOK
  <2>2. presentDash' = IF presentDash = "sendStart" THEN "sendWait" ELSE "spacerWait"
    BY <1>6 DEF Circuit, NextSender
  <2>3. unitNb' >= 1 /\ Waiting'
    BY <1>2, <2>2, <1>6 DEF unitNb, dotSMActive, dashSMActive, SpacerUnits, Waiting
  <2> QED BY <1>2, <1>4, <1>5, <2>1, <2>2, <2>3, UnitAssumption DEF CounterServes, SenderStates
<1>7. CASE presentDash \in {"sendWait", "spacerWait"}
  <2>1. unitNbCounter > 0 /\ unitNbCounter <= unitNb
    BY <1>0, <1>7 DEF CounterServes, Waiting
  <2>2. CASE counterDone
    <3>1. presentDash' = IF presentDash = "sendWait" THEN "spacerStart" ELSE "end"
      BY <1>7, <2>2 DEF Circuit, NextSender
    <3>2. ~Waiting'
      BY <1>2, <1>3, <3>1 DEF Waiting
    <3> QED BY <1>2, <1>4, <1>5, <2>1, <2>2, <3>1, <3>2, UnitAssumption DEF CounterServes, SenderStates
  <2>3. CASE ~counterDone
    <3>1. presentDash' = presentDash
      BY <1>7, <2>3 DEF Circuit, NextSender
    <3>2. unitNb' = unitNb /\ Waiting'
      BY <1>1, <1>2, <1>7, <3>1 DEF unitNb, dotSMActive, dashSMActive, SpacerUnits, Waiting
    <3> QED BY <1>0, <1>1, <1>2, <1>4, <1>5, <2>1, <2>3, <3>1, <3>2 DEF CounterServes
  <2> QED BY <2>2, <2>3
<1>8. CASE presentDash = "end"
  <2>1. ~startCounter /\ unitNbCounter = 0
    BY <1>0, <1>1, <1>8 DEF startCounter, CounterServes, Waiting, TypeOK
  <2>2. presentDash' = "waitStart"
    BY <1>8 DEF Circuit, NextSender
  <2>3. ~Waiting'
    BY <1>2, <1>3, <2>2 DEF Waiting
  <2> QED BY <1>2, <1>4, <1>5, <2>1, <2>2, <2>3, UnitAssumption DEF CounterServes, SenderStates
<1> QED BY <1>1, <1>6, <1>7, <1>8 DEF SenderStates

-----------------------------------------------------------------------------
(* Neither sender is active: the character machine has the counter.        *)
LEMMA RestStep ==
    ASSUME Inv, Circuit, presentDot = "waitStart", presentDash = "waitStart"
    PROVE  /\ presentDot' \in SenderStates /\ presentDash' \in SenderStates
           /\ SendersObey'
           /\ CounterServes'
           /\ unitCounter' \in 0 .. unitCountDivide /\ unitNbCounter' \in 0 .. 3
<1>0. /\ TypeOK /\ CounterServes /\ unitNb \in 0 .. 3
      /\ ~dotSMActive /\ ~dashSMActive
      /\ presentChar \in CharStates /\ presentChar' \in CharStates
  BY UnitNbType, CharStep DEF Inv, dotSMActive, dashSMActive, Circuit, TypeOK
<1>1. /\ presentDot' = IF sendDot THEN "sendStart" ELSE "waitStart"
      /\ presentDash' = IF sendDash THEN "sendStart" ELSE "waitStart"
  BY DEF Circuit, NextSender
<1>2. SendersObey'
  <2>1. CASE sendDot \/ sendDash
    <3>1. UNCHANGED <<presentChar, symbols>>
      BY <1>0, <2>1, CharStep DEF Circuit, dotSent, dashSent, sendDot, sendDash
    <3> QED BY <1>1, <3>1 DEF SendersObey, dotSMActive, dashSMActive, sendDot, sendDash
  <2>2. CASE ~sendDot /\ ~sendDash
    BY <1>1, <2>2 DEF SendersObey, dotSMActive, dashSMActive
  <2> QED BY <2>1, <2>2
<1>3. Waiting' <=> presentChar' \in {"waitWordCharSpacer", "sendSpacerWaitChar"}
  BY <1>1 DEF Waiting
<1>4. /\ startCounter /\ unitNbCounter = 0 => unitNbCounter' = 1 /\ unitCounter' = 1
      /\ ~startCounter /\ unitNbCounter = 0 => unitNbCounter' = 0 /\ unitCounter' = 0
      /\ unitNbCounter > 0 /\ counterDone => unitNbCounter' = 0 /\ unitCounter' = 0
      /\ unitNbCounter > 0 /\ unitNbCounter <= unitNb /\ ~counterDone =>
            unitNbCounter' \in 1 .. unitNb /\ unitCounter' \in 0 .. unitCountDivide
  <2>1. countUnitDuration /\ countPeriods /\ (unitNbCounter = 0 => unitCounter = 0)
    BY <1>0 DEF Circuit, CounterServes
  <2> QED BY <1>0, <2>1, CounterStep
<1>5. presentChar' \in {"waitWordCharSpacer", "sendSpacerWaitChar"} =>
         unitNb' = 2 /\ ~dotSMActive' /\ ~dashSMActive'
  <2>1. presentChar' \in {"waitWordCharSpacer", "sendSpacerWaitChar"} => ~sendDot' /\ ~sendDash'
    BY DEF sendDot, sendDash
  <2> QED BY <1>2, <2>1 DEF SendersObey, unitNb
<1>6. CASE presentChar \in {"waitWordChar", "endOfChar"}
  <2>1. startCounter /\ unitNbCounter = 0
    BY <1>0, <1>6 DEF startCounter, CounterServes, Waiting, dotSMActive, dashSMActive, TypeOK
  <2>2. presentChar' \in {"waitWordCharSpacer", "sendSpacerWaitChar"}
    BY <1>0, <1>6, CharStep DEF Circuit
  <2> QED BY <1>1, <1>2, <1>3, <1>4, <1>5, <2>1, <2>2, UnitAssumption DEF CounterServes, SenderStates
<1>7. CASE presentChar \in {"waitWordCharSpacer", "sendSpacerWaitChar"}
  <2>1. unitNb = 2 /\ unitNbCounter > 0 /\ unitNbCounter <= unitNb
    BY <1>0, <1>7 DEF CounterServes, Waiting, unitNb
  <2>2. CASE counterDone
    <3>1. presentChar' \in {"endOfChar", "getNextChar"}
      BY <1>0, <1>7, <2>2, CharStep DEF Circuit
    <3> QED BY <1>1, <1>2, <1>3, <1>4, <2>1, <2>2, <3>1, UnitAssumption DEF CounterServes, SenderStates
  <2>3. CASE ~counterDone
    <3>1. presentChar' \in {"waitWordCharSpacer", "sendSpacerWaitChar"}
      BY <1>0, <1>7, <2>3, CharStep DEF Circuit
    <3> QED BY <1>1, <1>2, <1>3, <1>4, <1>5, <2>1, <2>3, <3>1 DEF CounterServes, SenderStates
  <2> QED BY <2>2, <2>3
<1>8. CASE presentChar \in {"waitForChar", "storeChar", "send", "same", "getNextChar"}
  <2>1. ~startCounter /\ unitNbCounter = 0
    BY <1>0, <1>8 DEF startCounter, CounterServes, Waiting, dotSMActive, dashSMActive, TypeOK
  <2>2. presentChar' \notin {"waitWordCharSpacer", "sendSpacerWaitChar"}
    BY <1>0, <1>8, CharStep DEF Circuit
  <2> QED BY <1>1, <1>2, <1>3, <1>4, <2>1, <2>2, UnitAssumption DEF CounterServes, SenderStates
<1> QED BY <1>0, <1>6, <1>7, <1>8 DEF CharStates

-----------------------------------------------------------------------------
LEMMA InvInit == Init => Inv
<1> SUFFICES ASSUME Init PROVE Inv
  OBVIOUS
<1>1. <<>> \in Seq({dot, dash})
  OBVIOUS
<1> QED
  BY <1>1, UnitAssumption
  DEF Init, CircuitInit, Inv, TypeOK, SendersObey, CounterServes, Waiting,
      dotSMActive, dashSMActive, CharStates, SenderStates

LEMMA InvStep == Inv /\ [Next]_vars => Inv'
<1> SUFFICES ASSUME Inv, [Next]_vars PROVE Inv'
  OBVIOUS
<1>1. CASE Next
  <2>1. char' \in Characters /\ charNotReady' \in BOOLEAN /\ Circuit
    BY <1>1 DEF Next
  <2>2. presentChar' \in CharStates /\ symbols' \in Seq({dot, dash})
    BY <2>1, CharStep DEF Inv, Circuit
  <2>3. CASE presentDot # "waitStart"
    <3>1. SendersObey'
      BY <2>1, <2>3, DotStep DEF SendersObey, dotSMActive, dashSMActive
    <3> QED BY <2>1, <2>2, <2>3, <3>1, DotStep DEF Inv, TypeOK, SenderStates
  <2>4. CASE presentDash # "waitStart"
    <3>1. SendersObey'
      BY <2>1, <2>4, DashStep DEF SendersObey, dotSMActive, dashSMActive
    <3> QED BY <2>1, <2>2, <2>4, <3>1, DashStep DEF Inv, TypeOK, SenderStates
  <2>5. CASE presentDot = "waitStart" /\ presentDash = "waitStart"
    BY <2>1, <2>2, <2>5, RestStep DEF Inv, TypeOK
  <2> QED BY <2>3, <2>4, <2>5
<1>2. CASE UNCHANGED vars
  BY <1>2 DEF vars, circuitVars, Inv, TypeOK, SendersObey, CounterServes, Waiting,
      dotSMActive, dashSMActive, sendDot, sendDash, unitNb, SpacerUnits
<1> QED BY <1>1, <1>2

\* What Inv says of the line and of the counter.
LEMMA InvMachines == Inv => OneMachineAtATime
<1> SUFFICES ASSUME Inv PROVE OneMachineAtATime
  OBVIOUS
<1>1. ~(dotSMActive /\ dashSMActive)
  BY OneSymbol DEF Inv, SendersObey
<1>2. charSMActive => ~dotSMActive /\ ~dashSMActive
  BY DEF Inv, SendersObey, charSMActive, sendDot, sendDash
<1>3. startCounter => ~Waiting
  BY <1>1, <1>2 DEF startCounter, Waiting, dotSMActive, dashSMActive, charSMActive
<1>4. startCounter => unitNbCounter = 0 /\ unitCounter = 0
  BY <1>3 DEF Inv, CounterServes, TypeOK
<1> QED BY <1>1, <1>2, <1>4 DEF OneMachineAtATime

\* The registers stay in their ranges: the counter of units, which has three
\* bits, never counts past the three units of a dash, and the counter of clock
\* periods never past a unit (unitCounter_studentVersion.vhd).
THEOREM MorseTypeCorrect == Spec => []TypeOK
<1>1. Inv => TypeOK
  BY DEF Inv
<1> QED BY <1>1, InvInit, InvStep, PTL DEF Spec

\* The line and the counter of the Morse encoder serve one machine at a time,
\* whatever the order in which its multiplexers look at the three machines
\* (charToMorseController_studentVersion.vhd, lines 1110 to 1113).
THEOREM MachinesCorrect == Spec => []OneMachineAtATime
BY InvInit, InvStep, InvMachines, PTL DEF Spec

-----------------------------------------------------------------------------
(* The tree of symbols.                                                    *)

\* The glyphs that have a code.
Coded == {"A", "B", "C", "D", "E", "F", "G", "H", "I", "J", "K", "L", "M", "N", "O", "P",
          "Q", "R", "S", "T", "U", "V", "W", "X", "Y", "Z",
          "0", "1", "2", "3", "4", "5", "6", "7", "8", "9"}

\* The symbols sent so far are the beginning of the code.
OnPath(glyph, sent) ==
    /\ Len(sent) <= Len(Code(glyph))
    /\ \A i \in 1 .. Len(sent) : sent[i] = Code(glyph)[i]

\* What the tree says behind n symbols: the next symbol of the code, if there is one.
GoesOn(glyph, n, next) ==
    /\ glyph \in next.dot <=> n < Len(Code(glyph)) /\ Code(glyph)[n + 1] = dot
    /\ glyph \in next.dash <=> n < Len(Code(glyph)) /\ Code(glyph)[n + 1] = dash

LEMMA CodedGlyphs == Coded \subseteq AnyGlyph /\ none \notin Coded
<1>1. DOMAIN Letters = 1 .. 26
  BY DEF Letters
<1>2. DOMAIN Digits = 1 .. 10
  BY DEF Digits
<1>3. ToSet(Letters) = {Letters[i] : i \in 1 .. 26} /\
        ToSet(Digits) = {Digits[i] : i \in 1 .. 10}
  BY <1>1, <1>2 DEF ToSet
<1>4. \A i \in 1 .. 26 : Letters[i] \in AnyGlyph
  BY <1>3 DEF AnyGlyph
<1>5. \A i \in 1 .. 10 : Digits[i] \in AnyGlyph
  BY <1>3 DEF AnyGlyph
<1> QED BY <1>4, <1>5 DEF Coded, Letters, Digits, none

LEMMA GlyphType ==
    ASSUME NEW code \in Nat
    PROVE  Glyph(code) \in Coded \union {none}
<1>1. \A i \in 1 .. 26 : Letters[i] \in Coded
  BY DEF Letters, Coded
<1>2. \A i \in 1 .. 10 : Digits[i] \in Coded
  BY DEF Digits, Coded
<1>3. code \in 48 .. 57 => code - 47 \in 1 .. 10
  OBVIOUS
<1> QED BY <1>1, <1>2, <1>3 DEF Glyph


\* The codes, looked up once: how long they are, and their first, second ...
\* symbols.
LEMMA Lengths ==
    /\ \A glyph \in {"E", "T"} : Len(Code(glyph)) = 1
    /\ \A glyph \in {"A", "I", "M", "N"} : Len(Code(glyph)) = 2
    /\ \A glyph \in {"D", "G", "K", "O", "R", "S", "U", "W"} : Len(Code(glyph)) = 3
    /\ \A glyph \in {"B", "C", "F", "H", "J", "L", "P", "Q", "V", "X", "Y",
          "Z"} : Len(Code(glyph)) = 4
    /\ \A glyph \in {"0", "1", "2", "3", "4", "5", "6", "7", "8",
          "9"} : Len(Code(glyph)) = 5
BY DEF Code

LEMMA Columns ==
    /\ \A glyph \in {"A", "E", "F", "H", "I", "J", "L", "P", "R", "S", "U", "V", "W", "1",
          "2", "3", "4", "5"} : Code(glyph)[1] = dot
    /\ \A glyph \in {"B", "C", "D", "G", "K", "M", "N", "O", "Q", "T", "X", "Y", "Z", "0",
          "6", "7", "8", "9"} : Code(glyph)[1] = dash
    /\ \A glyph \in {"B", "C", "D", "F", "H", "I", "K", "N", "S", "U", "V", "X", "Y", "2",
          "3", "4", "5", "6"} : Code(glyph)[2] = dot
    /\ \A glyph \in {"A", "G", "J", "L", "M", "O", "P", "Q", "R", "W", "Z", "0", "1", "7",
          "8", "9"} : Code(glyph)[2] = dash
    /\ \A glyph \in {"B", "D", "G", "H", "L", "Q", "R", "S", "V", "X", "Z", "3", "4", "5",
          "6", "7"} : Code(glyph)[3] = dot
    /\ \A glyph \in {"C", "F", "J", "K", "O", "P", "U", "W", "Y", "0", "1", "2", "8",
          "9"} : Code(glyph)[3] = dash
    /\ \A glyph \in {"B", "C", "F", "H", "L", "P", "Z", "4", "5", "6", "7",
          "8"} : Code(glyph)[4] = dot
    /\ \A glyph \in {"J", "Q", "V", "X", "Y", "0", "1", "2", "3",
          "9"} : Code(glyph)[4] = dash
    /\ \A glyph \in {"5", "6", "7", "8", "9"} : Code(glyph)[5] = dot
    /\ \A glyph \in {"0", "1", "2", "3", "4"} : Code(glyph)[5] = dash
BY DEF Code

LEMMA CodeType ==
    ASSUME NEW glyph \in Coded
    PROVE  /\ Code(glyph) \in Seq({dot, dash}) /\ Len(Code(glyph)) \in 1 .. 5
           /\ Code(glyph) # <<dash, dash, dash, dash>>
<1>1. /\ Code("E") \in Seq({dot, dash}) /\ Code("T") \in Seq({dot, dash})
  BY DEF Code
<1>2. /\ Code("A") \in Seq({dot, dash}) /\ Code("I") \in Seq({dot, dash})
      /\ Code("M") \in Seq({dot, dash})
      /\ Code("N") \in Seq({dot, dash})
  BY DEF Code
<1>3. /\ Code("D") \in Seq({dot, dash}) /\ Code("G") \in Seq({dot, dash})
      /\ Code("K") \in Seq({dot, dash})
      /\ Code("O") \in Seq({dot, dash}) /\ Code("R") \in Seq({dot, dash})
      /\ Code("S") \in Seq({dot, dash})
      /\ Code("U") \in Seq({dot, dash}) /\ Code("W") \in Seq({dot, dash})
  BY DEF Code
<1>4. /\ Code("B") \in Seq({dot, dash}) /\ Code("C") \in Seq({dot, dash})
      /\ Code("F") \in Seq({dot, dash})
      /\ Code("H") \in Seq({dot, dash}) /\ Code("J") \in Seq({dot, dash})
      /\ Code("L") \in Seq({dot, dash})
      /\ Code("P") \in Seq({dot, dash}) /\ Code("Q") \in Seq({dot, dash})
      /\ Code("V") \in Seq({dot, dash})
      /\ Code("X") \in Seq({dot, dash}) /\ Code("Y") \in Seq({dot, dash})
      /\ Code("Z") \in Seq({dot, dash})
  BY DEF Code
<1>5. /\ Code("1") \in Seq({dot, dash}) /\ Code("2") \in Seq({dot, dash})
      /\ Code("3") \in Seq({dot, dash})
      /\ Code("4") \in Seq({dot, dash}) /\ Code("5") \in Seq({dot, dash})
      /\ Code("6") \in Seq({dot, dash})
      /\ Code("7") \in Seq({dot, dash}) /\ Code("8") \in Seq({dot, dash})
      /\ Code("9") \in Seq({dot, dash})
      /\ Code("0") \in Seq({dot, dash})
  BY DEF Code
<1>6. Code(glyph) \in Seq({dot, dash})
  BY <1>1, <1>2, <1>3, <1>4, <1>5 DEF Coded
<1>7. Len(Code(glyph)) \in 1 .. 5
  BY Lengths DEF Coded
<1>8. Code(glyph) # <<dash, dash, dash, dash>>
  BY Lengths, Columns DEF Coded, dot, dash
<1> QED BY <1>6, <1>7, <1>8

\* The branches of nxt_Charstate, one level of the tree after the other.
LEMMA FirstIsRight ==
    \A glyph \in Coded : GoesOn(glyph, 0, FirstSymbol)
BY Lengths, Columns DEF Coded, GoesOn, FirstSymbol, dot, dash

LEMMA SecondIsRight ==
    \A glyph \in Coded : \A a \in {dot, dash} :
        Len(Code(glyph)) >= 1 /\ Code(glyph)[1] = a
            => GoesOn(glyph, 1, SecondSymbol(<<a>>))
<1>1. \A glyph \in Coded :
        Len(Code(glyph)) >= 1 /\ Code(glyph)[1] = dot
            => GoesOn(glyph, 1, SecondSymbol(<<dot>>))
  BY Lengths, Columns DEF Coded, GoesOn, SecondSymbol, dot, dash
<1>2. \A glyph \in Coded :
        Len(Code(glyph)) >= 1 /\ Code(glyph)[1] = dash
            => GoesOn(glyph, 1, SecondSymbol(<<dash>>))
  BY Lengths, Columns DEF Coded, GoesOn, SecondSymbol, dot, dash
<1> QED BY <1>1, <1>2

LEMMA ThirdIsRight ==
    \A glyph \in Coded : \A a, b \in {dot, dash} :
        Len(Code(glyph)) >= 2 /\ Code(glyph)[1] = a /\ Code(glyph)[2] = b
            => GoesOn(glyph, 2, ThirdSymbol(<<a, b>>))
<1>1. \A glyph \in Coded :
        Len(Code(glyph)) >= 2 /\ Code(glyph)[1] = dot /\ Code(glyph)[2] = dot
            => GoesOn(glyph, 2, ThirdSymbol(<<dot, dot>>))
  <2>1. \A glyph \in Coded :
           Len(Code(glyph)) >= 2 /\ Code(glyph)[1] = dot /\ Code(glyph)[2] = dot =>
              glyph \in {"F", "H", "I", "S", "U", "V", "2", "3", "4", "5"}
    BY Lengths, Columns DEF Coded, dot, dash
  <2>2. \A glyph \in {"F", "H", "I", "S", "U", "V", "2", "3", "4", "5"} : GoesOn(glyph, 2,
          ThirdSymbol(<<dot, dot>>))
    BY Lengths, Columns DEF GoesOn, ThirdSymbol, dot, dash
  <2> QED BY <2>1, <2>2
<1>2. \A glyph \in Coded :
        Len(Code(glyph)) >= 2 /\ Code(glyph)[1] = dot /\ Code(glyph)[2] = dash
            => GoesOn(glyph, 2, ThirdSymbol(<<dot, dash>>))
  BY Lengths, Columns DEF Coded, GoesOn, ThirdSymbol, dot, dash
<1>3. \A glyph \in Coded :
        Len(Code(glyph)) >= 2 /\ Code(glyph)[1] = dash /\ Code(glyph)[2] = dot
            => GoesOn(glyph, 2, ThirdSymbol(<<dash, dot>>))
  BY Lengths, Columns DEF Coded, GoesOn, ThirdSymbol, dot, dash
<1>4. \A glyph \in Coded :
        Len(Code(glyph)) >= 2 /\ Code(glyph)[1] = dash /\ Code(glyph)[2] = dash
            => GoesOn(glyph, 2, ThirdSymbol(<<dash, dash>>))
  BY Lengths, Columns DEF Coded, GoesOn, ThirdSymbol, dot, dash
<1> QED BY <1>1, <1>2, <1>3, <1>4

LEMMA FourthIsRight ==
    \A glyph \in Coded : \A a, b, c \in {dot, dash} :
        Len(Code(glyph)) >= 3 /\ Code(glyph)[1] = a /\ Code(glyph)[2] = b /\
              Code(glyph)[3] = c
            => GoesOn(glyph, 3, FourthSymbol(<<a, b, c>>))
<1>1. \A glyph \in Coded :
        Len(Code(glyph)) >= 3 /\ Code(glyph)[1] = dot /\ Code(glyph)[2] = dot /\
              Code(glyph)[3] = dot
            => GoesOn(glyph, 3, FourthSymbol(<<dot, dot, dot>>))
  <2>1. \A glyph \in Coded :
           Len(Code(glyph)) >= 3 /\ Code(glyph)[1] = dot /\ Code(glyph)[2] = dot /\
                 Code(glyph)[3] = dot =>
              glyph \in {"H", "S", "V", "3", "4", "5"}
    BY Lengths, Columns DEF Coded, dot, dash
  <2>2. \A glyph \in {"H", "S", "V", "3", "4", "5"} : GoesOn(glyph, 3, FourthSymbol(<<dot,
          dot, dot>>))
    BY Lengths, Columns DEF GoesOn, FourthSymbol, dot, dash
  <2> QED BY <2>1, <2>2
<1>2. \A glyph \in Coded :
        Len(Code(glyph)) >= 3 /\ Code(glyph)[1] = dot /\ Code(glyph)[2] = dot /\
              Code(glyph)[3] = dash
            => GoesOn(glyph, 3, FourthSymbol(<<dot, dot, dash>>))
  BY Lengths, Columns DEF Coded, GoesOn, FourthSymbol, dot, dash
<1>3. \A glyph \in Coded :
        Len(Code(glyph)) >= 3 /\ Code(glyph)[1] = dot /\ Code(glyph)[2] = dash /\
              Code(glyph)[3] = dot
            => GoesOn(glyph, 3, FourthSymbol(<<dot, dash, dot>>))
  BY Lengths, Columns DEF Coded, GoesOn, FourthSymbol, dot, dash
<1>4. \A glyph \in Coded :
        Len(Code(glyph)) >= 3 /\ Code(glyph)[1] = dot /\ Code(glyph)[2] = dash /\
              Code(glyph)[3] = dash
            => GoesOn(glyph, 3, FourthSymbol(<<dot, dash, dash>>))
  BY Lengths, Columns DEF Coded, GoesOn, FourthSymbol, dot, dash
<1>5. \A glyph \in Coded :
        Len(Code(glyph)) >= 3 /\ Code(glyph)[1] = dash /\ Code(glyph)[2] = dot /\
              Code(glyph)[3] = dot
            => GoesOn(glyph, 3, FourthSymbol(<<dash, dot, dot>>))
  <2>1. \A glyph \in Coded :
           Len(Code(glyph)) >= 3 /\ Code(glyph)[1] = dash /\ Code(glyph)[2] = dot /\
                 Code(glyph)[3] = dot =>
              glyph \in {"B", "D", "X", "6"}
    BY Lengths, Columns DEF Coded, dot, dash
  <2>2. \A glyph \in {"B", "D", "X", "6"} : GoesOn(glyph, 3, FourthSymbol(<<dash, dot,
          dot>>))
    BY Lengths, Columns DEF GoesOn, FourthSymbol, dot, dash
  <2> QED BY <2>1, <2>2
<1>6. \A glyph \in Coded :
        Len(Code(glyph)) >= 3 /\ Code(glyph)[1] = dash /\ Code(glyph)[2] = dot /\
              Code(glyph)[3] = dash
            => GoesOn(glyph, 3, FourthSymbol(<<dash, dot, dash>>))
  BY Lengths, Columns DEF Coded, GoesOn, FourthSymbol, dot, dash
<1>7. \A glyph \in Coded :
        Len(Code(glyph)) >= 3 /\ Code(glyph)[1] = dash /\ Code(glyph)[2] = dash /\
              Code(glyph)[3] = dot
            => GoesOn(glyph, 3, FourthSymbol(<<dash, dash, dot>>))
  BY Lengths, Columns DEF Coded, GoesOn, FourthSymbol, dot, dash
<1>8. \A glyph \in Coded :
        Len(Code(glyph)) >= 3 /\ Code(glyph)[1] = dash /\ Code(glyph)[2] = dash /\
              Code(glyph)[3] = dash
            => GoesOn(glyph, 3, FourthSymbol(<<dash, dash, dash>>))
  BY Lengths, Columns DEF Coded, GoesOn, FourthSymbol, dot, dash
<1> QED BY <1>1, <1>2, <1>3, <1>4, <1>5, <1>6, <1>7, <1>8

LEMMA FifthIsRight ==
    \A glyph \in Coded : \A a, b, c, d \in {dot, dash} :
        Len(Code(glyph)) >= 4 /\ Code(glyph)[1] = a /\ Code(glyph)[2] = b /\
              Code(glyph)[3] = c /\ Code(glyph)[4] = d
            => GoesOn(glyph, 4, FifthSymbol(<<a, b, c, d>>))
<1>1. \A glyph \in Coded :
        Len(Code(glyph)) >= 4 /\ Code(glyph)[1] = dot /\ Code(glyph)[2] = dot /\
              Code(glyph)[3] = dot /\ Code(glyph)[4] = dot
            => GoesOn(glyph, 4, FifthSymbol(<<dot, dot, dot, dot>>))
  <2>1. \A glyph \in Coded :
           Len(Code(glyph)) >= 4 /\ Code(glyph)[1] = dot /\ Code(glyph)[2] = dot /\
                 Code(glyph)[3] = dot /\ Code(glyph)[4] = dot =>
              glyph \in {"H", "4", "5"}
    BY Lengths, Columns DEF Coded, dot, dash
  <2>2. \A glyph \in {"H", "4", "5"} : GoesOn(glyph, 4, FifthSymbol(<<dot, dot, dot, dot>>))
    BY Lengths, Columns DEF GoesOn, FifthSymbol, dot, dash
  <2> QED BY <2>1, <2>2
<1>2. \A glyph \in Coded :
        Len(Code(glyph)) >= 4 /\ Code(glyph)[1] = dot /\ Code(glyph)[2] = dot /\
              Code(glyph)[3] = dot /\ Code(glyph)[4] = dash
            => GoesOn(glyph, 4, FifthSymbol(<<dot, dot, dot, dash>>))
  BY Lengths, Columns DEF Coded, GoesOn, FifthSymbol, dot, dash
<1>3. \A glyph \in Coded :
        Len(Code(glyph)) >= 4 /\ Code(glyph)[1] = dot /\ Code(glyph)[2] = dot /\
              Code(glyph)[3] = dash /\ Code(glyph)[4] = dot
            => GoesOn(glyph, 4, FifthSymbol(<<dot, dot, dash, dot>>))
  BY Lengths, Columns DEF Coded, GoesOn, FifthSymbol, dot, dash
<1>4. \A glyph \in Coded :
        Len(Code(glyph)) >= 4 /\ Code(glyph)[1] = dot /\ Code(glyph)[2] = dot /\
              Code(glyph)[3] = dash /\ Code(glyph)[4] = dash
            => GoesOn(glyph, 4, FifthSymbol(<<dot, dot, dash, dash>>))
  BY Lengths, Columns, CodedGlyphs DEF Coded, GoesOn, FifthSymbol, dot, dash
<1>5. \A glyph \in Coded :
        Len(Code(glyph)) >= 4 /\ Code(glyph)[1] = dot /\ Code(glyph)[2] = dash /\
              Code(glyph)[3] = dot /\ Code(glyph)[4] = dot
            => GoesOn(glyph, 4, FifthSymbol(<<dot, dash, dot, dot>>))
  BY Lengths, Columns DEF Coded, GoesOn, FifthSymbol, dot, dash
<1>6. \A glyph \in Coded :
        Len(Code(glyph)) >= 4 /\ Code(glyph)[1] = dot /\ Code(glyph)[2] = dash /\
              Code(glyph)[3] = dot /\ Code(glyph)[4] = dash
            => GoesOn(glyph, 4, FifthSymbol(<<dot, dash, dot, dash>>))
  BY Lengths, Columns DEF Coded, GoesOn, FifthSymbol, dot, dash
<1>7. \A glyph \in Coded :
        Len(Code(glyph)) >= 4 /\ Code(glyph)[1] = dot /\ Code(glyph)[2] = dash /\
              Code(glyph)[3] = dash /\ Code(glyph)[4] = dot
            => GoesOn(glyph, 4, FifthSymbol(<<dot, dash, dash, dot>>))
  BY Lengths, Columns DEF Coded, GoesOn, FifthSymbol, dot, dash
<1>8. \A glyph \in Coded :
        Len(Code(glyph)) >= 4 /\ Code(glyph)[1] = dot /\ Code(glyph)[2] = dash /\
              Code(glyph)[3] = dash /\ Code(glyph)[4] = dash
            => GoesOn(glyph, 4, FifthSymbol(<<dot, dash, dash, dash>>))
  BY Lengths, Columns DEF Coded, GoesOn, FifthSymbol, dot, dash
<1>9. \A glyph \in Coded :
        Len(Code(glyph)) >= 4 /\ Code(glyph)[1] = dash /\ Code(glyph)[2] = dot /\
              Code(glyph)[3] = dot /\ Code(glyph)[4] = dot
            => GoesOn(glyph, 4, FifthSymbol(<<dash, dot, dot, dot>>))
  <2>1. \A glyph \in Coded :
           Len(Code(glyph)) >= 4 /\ Code(glyph)[1] = dash /\ Code(glyph)[2] = dot /\
                 Code(glyph)[3] = dot /\ Code(glyph)[4] = dot =>
              glyph \in {"B", "6"}
    BY Lengths, Columns DEF Coded, dot, dash
  <2>2. \A glyph \in {"B", "6"} : GoesOn(glyph, 4, FifthSymbol(<<dash, dot, dot, dot>>))
    <3>1. FifthSymbol(<<dash, dot, dot, dot>>) = [dot |-> {"6"}, dash |-> {}]
      BY DEF FifthSymbol, dot, dash
    <3>2. Len(Code("B")) = 4 /\ Len(Code("6")) = 5 /\ Code("6")[5] = dot
      BY Lengths, Columns
    <3> QED BY <3>1, <3>2 DEF GoesOn, dot, dash
  <2> QED BY <2>1, <2>2
<1>10. \A glyph \in Coded :
        Len(Code(glyph)) >= 4 /\ Code(glyph)[1] = dash /\ Code(glyph)[2] = dot /\
              Code(glyph)[3] = dot /\ Code(glyph)[4] = dash
            => GoesOn(glyph, 4, FifthSymbol(<<dash, dot, dot, dash>>))
  BY Lengths, Columns DEF Coded, GoesOn, FifthSymbol, dot, dash
<1>11. \A glyph \in Coded :
        Len(Code(glyph)) >= 4 /\ Code(glyph)[1] = dash /\ Code(glyph)[2] = dot /\
              Code(glyph)[3] = dash /\ Code(glyph)[4] = dot
            => GoesOn(glyph, 4, FifthSymbol(<<dash, dot, dash, dot>>))
  BY Lengths, Columns DEF Coded, GoesOn, FifthSymbol, dot, dash
<1>12. \A glyph \in Coded :
        Len(Code(glyph)) >= 4 /\ Code(glyph)[1] = dash /\ Code(glyph)[2] = dot /\
              Code(glyph)[3] = dash /\ Code(glyph)[4] = dash
            => GoesOn(glyph, 4, FifthSymbol(<<dash, dot, dash, dash>>))
  BY Lengths, Columns DEF Coded, GoesOn, FifthSymbol, dot, dash
<1>13. \A glyph \in Coded :
        Len(Code(glyph)) >= 4 /\ Code(glyph)[1] = dash /\ Code(glyph)[2] = dash /\
              Code(glyph)[3] = dot /\ Code(glyph)[4] = dot
            => GoesOn(glyph, 4, FifthSymbol(<<dash, dash, dot, dot>>))
  BY Lengths, Columns DEF Coded, GoesOn, FifthSymbol, dot, dash
<1>14. \A glyph \in Coded :
        Len(Code(glyph)) >= 4 /\ Code(glyph)[1] = dash /\ Code(glyph)[2] = dash /\
              Code(glyph)[3] = dot /\ Code(glyph)[4] = dash
            => GoesOn(glyph, 4, FifthSymbol(<<dash, dash, dot, dash>>))
  BY Lengths, Columns DEF Coded, GoesOn, FifthSymbol, dot, dash
<1>15. \A glyph \in Coded :
        Len(Code(glyph)) >= 4 /\ Code(glyph)[1] = dash /\ Code(glyph)[2] = dash /\
              Code(glyph)[3] = dash /\ Code(glyph)[4] = dot
            => GoesOn(glyph, 4, FifthSymbol(<<dash, dash, dash, dot>>))
  BY Lengths, Columns, CodedGlyphs DEF Coded, GoesOn, FifthSymbol, dot, dash
<1>16. \A glyph \in Coded :
        Len(Code(glyph)) >= 4 /\ Code(glyph)[1] = dash /\ Code(glyph)[2] = dash /\
              Code(glyph)[3] = dash /\ Code(glyph)[4] = dash
            => GoesOn(glyph, 4, FifthSymbol(<<dash, dash, dash, dash>>))
  BY Lengths, Columns DEF Coded, GoesOn, FifthSymbol, dot, dash
<1> QED BY <1>1, <1>2, <1>3, <1>4, <1>5, <1>6, <1>7, <1>8, <1>9, <1>10, <1>11, <1>12,
        <1>13, <1>14, <1>15, <1>16


\* At every place of the tree the branch that is taken is the next symbol.
LEMMA TreeIsRight ==
    ASSUME NEW glyph \in Coded, NEW sent \in Seq({dot, dash}), OnPath(glyph, sent)
    PROVE  GoesOn(glyph, Len(sent), SymbolAfter(sent))
<1>1. /\ Len(sent) \in 0 .. 5 /\ Len(Code(glyph)) >= Len(sent)
      /\ \A i \in 1 .. Len(sent) : sent[i] \in {dot, dash} /\ Code(glyph)[i] = sent[i]
  <2> DEFINE sentLength == Len(sent)
             codeLength == Len(Code(glyph))
  <2>1. codeLength \in 1 .. 5 /\ sentLength \in Nat /\ sentLength <= codeLength
    BY CodeType DEF OnPath
  <2>2. sentLength \in 0 .. 5 /\ codeLength >= sentLength
    <3> HIDE DEF sentLength, codeLength
    <3> QED BY <2>1
  <2>3. \A i \in 1 .. Len(sent) : sent[i] \in {dot, dash} /\ Code(glyph)[i] = sent[i]
    BY DEF OnPath
  <2> QED BY <2>2, <2>3
<1>2. CASE Len(sent) = 0
  BY <1>2, FirstIsRight DEF SymbolAfter
<1>3. CASE Len(sent) = 1
  <2>1. sent = <<sent[1]>>
    BY <1>3
  <2>2. GoesOn(glyph, 1, SecondSymbol(<<sent[1]>>))
    BY <1>1, <1>3, SecondIsRight
  <2> QED BY <1>3, <2>1, <2>2 DEF SymbolAfter
<1>4. CASE Len(sent) = 2
  <2>1. sent = <<sent[1], sent[2]>>
    BY <1>4
  <2>2. GoesOn(glyph, 2, ThirdSymbol(<<sent[1], sent[2]>>))
    <3>1. /\ sent[1] \in {dot, dash} /\ Code(glyph)[1] = sent[1]
          /\ sent[2] \in {dot, dash} /\ Code(glyph)[2] = sent[2]
          /\ Len(Code(glyph)) >= 2
      BY <1>1, <1>4
    <3> QED BY <3>1, ThirdIsRight
  <2> QED BY <1>4, <2>1, <2>2 DEF SymbolAfter
<1>5. CASE Len(sent) = 3
  <2>1. sent = <<sent[1], sent[2], sent[3]>>
    BY <1>5
  <2>2. GoesOn(glyph, 3, FourthSymbol(<<sent[1], sent[2], sent[3]>>))
    <3>1. /\ sent[1] \in {dot, dash} /\ Code(glyph)[1] = sent[1]
          /\ sent[2] \in {dot, dash} /\ Code(glyph)[2] = sent[2]
          /\ sent[3] \in {dot, dash} /\ Code(glyph)[3] = sent[3]
          /\ Len(Code(glyph)) >= 3
      BY <1>1, <1>5
    <3> QED BY <3>1, FourthIsRight
  <2> QED BY <1>5, <2>1, <2>2 DEF SymbolAfter
<1>6. CASE Len(sent) = 4
  <2>1. sent = <<sent[1], sent[2], sent[3], sent[4]>>
    BY <1>6
  <2>2. GoesOn(glyph, 4, FifthSymbol(<<sent[1], sent[2], sent[3], sent[4]>>))
    <3>1. /\ sent[1] \in {dot, dash} /\ Code(glyph)[1] = sent[1]
          /\ sent[2] \in {dot, dash} /\ Code(glyph)[2] = sent[2]
          /\ sent[3] \in {dot, dash} /\ Code(glyph)[3] = sent[3]
          /\ sent[4] \in {dot, dash} /\ Code(glyph)[4] = sent[4]
          /\ Len(Code(glyph)) >= 4
      BY <1>1, <1>6
    <3> QED BY <3>1, FifthIsRight
  <2> QED BY <1>6, <2>1, <2>2 DEF SymbolAfter
<1>7. CASE Len(sent) = 5
  <2>1. SymbolAfter(sent) = [dot |-> {}, dash |-> {}] /\ Len(Code(glyph)) = 5
    BY <1>1, <1>7, CodeType DEF SymbolAfter
  <2> QED BY <1>7, <2>1 DEF GoesOn
<1> QED BY <1>1, <1>2, <1>3, <1>4, <1>5, <1>6, <1>7

\* The whole code has been sent when it is as long as what was sent.
LEMMA WholeCode ==
    ASSUME NEW glyph \in Coded, NEW sent \in Seq({dot, dash}), OnPath(glyph, sent),
           ~(Len(sent) < Len(Code(glyph)))
    PROVE  sent = Code(glyph)
<1>1. /\ Len(sent) = Len(Code(glyph)) /\ Code(glyph) \in Seq({dot, dash})
      /\ \A i \in 1 .. Len(sent) : sent[i] = Code(glyph)[i]
  BY CodeType DEF OnPath
<1> QED BY <1>1

-----------------------------------------------------------------------------
(* The invariant.                                                          *)

\* The periods that have passed in the state that waits for the counter.
Elapsed ==
    CASE unitNbCounter = 0 -> 0
      [] unitNbCounter = 1 -> unitCounter - 1
      [] unitNbCounter = 2 -> unitCountDivide + unitCounter
      [] unitNbCounter = 3 -> 2 * unitCountDivide + 1 + unitCounter

\* The first unit begins with the period 1.
FirstUnit == unitNbCounter = 1 => unitCounter >= 1

\* The sender that is at work, or one of the two if none is.
Present == IF dashSMActive THEN presentDash ELSE presentDot

\* The symbols are the beginning of the character's code, and a character that
\* has none is on the way to its pause.
Spelling ==
    /\ presentChar \in {"send", "same"} =>
          symbols # <<>> /\ Glyph(char) # none /\ OnPath(Glyph(char), symbols)
    /\ presentChar \notin {"send", "same"} => symbols = <<>>
    /\ presentChar \in {"waitWordChar", "waitWordCharSpacer"} => Glyph(char) = none

\* What was heard is all but the symbol that is being sent.
Remembered == symbols = Append(letter, Last(symbols))

\* The silence before a mark: at the first mark of a letter it is long enough for
\* the end of the letter before, at another one it is not.
Between(longest) ==
    /\ mark = 0
    /\ \/ Len(symbols) = 1 /\ silence >= 2 * unitCountDivide
       \/ Remembered /\ silence <= longest

\* What the listener hears of a symbol.
SymbolHeard ==
    /\ Present = "waitStart" => Between(unitCountDivide + 3)
    /\ Present = "sendStart" => Between(unitCountDivide + 4)
    /\ Present = "sendWait" /\ Elapsed = 0 => Between(unitCountDivide + 5)
    /\ Present = "sendWait" /\ Elapsed > 0 => mark = Elapsed /\ silence = 0 /\ Remembered
    /\ Present = "spacerStart" =>
          /\ mark = IF Last(symbols) = dash THEN 3 * unitCountDivide + 2 ELSE unitCountDivide
          /\ silence = 0 /\ Remembered
    /\ Present = "spacerWait" => mark = 0 /\ silence = 1 + Elapsed /\ letter = symbols
    /\ Present = "end" => mark = 0 /\ silence = unitCountDivide + 1 /\ letter = symbols

\* What the listener hears around it.
PauseHeard ==
    /\ presentChar \in {"waitForChar", "storeChar", "waitWordChar"} =>
          mark = 0 /\ silence >= 3 * unitCountDivide
    /\ presentChar = "waitWordCharSpacer" =>
          mark = 0 /\ silence >= 3 * unitCountDivide + Elapsed
    /\ presentChar = "endOfChar" =>
          /\ mark = 0
          /\ Glyph(char) = none => silence >= 5 * unitCountDivide
          /\ Glyph(char) # none => letter = Code(Glyph(char)) /\
                silence = unitCountDivide + 2
    /\ presentChar = "sendSpacerWaitChar" =>
          /\ mark = 0
          /\ Glyph(char) = none => silence >= 5 * unitCountDivide + Elapsed
          /\ Glyph(char) # none =>
                letter = Code(Glyph(char)) /\ silence = unitCountDivide + 3 + Elapsed
    /\ presentChar = "getNextChar" =>
          /\ mark = 0 /\ silence >= 3 * unitCountDivide
          /\ Glyph(char) = none => silence >= 7 * unitCountDivide
          /\ Glyph(char) # none => letter = Code(Glyph(char))
    /\ presentChar = "same" => Between(unitCountDivide + 2)
    /\ presentChar = "send" => SymbolHeard

ListenerType ==
    mark \in Nat /\ silence \in 0 .. SilenceBound /\ letter \in Seq({dot, dash})

ListenerInv == Inv /\ ListenerType /\ FirstUnit /\ Spelling /\ PauseHeard

-----------------------------------------------------------------------------
(* The character machine.                                                  *)

LEMMA GlyphOfChar ==
    ASSUME TypeOK
    PROVE  Glyph(char) \in Coded \union {none}
<1>1. char \in Nat
  BY CharactersAssumption DEF TypeOK
<1> QED BY <1>1, GlyphType

LEMMA Appended ==
    ASSUME NEW sent \in Seq({dot, dash}), NEW symbol \in {dot, dash}
    PROVE  /\ Append(sent, symbol) \in Seq({dot, dash}) \ {<<>>}
           /\ Len(Append(sent, symbol)) = Len(sent) + 1
           /\ Last(Append(sent, symbol)) = symbol
           /\ \A i \in 1 .. Len(sent) : Append(sent, symbol)[i] = sent[i]
           /\ Append(sent, symbol)[Len(sent) + 1] = symbol
BY DEF Last

\* The end of a symbol: the next symbol of the code or, behind its last, the end
\* of the character. The branch that keeps the state is never taken.
LEMMA AdvanceSpells ==
    ASSUME TypeOK, Advance, Glyph(char) # none, OnPath(Glyph(char), symbols)
    PROVE  \/ \E symbol \in {dot, dash} :
                SendNext(symbol) /\ OnPath(Glyph(char), Append(symbols, symbol))
           \/ Goto("endOfChar") /\ symbols = Code(Glyph(char)) /\ symbols # <<>>
<1> DEFINE glyph == Glyph(char)
           next == SymbolAfter(symbols)
<1>1. glyph \in Coded /\ symbols \in Seq({dot, dash})
  BY GlyphOfChar DEF TypeOK
<1>2. GoesOn(glyph, Len(symbols), next)
  BY <1>1, TreeIsRight
<1>3. ASSUME NEW symbol \in {dot, dash}, Len(symbols) < Len(Code(glyph)),
             Code(glyph)[Len(symbols) + 1] = symbol
      PROVE  OnPath(glyph, Append(symbols, symbol))
  <2>1. Len(Append(symbols, symbol)) <= Len(Code(glyph))
    BY <1>1, <1>3, CodeType, Appended
  <2>2. \A i \in 1 .. Len(symbols) + 1 : Append(symbols, symbol)[i] = Code(glyph)[i]
    BY <1>1, <1>3, Appended DEF OnPath
  <2> QED BY <1>1, <2>1, <2>2, Appended DEF OnPath
<1>4. CASE glyph \in next.dot
  <2>1. SendNext(dot)
    BY <1>4 DEF Advance
  <2> QED BY <1>2, <1>3, <1>4, <2>1 DEF GoesOn
<1>5. CASE glyph \notin next.dot /\ glyph \in next.dash
  <2>1. SendNext(dash)
    BY <1>5 DEF Advance
  <2> QED BY <1>2, <1>3, <1>5, <2>1 DEF GoesOn
<1>6. CASE glyph \notin next.dot /\ glyph \notin next.dash
  <2>1. ~(Len(symbols) < Len(Code(glyph)))
    <3>1. Len(symbols) < Len(Code(glyph)) => Code(glyph)[Len(symbols) + 1] \in {dot, dash}
      BY <1>1, CodeType
    <3> QED BY <1>2, <1>6, <3>1 DEF GoesOn
  <2>2. symbols = Code(glyph)
    BY <1>1, <2>1, WholeCode
  <2>3. symbols # <<>> /\ symbols # <<dash, dash, dash, dash>>
    BY <1>1, <2>2, CodeType
  <2>4. Goto("endOfChar")
    BY <1>6, <2>3 DEF Advance
  <2> QED BY <2>2, <2>3, <2>4
<1> QED BY <1>4, <1>5, <1>6

\* A character without a code goes to its pause.
LEMMA AdvanceSpaces ==
    ASSUME Advance, Glyph(char) = none, symbols = <<>>
    PROVE  Goto("waitWordChar")
<1>1. SymbolAfter(symbols) = FirstSymbol
  BY DEF SymbolAfter
<1>2. none \notin FirstSymbol.dot /\ none \notin FirstSymbol.dash
  BY DEF FirstSymbol, none
<1> QED BY <1>1, <1>2 DEF Advance

\* The character stays the same while it is spelled.
LEMMA SpellingStep ==
    ASSUME Inv, Spelling, Circuit, Held
    PROVE  /\ Spelling'
           /\ presentChar \notin {"waitForChar", "getNextChar"} =>
                 Glyph(char)' = Glyph(char)
           /\ presentChar = "storeChar" /\ Glyph(char) # none => Len(symbols') = 1
<1>0. /\ TypeOK /\ nxt_Charstate /\ presentChar \in CharStates /\ symbols \in Seq({dot,
        dash})
      /\ presentChar \notin {"waitForChar", "getNextChar"} => Glyph(char)' = Glyph(char)
  BY DEF Inv, TypeOK, Circuit, Held
<1>1. CASE presentChar = "storeChar" /\ Glyph(char) = none
  <2>1. Advance /\ symbols = <<>>
    BY <1>0, <1>1 DEF nxt_Charstate, Spelling
  <2>2. Goto("waitWordChar")
    BY <1>1, <2>1, AdvanceSpaces
  <2> QED BY <1>0, <1>1, <2>2 DEF Goto, Spelling
<1>2. CASE \/ presentChar = "send" /\ ((sendDot /\ dotSent) \/ (sendDash /\ dashSent))
           \/ presentChar = "storeChar" /\ Glyph(char) # none
  <2>1. Advance /\ Glyph(char) # none
    <3>1. CASE presentChar = "storeChar"
      BY <1>0, <1>2, <3>1 DEF nxt_Charstate
    <3>2. CASE presentChar = "send"
      BY <1>0, <1>2, <3>2 DEF nxt_Charstate, Spelling
    <3> QED BY <1>2, <3>1, <3>2
  <2>2. OnPath(Glyph(char), symbols)
    <3>1. CASE presentChar = "storeChar"
      <4>1. symbols = <<>> /\ Glyph(char) \in Coded
        BY <1>0, <2>1, <3>1, GlyphOfChar DEF Spelling
      <4> QED BY <4>1, CodeType DEF OnPath
    <3>2. CASE presentChar = "send"
      BY <3>2 DEF Spelling
    <3> QED BY <1>2, <3>1, <3>2
  <2>3. CASE Goto("endOfChar") /\ symbols = Code(Glyph(char)) /\ symbols # <<>>
    BY <1>0, <1>2, <2>3 DEF Goto, Spelling
  <2>4. ASSUME NEW symbol \in {dot, dash}, SendNext(symbol),
               OnPath(Glyph(char), Append(symbols, symbol))
        PROVE  /\ Spelling'
               /\ presentChar = "storeChar" /\ Glyph(char) # none => Len(symbols') = 1
    <3>1. /\ symbols' = Append(symbols, symbol) /\ symbols' # <<>> /\
            Len(symbols') = Len(symbols) + 1
          /\ presentChar' \in {"send", "same"}
      BY <1>0, <2>4, Appended DEF SendNext
    <3>2. Glyph(char)' = Glyph(char)
      BY <1>0, <1>2
    <3>3. OnPath(Glyph(char), symbols)'
      BY <2>4, <3>1, <3>2 DEF OnPath
    <3>4. Spelling'
      BY <2>1, <3>1, <3>2, <3>3 DEF Spelling
    <3> QED BY <3>1, <3>4 DEF Spelling
  <2> QED BY <1>0, <2>1, <2>2, <2>3, <2>4, AdvanceSpells
<1>3. CASE presentChar = "send" /\ ~((sendDot /\ dotSent) \/ (sendDash /\ dashSent))
  <2>1. UNCHANGED <<presentChar, symbols>>
    BY <1>0, <1>3 DEF nxt_Charstate, Remain
  <2> QED BY <1>0, <1>3, <2>1 DEF Spelling, OnPath
<1>4. CASE presentChar = "same"
  <2>1. presentChar' = "send" /\ UNCHANGED symbols
    BY <1>0, <1>4 DEF nxt_Charstate
  <2> QED BY <1>0, <1>4, <2>1 DEF Spelling, OnPath
<1>5. CASE presentChar \in {"waitForChar", "waitWordChar", "endOfChar", "getNextChar",
                            "waitWordCharSpacer", "sendSpacerWaitChar"}
  BY <1>0, <1>5 DEF nxt_Charstate, Goto, Remain, Spelling
<1>6. presentChar \in {"waitForChar", "storeChar", "send", "same", "waitWordChar",
        "endOfChar",
                     "getNextChar", "waitWordCharSpacer", "sendSpacerWaitChar"}
  BY <1>0 DEF CharStates
<1>7. CASE presentChar = "storeChar"
  BY <1>1, <1>2, <1>7
<1>8. CASE presentChar = "send"
  BY <1>2, <1>3, <1>8
<1> QED BY <1>4, <1>5, <1>6, <1>7, <1>8

-----------------------------------------------------------------------------
(* The counter.                                                            *)

\* The counter counts the periods in the state that waits for it, and is done in
\* the last one of the units that were asked for.
LEMMA ElapsedStep ==
    ASSUME Inv, FirstUnit, Circuit
    PROVE  /\ FirstUnit'
           /\ startCounter => Elapsed' = 0
           /\ Waiting => Elapsed \in Nat
           /\ Waiting /\ ~counterDone => Elapsed' = Elapsed + 1
           /\ Waiting /\ counterDone /\ unitNb = 1 => Elapsed = unitCountDivide - 1
           /\ Waiting /\ counterDone /\ unitNb = 2 => Elapsed = 2 * unitCountDivide
           /\ Waiting /\ counterDone /\ unitNb = 3 => Elapsed = 3 * unitCountDivide + 1
           /\ Waiting /\ unitNb = 1 => Elapsed <= unitCountDivide - 1
           /\ Waiting /\ ~counterDone /\ unitNb = 2 => Elapsed < 2 * unitCountDivide
<1>1. /\ unitCounter \in 0 .. unitCountDivide /\ unitNbCounter \in 0 .. 3 /\
        unitNb \in 0 .. 3
      /\ unitCountDivide \in Nat /\ unitCountDivide >= 6
      /\ Waiting <=> unitNbCounter > 0
      /\ unitNbCounter = 0 => unitCounter = 0
      /\ Waiting => unitNbCounter <= unitNb
      /\ startCounter => unitNbCounter = 0
      /\ unitNbCounter = 1 => unitCounter >= 1
  BY UnitNbType, InvMachines, UnitAssumption, ListenerAssumption
  DEF Inv, TypeOK, CounterServes, OneMachineAtATime, FirstUnit
<1>2. CASE unitNbCounter = 0
  <2>1. /\ startCounter => unitNbCounter' = 1 /\ unitCounter' = 1
        /\ ~startCounter => unitNbCounter' = 0
    BY <1>1, <1>2 DEF Circuit, countUnitDuration, countPeriods
  <2> QED BY <1>1, <1>2, <2>1 DEF FirstUnit, Elapsed
<1>3. CASE unitNbCounter > 0 /\ counterDone
  <2>1. unitNbCounter = unitNb /\ unitCounter = unitCountDivide
    BY <1>3 DEF counterDone, unitCountDone
  <2>2. unitNbCounter' = 0
    BY <1>1, <1>3 DEF Circuit, countPeriods
  <2> QED BY <1>1, <1>3, <2>1, <2>2 DEF FirstUnit, Elapsed
<1>4. CASE unitNbCounter > 0 /\ ~counterDone
  <2>1. CASE unitCounter = unitCountDivide
    <3>1. unitNbCounter # unitNb
      BY <1>4, <2>1 DEF counterDone, unitCountDone
    <3>2. unitNbCounter' = unitNbCounter + 1 /\ unitCounter' = 0
      BY <1>1, <1>4, <2>1, <3>1 DEF Circuit, countPeriods, countUnitDuration, unitCountDone
    <3> QED BY <1>1, <1>4, <2>1, <3>1, <3>2 DEF FirstUnit, Elapsed
  <2>2. CASE unitCounter # unitCountDivide
    <3>1. unitNbCounter' = unitNbCounter /\ unitCounter' = unitCounter + 1
      BY <1>1, <1>4, <2>2 DEF Circuit, countPeriods, countUnitDuration, unitCountDone
    <3> QED BY <1>1, <1>4, <2>2, <3>1 DEF FirstUnit, Elapsed
  <2> QED BY <2>1, <2>2
<1> QED BY <1>1, <1>2, <1>3, <1>4

-----------------------------------------------------------------------------
(* The senders.                                                            *)

\* What the sender at work means for the line and the counter.
LEMMA AtWork ==
    ASSUME Inv, Spelling, presentChar = "send"
    PROVE  /\ Present \in SenderStates
           /\ morseOut <=> Present = "sendWait"
           /\ Waiting <=> Present \in {"sendWait", "spacerWait"}
           /\ Present \in {"sendStart", "spacerStart"} => startCounter
           /\ Present = "sendWait" => unitNb = IF Last(symbols) = dash THEN 3 ELSE 1
           /\ Present = "spacerWait" => unitNb = 1
           /\ (sendDot /\ dotSent) \/ (sendDash /\ dashSent) <=> Present = "end"
<1>1. Last(symbols) \in {dot, dash}
  <2>1. symbols \in Seq({dot, dash}) /\ symbols # <<>>
    BY DEF Inv, TypeOK, Spelling
  <2> QED BY <2>1 DEF Last
<1>2. presentDot \in SenderStates /\ presentDash \in SenderStates
  BY DEF Inv, TypeOK
<1>3. CASE Last(symbols) = dot
  <2>1. presentDash = "waitStart" /\ sendDot /\ ~sendDash /\ Last(symbols) # dash
    BY <1>3, OneSymbol DEF Inv, SendersObey, dashSMActive, sendDot, sendDash, dot, dash
  <2>2. Present = presentDot
    BY <2>1 DEF Present, dashSMActive
  <2> QED BY <1>2, <2>1, <2>2 DEF morseOut, Waiting, startCounter, unitNb, SpacerUnits,
        dotSMActive, dashSMActive, dotSent, dashSent, SenderStates
<1>4. CASE Last(symbols) = dash
  <2>1. presentDot = "waitStart" /\ sendDash /\ ~sendDot
    BY <1>4, OneSymbol DEF Inv, SendersObey, dotSMActive, sendDot, sendDash
  <2>2. Present = presentDash
    BY <2>1 DEF Present, dashSMActive
  <2> QED BY <1>2, <1>4, <2>1, <2>2 DEF morseOut, Waiting, startCounter, unitNb,
          SpacerUnits,
        dotSMActive, dashSMActive, dotSent, dashSent, SenderStates
<1> QED BY <1>1, <1>3, <1>4

\* Nothing is at work while no symbol is asked for.
LEMMA AtRest ==
    ASSUME Inv, presentChar # "send"
    PROVE  /\ Present = "waitStart" /\ presentDot = "waitStart" /\ presentDash = "waitStart"
           /\ ~morseOut
           /\ Waiting <=> presentChar \in {"waitWordCharSpacer", "sendSpacerWaitChar"}
           /\ startCounter <=> presentChar \in {"waitWordChar", "endOfChar"}
           /\ Waiting => unitNb = 2
<1>1. presentDot = "waitStart" /\ presentDash = "waitStart"
  BY DEF Inv, SendersObey, dotSMActive, dashSMActive, sendDot, sendDash
<1> QED BY <1>1 DEF Present, morseOut, Waiting, startCounter, unitNb, dotSMActive,
        dashSMActive

\* How the sender at work goes on.
LEMMA SenderStep ==
    ASSUME Inv, Inv', Spelling, Circuit, presentChar = "send"
    PROVE  /\ Present' = NextSender(Present, TRUE, counterDone)
           /\ Present # "end" => UNCHANGED <<presentChar, symbols>>
           /\ Present = "end" => Advance
<1>1. Last(symbols) \in {dot, dash} /\ nxt_Charstate
  <2>1. symbols \in Seq({dot, dash}) /\ symbols # <<>>
    BY DEF Inv, TypeOK, Spelling
  <2> QED BY <2>1 DEF Last, Circuit
<1>2. /\ Present # "end" => UNCHANGED <<presentChar, symbols>>
      /\ Present = "end" => Advance
  BY <1>1, AtWork DEF nxt_Charstate, Remain
<1>3. CASE Last(symbols) = dot
  <2>1. presentDash = "waitStart" /\ sendDot /\ ~sendDash
    BY <1>3, OneSymbol DEF Inv, SendersObey, dashSMActive, sendDot, sendDash
  <2>2. presentDash' = "waitStart" /\ presentDot' = NextSender(presentDot, TRUE,
          counterDone)
    BY <2>1 DEF Circuit, NextSender
  <2> QED BY <1>2, <2>1, <2>2 DEF Present, dashSMActive
<1>4. CASE Last(symbols) = dash
  <2>1. presentDot = "waitStart" /\ sendDash /\ ~sendDot
    BY <1>4, OneSymbol DEF Inv, SendersObey, dotSMActive, sendDot, sendDash
  <2>2. presentDot' = "waitStart" /\ presentDash' = NextSender(presentDash, TRUE,
          counterDone)
    BY <2>1 DEF Circuit, NextSender
  <2> QED BY <1>2, <2>1, <2>2 DEF Present, dashSMActive
<1> QED BY <1>1, <1>3, <1>4

-----------------------------------------------------------------------------
(* The listener.                                                           *)

LEMMA UnitLength == unitCountDivide \in Nat /\ unitCountDivide >= 6
BY UnitAssumption, ListenerAssumption

LEMMA ListenType ==
    ASSUME ListenerType, Listen
    PROVE  ListenerType'
<1>1. mark' \in Nat
  BY DEF Listen, ListenerType
<1>2. silence' \in 0 .. SilenceBound
  <2>1. silence \in 0 .. SilenceBound /\ SilenceBound \in Nat
    BY UnitLength DEF ListenerType, SilenceBound
  <2>2. \/ silence' = 0
        \/ silence < SilenceBound /\ silence' = silence + 1
        \/ silence' = silence
    BY <2>1 DEF Listen
  <2> QED BY <2>1, <2>2
<1>3. letter' \in Seq({dot, dash})
  <2>1. \/ letter' = <<>>
        \/ letter' = Append(letter, IF mark >= 2 * unitCountDivide THEN dash ELSE dot)
        \/ letter' = letter
    BY DEF Listen
  <2>2. <<>> \in Seq({dot, dash}) /\ letter \in Seq({dot, dash})
    BY DEF ListenerType
  <2>3. \A symbol \in {dot, dash} : Append(letter, symbol) \in Seq({dot, dash})
    BY <2>2
  <2> QED BY <2>1, <2>2, <2>3
<1> QED BY <1>1, <1>2, <1>3 DEF ListenerType

\* A period of silence behind another one.
LEMMA QuietStep ==
    ASSUME ListenerType, Listen, ~morseOut, mark = 0
    PROVE  /\ mark' = 0
           /\ silence' >= silence
           /\ silence < SilenceBound => silence' = silence + 1
           /\ silence < 4 * unitCountDivide => letter' = letter
<1>1. mark' = 0 /\ silence' = IF silence < SilenceBound THEN silence + 1 ELSE silence
  BY UnitLength DEF Listen, ListenerType, SilenceBound
<1>2. letter' = IF silence >= 4 * unitCountDivide THEN <<>> ELSE letter
  BY DEF Listen
<1> QED BY <1>1, <1>2, UnitLength DEF ListenerType, SilenceBound

\* The silence before a mark gets longer by a period.
LEMMA BetweenStep ==
    ASSUME ListenerType, Listen, ~morseOut, NEW longest \in Nat, Between(longest),
           longest < 4 * unitCountDivide, UNCHANGED symbols
    PROVE  Between(longest + 1)'
<1>1. /\ silence \in 0 .. SilenceBound /\ mark = 0 /\ mark' = 0 /\ silence' >= silence
      /\ silence' \in 0 .. SilenceBound
  BY QuietStep, ListenType DEF Between, ListenerType
<1>2. CASE Len(symbols) = 1 /\ silence >= 2 * unitCountDivide
  BY <1>1, <1>2, UnitLength DEF Between, SilenceBound
<1>3. CASE Remembered /\ silence <= longest
  <2>1. silence' = silence + 1 /\ letter' = letter
    BY <1>1, <1>3, QuietStep, UnitLength DEF Between, SilenceBound
  <2> QED BY <1>1, <1>3, <2>1 DEF Between, Remembered
<1> QED BY <1>2, <1>3 DEF Between

\* The first period of a mark: a long silence is the end of the letter before.
LEMMA MarkBegins ==
    ASSUME TypeOK, ListenerType, Listen, morseOut, Between(unitCountDivide + 5),
           symbols # <<>>, UNCHANGED symbols
    PROVE  mark' = 1 /\ silence' = 0 /\ Remembered'
<1>1. mark' = 1 /\ silence' = 0
  BY DEF Listen, Between
<1>2. CASE silence >= 2 * unitCountDivide
  <2>1. letter' = <<>>
    BY <1>2 DEF Listen
  <2>2. ~(silence <= unitCountDivide + 5)
    BY <1>2, UnitLength DEF ListenerType
  <2>3. Len(symbols) = 1
    BY <2>2 DEF Between
  <2>4. symbols \in Seq({dot, dash})
    BY DEF TypeOK
  <2>5. symbols = Append(<<>>, Last(symbols))
    BY <2>3, <2>4 DEF Last
  <2> QED BY <1>1, <2>1, <2>5 DEF Remembered
<1>3. CASE ~(silence >= 2 * unitCountDivide)
  <2>1. letter' = letter
    BY <1>3 DEF Listen
  <2> QED BY <1>1, <1>3, <2>1 DEF Between, Remembered
<1> QED BY <1>2, <1>3

\* Another period of it.
LEMMA MarkGoesOn ==
    ASSUME ListenerType, Listen, morseOut, mark > 0, silence = 0
    PROVE  mark' = mark + 1 /\ silence' = 0 /\ letter' = letter
<1>1. mark' = mark + 1 /\ silence' = 0
  BY DEF Listen
<1>2. letter' = letter
  BY UnitLength DEF Listen
<1> QED BY <1>1, <1>2

\* The first period behind it: the listener knows which symbol it was.
LEMMA MarkEnds ==
    ASSUME TypeOK, ListenerType, Listen, ~morseOut, silence = 0, Remembered, symbols # <<>>,
           mark = IF Last(symbols) = dash THEN 3 * unitCountDivide + 2 ELSE unitCountDivide
    PROVE  mark' = 0 /\ silence' = 1 /\ letter' = symbols
<1>1. Last(symbols) \in {dot, dash} /\ symbols \in Seq({dot, dash})
  BY DEF TypeOK, Last
<1>2. mark > 0 /\ ~(silence >= 4 * unitCountDivide)
  BY UnitLength
<1>3. mark >= 2 * unitCountDivide <=> Last(symbols) = dash
  BY UnitLength
<1>4. letter' = Append(letter, IF mark >= 2 * unitCountDivide THEN dash ELSE dot)
  BY <1>2 DEF Listen
<1>5. letter' = symbols
  BY <1>1, <1>3, <1>4 DEF Remembered
<1>6. mark' = 0 /\ silence' = 1
  BY UnitLength DEF Listen, SilenceBound
<1> QED BY <1>5, <1>6

-----------------------------------------------------------------------------
(* The invariant is inductive.                                             *)

\* A step of a symbol that is on its way.
LEMMA SymbolStep ==
    ASSUME Inv, Inv', ListenerType, FirstUnit, Spelling, SymbolHeard, Circuit, Listen,
           presentChar = "send", Present # "end"
    PROVE  presentChar' = "send" /\ UNCHANGED symbols /\ SymbolHeard'
<1>1. /\ UNCHANGED <<presentChar, symbols>>
      /\ Present' = NextSender(Present, TRUE, counterDone)
  BY SenderStep
<1>2. TypeOK /\ symbols # <<>> /\ SenderStates' = SenderStates
  BY DEF Inv, Spelling
<1>3. CASE Present = "waitStart"
  <2>1. Present' = "sendStart"
    BY <1>1, <1>3 DEF NextSender
  <2>2. ~morseOut /\ Between(unitCountDivide + 3)
    BY <1>3, AtWork DEF SymbolHeard
  <2>3. Between(unitCountDivide + 3 + 1)'
    BY <1>1, <2>2, BetweenStep, UnitLength
  <2>4. Between(unitCountDivide + 4)'
    BY <2>3, UnitLength DEF Between
  <2> QED BY <1>1, <1>3, <2>1, <2>4 DEF SymbolHeard
<1>4. CASE Present = "sendStart"
  <2>1. Present' = "sendWait"
    BY <1>1, <1>4 DEF NextSender
  <2>2. ~morseOut /\ startCounter /\ Between(unitCountDivide + 4)
    BY <1>4, AtWork DEF SymbolHeard
  <2>3. Between(unitCountDivide + 4 + 1)'
    BY <1>1, <2>2, BetweenStep, UnitLength
  <2>4. Between(unitCountDivide + 5)' /\ Elapsed' = 0
    BY <2>2, <2>3, UnitLength, ElapsedStep DEF Between
  <2>5. SymbolHeard'
    BY <2>1, <2>4 DEF SymbolHeard
  <2> QED BY <1>1, <2>5
<1>5. CASE Present = "sendWait" /\ ~counterDone
  <2>1. Present' = "sendWait"
    BY <1>1, <1>5 DEF NextSender
  <2>2. morseOut /\ Elapsed \in Nat /\ Elapsed' = Elapsed + 1
    BY <1>5, AtWork, ElapsedStep
  <2>3. CASE Elapsed = 0
    <3>1. mark' = 1 /\ silence' = 0 /\ Remembered'
      BY <1>1, <1>2, <1>5, <2>2, <2>3, MarkBegins DEF SymbolHeard
    <3>2. mark' = Elapsed' /\ ~(Elapsed' = 0)
      BY <2>2, <2>3, <3>1
    <3>3. SymbolHeard'
      BY <2>1, <3>1, <3>2 DEF SymbolHeard
    <3> QED BY <1>1, <3>3
  <2>4. CASE Elapsed > 0
    <3>1. mark = Elapsed /\ silence = 0 /\ Remembered
      BY <1>5, <2>4 DEF SymbolHeard
    <3>2. mark' = mark + 1 /\ silence' = 0 /\ letter' = letter
      BY <2>2, <2>4, <3>1, MarkGoesOn
    <3>3. Remembered' /\ Elapsed' > 0
      BY <1>1, <2>2, <3>1, <3>2 DEF Remembered
    <3>4. mark' = Elapsed' /\ ~(Elapsed' = 0)
      BY <2>2, <2>4, <3>1, <3>2
    <3>5. SymbolHeard'
      BY <2>1, <3>2, <3>3, <3>4 DEF SymbolHeard
    <3> QED BY <1>1, <3>5
  <2> QED BY <2>2, <2>3, <2>4
<1>6. CASE Present = "sendWait" /\ counterDone
  <2>1. Present' = "spacerStart"
    BY <1>1, <1>6 DEF NextSender
  <2>2. morseOut /\ Waiting /\ unitNb = IF Last(symbols) = dash THEN 3 ELSE 1
    BY <1>6, AtWork
  <2>3. Elapsed = IF Last(symbols) = dash THEN 3 * unitCountDivide + 1 ELSE unitCountDivide - 1
    BY <1>6, <2>2, ElapsedStep
  <2>4. Elapsed > 0
    BY <2>3, UnitLength
  <2>5. mark = Elapsed /\ silence = 0 /\ Remembered
    BY <1>6, <2>4 DEF SymbolHeard
  <2>6. mark' = mark + 1 /\ silence' = 0 /\ letter' = letter
    BY <2>2, <2>4, <2>5, MarkGoesOn
  <2>7. Remembered' /\ Last(symbols)' = Last(symbols)
    BY <1>1, <2>5, <2>6 DEF Remembered
  <2>8. mark' = IF Last(symbols) = dash THEN 3 * unitCountDivide + 2 ELSE unitCountDivide
    BY <2>3, <2>5, <2>6, UnitLength
  <2> QED BY <1>1, <2>1, <2>6, <2>7, <2>8 DEF SymbolHeard
<1>7. CASE Present = "spacerStart"
  <2>1. Present' = "spacerWait"
    BY <1>1, <1>7 DEF NextSender
  <2>2. ~morseOut /\ startCounter
    BY <1>7, AtWork
  <2>3. mark' = 0 /\ silence' = 1 /\ letter' = symbols
    BY <1>2, <1>7, <2>2, MarkEnds DEF SymbolHeard
  <2>4. Elapsed' = 0
    BY <2>2, ElapsedStep
  <2>5. silence' = 1 + Elapsed'
    BY <2>3, <2>4
  <2>6. SymbolHeard'
    BY <1>1, <2>1, <2>3, <2>5 DEF SymbolHeard
  <2> QED BY <1>1, <2>6
<1>8. CASE Present = "spacerWait"
  <2>1. /\ ~morseOut /\ Waiting /\ unitNb = 1 /\ Elapsed \in Nat
        /\ Elapsed <= unitCountDivide - 1
        /\ mark = 0 /\ silence = 1 + Elapsed /\ letter = symbols
    BY <1>8, AtWork, ElapsedStep DEF SymbolHeard
  <2>2. mark' = 0 /\ silence' = 2 + Elapsed /\ letter' = symbols
    <3>1. silence < SilenceBound /\ silence < 4 * unitCountDivide
      BY <2>1, UnitLength DEF SilenceBound
    <3> QED BY <2>1, <3>1, QuietStep
  <2>3. CASE counterDone
    <3>1. Present' = "end"
      BY <1>1, <1>8, <2>3 DEF NextSender
    <3>2. silence' = unitCountDivide + 1
      BY <2>1, <2>2, <2>3, ElapsedStep, UnitLength
    <3> QED BY <1>1, <2>2, <3>1, <3>2 DEF SymbolHeard
  <2>4. CASE ~counterDone
    <3>1. Present' = "spacerWait"
      BY <1>1, <1>8, <2>4 DEF NextSender
    <3>2. silence' = 1 + Elapsed'
      BY <2>1, <2>2, <2>4, ElapsedStep
    <3> QED BY <1>1, <2>2, <3>1, <3>2 DEF SymbolHeard
  <2> QED BY <2>3, <2>4
<1> QED BY <1>3, <1>4, <1>5, <1>6, <1>7, <1>8, AtWork DEF SenderStates

\* The last step of a symbol: the next symbol, or the end of the letter.
LEMMA SymbolEnds ==
    ASSUME Inv, Inv', ListenerType, Spelling, Spelling', SymbolHeard, Circuit, Listen,
           presentChar = "send", Present = "end", Glyph(char)' = Glyph(char)
    PROVE  PauseHeard'
<1>1. /\ TypeOK /\ symbols \in Seq({dot, dash}) /\ Glyph(char) # none
      /\ OnPath(Glyph(char), symbols)
  BY DEF Inv, TypeOK, Spelling
<1>2. Advance /\ Present' = "waitStart"
  BY SenderStep DEF NextSender
<1>3. ~morseOut /\ mark = 0 /\ silence = unitCountDivide + 1 /\ letter = symbols
  BY AtWork DEF SymbolHeard
<1>4. mark' = 0 /\ silence' = unitCountDivide + 2 /\ letter' = symbols
  <2>1. silence < SilenceBound /\ silence < 4 * unitCountDivide
    BY <1>3, UnitLength DEF SilenceBound
  <2> QED BY <1>3, <2>1, QuietStep, UnitLength
<1>5. ASSUME NEW symbol \in {dot, dash}, SendNext(symbol)
      PROVE  PauseHeard'
  <2>1. symbols' = Append(symbols, symbol) /\ presentChar' \in {"send", "same"}
    BY <1>5 DEF SendNext
  <2>2. Last(symbols)' = symbol
    BY <1>1, <2>1, Appended
  <2>3. Remembered'
    BY <1>4, <2>1, <2>2 DEF Remembered
  <2>4. Between(unitCountDivide + 2)' /\ Between(unitCountDivide + 3)'
    BY <1>4, <2>3, UnitLength DEF Between
  <2>5. SymbolHeard'
    BY <1>2, <2>4 DEF SymbolHeard
  <2> QED BY <2>1, <2>4, <2>5 DEF PauseHeard
<1>6. CASE Goto("endOfChar") /\ symbols = Code(Glyph(char))
  <2>1. presentChar' = "endOfChar"
    BY <1>6 DEF Goto
  <2> QED BY <1>1, <1>4, <1>6, <2>1 DEF PauseHeard
<1> QED BY <1>1, <1>2, <1>5, <1>6, AdvanceSpells

\* The step to the first symbol of a character, or to its pause.
LEMMA CharBegins ==
    ASSUME Inv, Inv', ListenerType, Spelling, Spelling', PauseHeard, Circuit, Listen,
           presentChar = "storeChar", Glyph(char) # none => Len(symbols') = 1
    PROVE  PauseHeard'
<1>1. TypeOK /\ symbols = <<>> /\ Advance
  BY DEF Inv, Spelling, Circuit, nxt_Charstate
<1>2. mark' = 0 /\ silence' >= 3 * unitCountDivide /\ silence' >= 2 * unitCountDivide
  <2>1. ~morseOut /\ mark = 0 /\ silence >= 3 * unitCountDivide
    BY AtRest DEF PauseHeard
  <2>2. silence \in Nat /\ silence' \in Nat
    BY ListenType, UnitLength DEF ListenerType, SilenceBound
  <2> QED BY <2>1, <2>2, QuietStep, UnitLength
<1>3. CASE Glyph(char) = none
  <2>1. presentChar' = "waitWordChar"
    BY <1>1, <1>3, AdvanceSpaces DEF Goto
  <2> QED BY <1>2, <2>1 DEF PauseHeard
<1>4. CASE Glyph(char) # none
  <2>1. presentChar' \in {"send", "same", "waitWordChar",
          "endOfChar"} \/ presentChar' = "storeChar"
    BY <1>1, AdvanceCases
  <2>2. presentChar' \in {"send", "same"}
    <3>1. symbols' # <<>>
      BY <1>4
    <3> QED BY <2>1, <3>1 DEF Spelling
  <2>3. Between(unitCountDivide + 2)' /\ Between(unitCountDivide + 3)'
    BY <1>2, <1>4 DEF Between
  <2>4. Present' = "waitStart"
    BY AtRest DEF Circuit, NextSender, Present, sendDot, sendDash
  <2>5. SymbolHeard'
    BY <2>3, <2>4 DEF SymbolHeard
  <2> QED BY <2>2, <2>3, <2>5 DEF PauseHeard
<1> QED BY <1>3, <1>4

\* A step of a pause.
LEMMA PauseStep ==
    ASSUME Inv, Inv', ListenerType, FirstUnit, Spelling, PauseHeard, Circuit, Listen,
           presentChar \notin {"send", "storeChar"},
           presentChar \notin {"waitForChar", "getNextChar"} => Glyph(char)' = Glyph(char)
    PROVE  PauseHeard'
<1>1. /\ ~morseOut /\ nxt_Charstate /\ presentChar \in CharStates
      /\ silence \in 0 .. SilenceBound /\ silence' \in 0 .. SilenceBound
      /\ unitCountDivide \in Nat /\ unitCountDivide >= 6 /\
            SilenceBound = 7 * unitCountDivide
  BY AtRest, ListenType, UnitLength DEF Inv, TypeOK, Circuit, ListenerType, SilenceBound
<1>2. mark = 0
  BY <1>1 DEF PauseHeard, Between, CharStates
<1>3. /\ mark' = 0 /\ silence' >= silence
      /\ silence < SilenceBound => silence' = silence + 1
      /\ silence < 4 * unitCountDivide => letter' = letter
  BY <1>1, <1>2, QuietStep
<1>4. CASE presentChar \in {"waitForChar", "getNextChar"}
  <2>1. presentChar' \in {"waitForChar", "storeChar"}
    BY <1>4, <1>1 DEF nxt_Charstate, Goto, Remain
  <2>2. silence >= 3 * unitCountDivide
    BY <1>4 DEF PauseHeard
  <2>3. silence' >= 3 * unitCountDivide
    BY <1>1, <1>3, <2>2
  <2> QED BY <1>3, <2>1, <2>3 DEF PauseHeard
<1>5. CASE presentChar = "same"
  <2>1. presentChar' = "send" /\ UNCHANGED symbols
    BY <1>1, <1>5 DEF nxt_Charstate
  <2>2. Between(unitCountDivide + 2)
    BY <1>5 DEF PauseHeard
  <2>3. Between(unitCountDivide + 2 + 1)'
    BY <1>1, <2>1, <2>2, BetweenStep
  <2>4. Between(unitCountDivide + 3)'
    BY <1>1, <2>3 DEF Between
  <2>5. Present' = "waitStart"
    BY <1>5, AtRest DEF Circuit, NextSender, Present, sendDot, sendDash
  <2>6. SymbolHeard'
    BY <2>4, <2>5 DEF SymbolHeard
  <2> QED BY <2>1, <2>6 DEF PauseHeard
<1>6. CASE presentChar = "waitWordChar"
  <2>1. presentChar' = "waitWordCharSpacer" /\ Elapsed' = 0
    BY <1>1, <1>6, AtRest, ElapsedStep DEF nxt_Charstate, Goto
  <2>2. silence >= 3 * unitCountDivide
    BY <1>6 DEF PauseHeard
  <2>3. silence' >= 3 * unitCountDivide + Elapsed'
    BY <1>1, <1>3, <2>1, <2>2
  <2> QED BY <1>3, <2>1, <2>3 DEF PauseHeard
<1>7. CASE presentChar = "waitWordCharSpacer"
  <2>1. /\ Elapsed \in Nat
        /\ counterDone => Elapsed = 2 * unitCountDivide
        /\ ~counterDone => Elapsed < 2 * unitCountDivide /\ Elapsed' = Elapsed + 1
    BY <1>7, AtRest, ElapsedStep
  <2>2. silence >= 3 * unitCountDivide + Elapsed
    BY <1>7 DEF PauseHeard
  <2>3. CASE counterDone
    <3>1. presentChar' = "endOfChar"
      BY <1>1, <1>7, <2>3 DEF nxt_Charstate, Goto
    <3>2. silence' >= 5 * unitCountDivide
      BY <1>1, <1>3, <2>1, <2>2, <2>3
    <3>3. Glyph(char)' = none
      BY <1>7 DEF Spelling
    <3> QED BY <1>3, <3>1, <3>2, <3>3 DEF PauseHeard
  <2>4. CASE ~counterDone
    <3>1. presentChar' = "waitWordCharSpacer"
      BY <1>1, <1>7, <2>4 DEF nxt_Charstate, Remain
    <3>2. silence' >= 3 * unitCountDivide + Elapsed'
      BY <1>1, <1>3, <2>1, <2>2, <2>4
    <3> QED BY <1>3, <3>1, <3>2 DEF PauseHeard
  <2> QED BY <2>3, <2>4
<1>8. CASE presentChar = "endOfChar"
  <2>1. presentChar' = "sendSpacerWaitChar" /\ Elapsed' = 0 /\ Glyph(char)' = Glyph(char)
    BY <1>1, <1>8, AtRest, ElapsedStep DEF nxt_Charstate, Goto
  <2>2. CASE Glyph(char) = none
    <3>1. silence >= 5 * unitCountDivide
      BY <1>8, <2>2 DEF PauseHeard
    <3>2. silence' >= 5 * unitCountDivide + Elapsed'
      BY <1>1, <1>3, <2>1, <3>1
    <3> QED BY <1>3, <2>1, <2>2, <3>2 DEF PauseHeard
  <2>3. CASE Glyph(char) # none
    <3>1. letter = Code(Glyph(char)) /\ silence = unitCountDivide + 2
      BY <1>8, <2>3 DEF PauseHeard
    <3>2. letter' = letter /\ silence' = unitCountDivide + 3 + Elapsed'
      BY <1>1, <1>3, <2>1, <3>1
    <3> QED BY <1>3, <2>1, <2>3, <3>1, <3>2 DEF PauseHeard
  <2> QED BY <2>2, <2>3
<1>9. CASE presentChar = "sendSpacerWaitChar"
  <2>1. /\ Elapsed \in Nat
        /\ counterDone => Elapsed = 2 * unitCountDivide
        /\ ~counterDone => Elapsed < 2 * unitCountDivide /\ Elapsed' = Elapsed + 1
        /\ Glyph(char)' = Glyph(char)
    BY <1>9, AtRest, ElapsedStep
  <2>2. /\ counterDone => presentChar' = "getNextChar"
        /\ ~counterDone => presentChar' = "sendSpacerWaitChar"
    BY <1>1, <1>9 DEF nxt_Charstate, Goto, Remain
  <2>3. CASE Glyph(char) = none
    <3>1. silence >= 5 * unitCountDivide + Elapsed
      BY <1>9, <2>3 DEF PauseHeard
    <3>2. /\ counterDone => silence' >= 7 * unitCountDivide /\
            silence' >= 3 * unitCountDivide
          /\ ~counterDone => silence' >= 5 * unitCountDivide + Elapsed'
      BY <1>1, <1>3, <2>1, <3>1
    <3> QED BY <1>3, <2>1, <2>2, <2>3, <3>2 DEF PauseHeard
  <2>4. CASE Glyph(char) # none
    <3>1. letter = Code(Glyph(char)) /\ silence = unitCountDivide + 3 + Elapsed
      BY <1>9, <2>4 DEF PauseHeard
    <3>2. silence < 4 * unitCountDivide /\ silence < SilenceBound
      BY <1>1, <2>1, <3>1
    <3>3. /\ letter' = letter
          /\ counterDone => silence' >= 3 * unitCountDivide
          /\ ~counterDone => silence' = unitCountDivide + 3 + Elapsed'
      BY <1>1, <1>3, <2>1, <3>1, <3>2
    <3> QED BY <1>3, <2>1, <2>2, <2>4, <3>1, <3>3 DEF PauseHeard
  <2> QED BY <2>3, <2>4
<1> QED BY <1>1, <1>4, <1>5, <1>6, <1>7, <1>8, <1>9 DEF CharStates

LEMMA ListenerStep == ListenerInv /\ [Next /\ Listen]_listenerVars => ListenerInv'
<1> SUFFICES ASSUME ListenerInv, [Next /\ Listen]_listenerVars PROVE ListenerInv'
  OBVIOUS
<1>1. Inv'
  BY InvStep DEF ListenerInv, listenerVars
<1>2. CASE Next /\ Listen
  <2>1. Circuit /\ Held /\ Inv /\ ListenerType /\ FirstUnit /\ Spelling /\ PauseHeard
    BY <1>2 DEF Next, ListenerInv
  <2>2. ListenerType' /\ FirstUnit'
    BY <1>2, <2>1, ListenType, ElapsedStep
  <2>3. /\ Spelling'
        /\ presentChar \notin {"waitForChar", "getNextChar"} => Glyph(char)' = Glyph(char)
        /\ presentChar = "storeChar" /\ Glyph(char) # none => Len(symbols') = 1
    BY <2>1, SpellingStep
  <2>4. CASE presentChar = "send" /\ Present # "end"
    <3>1. presentChar' = "send" /\ SymbolHeard'
      BY <1>1, <1>2, <2>1, <2>4, SymbolStep DEF PauseHeard
    <3>2. PauseHeard'
      BY <3>1 DEF PauseHeard
    <3> QED BY <1>1, <2>2, <2>3, <3>2 DEF ListenerInv
  <2>5. CASE presentChar = "send" /\ Present = "end"
    <3>1. PauseHeard'
      BY <1>1, <1>2, <2>1, <2>3, <2>5, SymbolEnds DEF PauseHeard
    <3> QED BY <1>1, <2>2, <2>3, <3>1 DEF ListenerInv
  <2>6. CASE presentChar = "storeChar"
    <3>1. PauseHeard'
      BY <1>1, <1>2, <2>1, <2>3, <2>6, CharBegins
    <3> QED BY <1>1, <2>2, <2>3, <3>1 DEF ListenerInv
  <2>7. CASE presentChar \notin {"send", "storeChar"}
    <3>1. PauseHeard'
      BY <1>1, <1>2, <2>1, <2>3, <2>7, PauseStep
    <3> QED BY <1>1, <2>2, <2>3, <3>1 DEF ListenerInv
  <2> QED BY <2>4, <2>5, <2>6, <2>7
<1>3. CASE UNCHANGED listenerVars
  BY <1>1, <1>3 DEF listenerVars, vars, circuitVars, ListenerInv, ListenerType, FirstUnit,
        Spelling,
      PauseHeard, SymbolHeard, Between, Remembered, Present, Elapsed, dashSMActive, OnPath
<1> QED BY <1>2, <1>3

LEMMA ListenerInitInv == ListenerInit => ListenerInv
<1> SUFFICES ASSUME ListenerInit PROVE ListenerInv
  OBVIOUS
<1>1. Inv
  BY InvInit DEF ListenerInit
<1>2. presentChar = "waitForChar" /\ symbols = <<>> /\ unitNbCounter = 0
  BY DEF ListenerInit, Init, CircuitInit
<1>3. mark = 0 /\ silence = SilenceBound /\ letter = <<>> /\ <<>> \in Seq({dot, dash})
  BY DEF ListenerInit
<1>4. ListenerType /\ silence >= 3 * unitCountDivide
  BY <1>3, UnitLength DEF ListenerType, SilenceBound
<1> QED BY <1>1, <1>2, <1>3, <1>4 DEF ListenerInv, FirstUnit, Spelling, PauseHeard

\* For every character and every unit that is long enough, the marks that are
\* heard between two long silences are the Morse code of the character that was
\* sent, and the silence behind them is three units long (nxt_Charstate, the two
\* senders and the unit counter together).
THEOREM LettersHeard == ListenerSpec => []LettersAreHeard
<1>1. ListenerInv => LettersAreHeard
  BY DEF ListenerInv, LettersAreHeard, PauseHeard, readChar
<1> QED BY <1>1, ListenerInitInv, ListenerStep, PTL DEF ListenerSpec

\* For every unit that is long enough, a character without a code leaves the line
\* silent for seven units (waitWordChar, waitWordCharSpacer and the pause at the
\* end of a character).
THEOREM WordsHeard == ListenerSpec => []WordsAreApart
<1>1. ListenerInv => WordsAreApart
  BY DEF ListenerInv, WordsAreApart, PauseHeard, readChar
<1> QED BY <1>1, ListenerInitInv, ListenerStep, PTL DEF ListenerSpec
=============================================================================
