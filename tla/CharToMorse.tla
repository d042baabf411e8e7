----------------------------- MODULE CharToMorse -----------------------------
(***************************************************************************)
(* The Morse encoder's controller and its unit counter (entity charToMorse *)
(* with the architectures studentVersion). Three state machines share the  *)
(* counter: one walks through the characters and the symbols of a          *)
(* character, the two others send a dot or a dash with the pause behind    *)
(* it. A step is one rising edge; the initial state is the one after a     *)
(* reset. What is read is the character as the FIFO shows it, looked at    *)
(* again at every symbol and nowhere stored.                               *)
(***************************************************************************)
EXTENDS Naturals, Sequences, SequencesExt

CONSTANTS unitCountDivide,   \* clock periods of a Morse unit
          Characters         \* the words char may be, as numbers of seven bits

ASSUME CharactersAssumption == Characters \subseteq 0 .. 127
ASSUME UnitAssumption == unitCountDivide \in Nat /\ unitCountDivide >= 1

VARIABLES char, charNotReady,            \* the inputs, from the FIFO
          presentChar, symbols,          \* the state of the character machine
          presentDot, presentDash,       \* the states of the two senders
          unitCounter, unitNbCounter     \* the counter of units

circuitVars ==
    <<presentChar, symbols, presentDot, presentDash, unitCounter, unitNbCounter>>
vars == <<char, charNotReady, circuitVars>>

dot == "dot"
dash == "dash"
none == "none"

-----------------------------------------------------------------------------
(* The characters.                                                         *)

Letters == << "A", "B", "C", "D", "E", "F", "G", "H", "I", "J", "K", "L", "M",
              "N", "O", "P", "Q", "R", "S", "T", "U", "V", "W", "X", "Y", "Z" >>
Digits == << "0", "1", "2", "3", "4", "5", "6", "7", "8", "9" >>

\* isA to isZ and is0 to is9: the bit that tells capitals is not looked at.
Glyph(code) ==
    CASE code >= 64 /\ code % 32 \in 1 .. 26 -> Letters[code % 32]
      [] code \in 48 .. 57                   -> Digits[code - 47]
      [] OTHER                               -> none

\* The characters that go on with a dot, and those that go on with a dash, when
\* the symbols sent are those of the argument: the branches of nxt_Charstate.
FirstSymbol ==
    [dot  |-> {"A", "E", "F", "H", "I", "J", "L", "P", "R", "S", "U", "V", "W",
               "1", "2", "3", "4", "5"},
     dash |-> {"B", "C", "D", "G", "K", "M", "N", "O", "Q", "T", "X", "Y", "Z",
               "0", "6", "7", "8", "9"}]

SecondSymbol(sent) ==
    CASE sent = <<dot>>  -> [dot  |-> {"F", "H", "I", "S", "U", "V", "2", "3", "4", "5"},
                             dash |-> {"A", "J", "L", "P", "R", "W", "1"}]
      [] sent = <<dash>> -> [dot  |-> {"B", "C", "D", "K", "N", "X", "Y", "6"},
                             dash |-> {"G", "M", "O", "Q", "Z", "7", "8", "9", "0"}]

ThirdSymbol(sent) ==
    CASE sent = <<dot, dot>>   -> [dot |-> {"H", "S", "V", "3", "4", "5"},
                                   dash |-> {"F", "U", "2"}]
      [] sent = <<dot, dash>>  -> [dot |-> {"L", "R"}, dash |-> {"J", "P", "W", "1"}]
      [] sent = <<dash, dot>>  -> [dot |-> {"B", "D", "X", "6"}, dash |-> {"C", "K", "Y"}]
      [] sent = <<dash, dash>> -> [dot |-> {"G", "Q", "Z", "7"},
                                   dash |-> {"O", "8", "9", "0"}]

\* Mutant: a branch of the fourth symbol looks at the wrong digit.
FourthSymbolOtherDigit(sent) ==
    CASE sent = <<dot, dot, dot>>    -> [dot |-> {"H", "3", "5"}, dash |-> {"V", "4"}]
      [] sent = <<dot, dot, dash>>   -> [dot |-> {"F"}, dash |-> {"2"}]
      [] sent = <<dot, dash, dot>>   -> [dot |-> {"L"}, dash |-> {}]
      [] sent = <<dot, dash, dash>>  -> [dot |-> {"P"}, dash |-> {"J", "1"}]
      [] sent = <<dash, dot, dot>>   -> [dot |-> {"B", "6"}, dash |-> {"X"}]
      [] sent = <<dash, dot, dash>>  -> [dot |-> {"C"}, dash |-> {"Y"}]
      [] sent = <<dash, dash, dot>>  -> [dot |-> {"Z", "7"}, dash |-> {"Q"}]
      [] sent = <<dash, dash, dash>> -> [dot |-> {"8"}, dash |-> {"0", "9"}]

FourthSymbol(sent) ==
    CASE sent = <<dot, dot, dot>>    -> [dot |-> {"H", "4", "5"}, dash |-> {"V", "3"}]
      [] sent = <<dot, dot, dash>>   -> [dot |-> {"F"}, dash |-> {"2"}]
      [] sent = <<dot, dash, dot>>   -> [dot |-> {"L"}, dash |-> {}]
      [] sent = <<dot, dash, dash>>  -> [dot |-> {"P"}, dash |-> {"J", "1"}]
      [] sent = <<dash, dot, dot>>   -> [dot |-> {"B", "6"}, dash |-> {"X"}]
      [] sent = <<dash, dot, dash>>  -> [dot |-> {"C"}, dash |-> {"Y"}]
      [] sent = <<dash, dash, dot>>  -> [dot |-> {"Z", "7"}, dash |-> {"Q"}]
      [] sent = <<dash, dash, dash>> -> [dot |-> {"8"}, dash |-> {"0", "9"}]

AnyGlyph == ToSet(Letters) \union ToSet(Digits) \union {none}

\* The last dot of 8 and the fourth dash of 2 are not a choice.
FifthSymbol(sent) ==
    CASE sent = <<dot, dot, dot, dot>>    -> [dot |-> {"5"}, dash |-> {"4"}]
      [] sent = <<dash, dot, dot, dot>>   -> [dot |-> {"6"}, dash |-> {}]
      [] sent = <<dash, dash, dot, dot>>  -> [dot |-> {"7"}, dash |-> {}]
      [] sent = <<dash, dash, dash, dot>> -> [dot |-> AnyGlyph, dash |-> {}]
      [] sent = <<dot, dot, dot, dash>>   -> [dot |-> {}, dash |-> {"3"}]
      [] sent = <<dot, dot, dash, dash>>  -> [dot |-> {}, dash |-> AnyGlyph]
      [] sent = <<dot, dash, dash, dash>> -> [dot |-> {}, dash |-> {"1"}]
      [] sent = <<dash, dash, dash, dash>> -> [dot |-> {"9"}, dash |-> {"0"}]
      [] OTHER                            -> [dot |-> {}, dash |-> {}]

SymbolAfter(sent) ==
    CASE Len(sent) = 0 -> FirstSymbol
      [] Len(sent) = 1 -> SecondSymbol(sent)
      [] Len(sent) = 2 -> ThirdSymbol(sent)
      [] Len(sent) = 3 -> FourthSymbol(sent)
      [] Len(sent) = 4 -> FifthSymbol(sent)
      [] Len(sent) = 5 -> [dot |-> {}, dash |-> {}]

-----------------------------------------------------------------------------
(* The two senders and the outputs.                                        *)

SenderStates == {"waitStart", "sendStart", "sendWait", "spacerStart", "spacerWait", "end"}

\* nxt_Dotstate and nxt_Dashstate.
NextSender(present, send, counterDone) ==
    CASE present = "waitStart"   -> IF send THEN "sendStart" ELSE "waitStart"
      [] present = "sendStart"   -> "sendWait"
      [] present = "sendWait"    -> IF counterDone THEN "spacerStart" ELSE "sendWait"
      [] present = "spacerStart" -> "spacerWait"
      [] present = "spacerWait"  -> IF counterDone THEN "end" ELSE "spacerWait"
      [] present = "end"         -> "waitStart"

\* The state send with the symbols up to the one that is being sent stands for
\* the states sendDot1, sendDotDash2 and so on; same is the state before it that
\* lets the sender rest when it sends the same symbol again (sendDotWaitDot2).
CharStates ==
    {"waitForChar", "storeChar", "send", "same", "waitWordChar", "waitWordCharSpacer",
     "endOfChar", "sendSpacerWaitChar", "getNextChar"}

sendDot == presentChar = "send" /\ Last(symbols) = dot
sendDash == presentChar = "send" /\ Last(symbols) = dash

dotSMActive == presentDot # "waitStart"
dashSMActive == presentDash # "waitStart"
charSMActive ==
    presentChar \in {"waitWordChar", "waitWordCharSpacer", "endOfChar",
                     "sendSpacerWaitChar", "getNextChar"}

\* Mutant: the dot is called sent before the pause behind it.
dotSentBeforePause == presentDot = "spacerStart"

dotSent == presentDot = "end"
dashSent == presentDash = "end"

\* The multiplexers at the end: the line and the counter take the three machines
\* in different orders.
morseOut ==
    IF dashSMActive THEN presentDash = "sendWait" ELSE presentDot = "sendWait"

\* Mutant: the pause at the end of a character is not started.
startCounterNotAtEnd ==
    CASE dotSMActive  -> presentDot \in {"sendStart", "spacerStart"}
      [] ~dotSMActive /\ dashSMActive -> presentDash \in {"sendStart", "spacerStart"}
      [] ~dotSMActive /\ ~dashSMActive -> presentChar = "waitWordChar"

startCounter ==
    CASE dotSMActive  -> presentDot \in {"sendStart", "spacerStart"}
      [] ~dotSMActive /\ dashSMActive -> presentDash \in {"sendStart", "spacerStart"}
      [] ~dotSMActive /\ ~dashSMActive -> presentChar \in {"waitWordChar", "endOfChar"}

SpacerUnits(present) == IF present = "spacerWait" THEN 1 ELSE 0

\* Mutant: the pauses of the character machine have one unit.
unitNbShortPause ==
    CASE dotSMActive  -> IF presentDot = "sendWait" THEN 1 ELSE SpacerUnits(presentDot)
      [] ~dotSMActive /\ dashSMActive ->
           IF presentDash = "sendWait" THEN 3 ELSE SpacerUnits(presentDash)
      [] ~dotSMActive /\ ~dashSMActive ->
           IF presentChar \in {"waitWordCharSpacer", "sendSpacerWaitChar"} THEN 1 ELSE 0

unitNb ==
    CASE dotSMActive  -> IF presentDot = "sendWait" THEN 1 ELSE SpacerUnits(presentDot)
      [] ~dotSMActive /\ dashSMActive ->
           IF presentDash = "sendWait" THEN 3 ELSE SpacerUnits(presentDash)
      [] ~dotSMActive /\ ~dashSMActive ->
           IF presentChar \in {"waitWordCharSpacer", "sendSpacerWaitChar"} THEN 2 ELSE 0

readChar == presentChar = "getNextChar"

\* Mutant: the unit has a period more.
unitCountDoneLate == unitCounter = unitCountDivide + 1

unitCountDone == unitCounter = unitCountDivide
counterDone == unitNbCounter = unitNb /\ unitCountDone
-----------------------------------------------------------------------------
(* One rising edge.                                                        *)

Remain == UNCHANGED <<presentChar, symbols>>

Goto(state) == presentChar' = state /\ symbols' = <<>>

SendNext(symbol) ==
    /\ presentChar' = IF symbols # <<>> /\ Last(symbols) = symbol THEN "same" ELSE "send"
    /\ symbols' = Append(symbols, symbol)

\* The end of a symbol: the next one, or the end of the character. The branch
\* behind four dashes has no else: its latch keeps the state.
Advance ==
    LET glyph == Glyph(char)
        next  == SymbolAfter(symbols)
    IN  CASE glyph \in next.dot -> SendNext(dot)
          [] glyph \in next.dash \ next.dot -> SendNext(dash)
          [] glyph \notin next.dot \union next.dash ->
               CASE symbols = <<>> -> Goto("waitWordChar")
                 [] symbols = <<dash, dash, dash, dash>> -> Remain
                 [] OTHER -> Goto("endOfChar")

nxt_Charstate ==
    CASE presentChar = "waitForChar" -> IF charNotReady THEN Remain ELSE Goto("storeChar")
      [] presentChar = "storeChar"   -> Advance
      [] presentChar = "send" ->
           IF (sendDot /\ dotSent) \/ (sendDash /\ dashSent) THEN Advance ELSE Remain
      [] presentChar = "same" -> presentChar' = "send" /\ UNCHANGED symbols
      [] presentChar = "waitWordChar" -> Goto("waitWordCharSpacer")
      [] presentChar = "waitWordCharSpacer" ->
           IF counterDone THEN Goto("endOfChar") ELSE Remain
      [] presentChar = "endOfChar" -> Goto("sendSpacerWaitChar")
      [] presentChar = "sendSpacerWaitChar" ->
           IF counterDone THEN Goto("getNextChar") ELSE Remain
      [] presentChar = "getNextChar" -> Goto("waitForChar")

\* The counter of the clock periods of a unit.
countUnitDuration ==
    unitCounter' = CASE unitCounter = 0 -> IF startCounter \/ unitNbCounter > 0 THEN 1 ELSE 0
                     [] unitCounter # 0 -> IF unitCountDone THEN 0 ELSE unitCounter + 1

\* The counter of the units: three bits.
countPeriods ==
    unitNbCounter' =
        CASE unitNbCounter = 0 -> IF startCounter THEN 1 ELSE 0
          [] unitNbCounter # 0 /\ counterDone -> 0
          [] unitNbCounter # 0 /\ ~counterDone ->
               IF unitCountDone THEN (unitNbCounter + 1) % 8 ELSE unitNbCounter

CircuitInit ==
    /\ presentChar = "waitForChar" /\ symbols = <<>>
    /\ presentDot = "waitStart" /\ presentDash = "waitStart"
    /\ unitCounter = 0 /\ unitNbCounter = 0

Circuit ==
    /\ nxt_Charstate
    /\ presentDot' = NextSender(presentDot, sendDot, counterDone)
    /\ presentDash' = NextSender(presentDash, sendDash, counterDone)
    /\ countUnitDuration
    /\ countPeriods

\* What the controller needs of the circuit that gives it the characters: from
\* the edge at which it goes to storeChar until it reads the character, char is
\* the same character. Before that edge it may be anything.
Held == presentChar \notin {"waitForChar", "getNextChar"} => char' = char

Init ==
    /\ char \in Characters /\ charNotReady \in BOOLEAN
    /\ CircuitInit

Next ==
    /\ Circuit
    /\ char' \in Characters /\ charNotReady' \in BOOLEAN
    /\ Held

\* The clock never stops.
Spec == Init /\ [][Next]_vars /\ WF_vars(Next)
SafeSpec == Init /\ [][Next]_vars
-----------------------------------------------------------------------------
TypeOK ==
    /\ char \in Characters /\ charNotReady \in BOOLEAN
    /\ presentChar \in CharStates
    /\ symbols \in Seq({dot, dash})
    /\ presentDot \in SenderStates /\ presentDash \in SenderStates
    /\ unitCounter \in 0 .. unitCountDivide
    /\ unitNbCounter \in 0 .. 3

\* The three machines share one counter and one line, and each multiplexer takes
\* another one first (lines 1110 to 1113): no two of them are ever active, and
\* none starts the counter while it still counts for another one.
OneMachineAtATime ==
    /\ ~(dotSMActive /\ dashSMActive)
    /\ charSMActive => ~dotSMActive /\ ~dashSMActive
    /\ startCounter => unitNbCounter = 0 /\ unitCounter = 0

\* Every character that is taken from the FIFO is sent to its end and then read:
\* no machine waits for a counter that nobody started.
EveryCharacterEnds == presentChar = "storeChar" ~> presentChar = "getNextChar"
=============================================================================
