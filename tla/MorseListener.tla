---------------------------- MODULE MorseListener ----------------------------
(***************************************************************************)
(* Somebody who listens to the line of CharToMorse and knows nothing but   *)
(* how long it is '1' and '0': a mark of two units or more is a dash, and  *)
(* a silence of two units or more ends a letter. The listener stands       *)
(* beside the circuit and is no part of it.                                *)
(***************************************************************************)
EXTENDS CharToMorse

\* A unit is longer than the edges the machines need from the pause behind one
\* symbol to the first period of the next: with shorter units the pauses inside
\* of a letter would sound like its end.
ASSUME ListenerAssumption == unitCountDivide >= 6

VARIABLES mark,      \* for how many periods the line has been '1'
          silence,   \* for how many periods it has been '0'
          letter     \* the marks of the present letter

listenerVars == <<vars, mark, silence, letter>>

\* A silence is counted up to this length.
SilenceBound == 7 * unitCountDivide

\* The Morse code.
Code(glyph) ==
    CASE glyph = "A" -> <<dot, dash>>               [] glyph = "B" -> <<dash, dot, dot, dot>>
      [] glyph = "C" -> <<dash, dot, dash, dot>>    [] glyph = "D" -> <<dash, dot, dot>>
      [] glyph = "E" -> <<dot>>                     [] glyph = "F" -> <<dot, dot, dash, dot>>
      [] glyph = "G" -> <<dash, dash, dot>>         [] glyph = "H" -> <<dot, dot, dot, dot>>
      [] glyph = "I" -> <<dot, dot>>                [] glyph = "J" -> <<dot, dash, dash, dash>>
      [] glyph = "K" -> <<dash, dot, dash>>         [] glyph = "L" -> <<dot, dash, dot, dot>>
      [] glyph = "M" -> <<dash, dash>>              [] glyph = "N" -> <<dash, dot>>
      [] glyph = "O" -> <<dash, dash, dash>>        [] glyph = "P" -> <<dot, dash, dash, dot>>
      [] glyph = "Q" -> <<dash, dash, dot, dash>>   [] glyph = "R" -> <<dot, dash, dot>>
      [] glyph = "S" -> <<dot, dot, dot>>           [] glyph = "T" -> <<dash>>
      [] glyph = "U" -> <<dot, dot, dash>>          [] glyph = "V" -> <<dot, dot, dot, dash>>
      [] glyph = "W" -> <<dot, dash, dash>>         [] glyph = "X" -> <<dash, dot, dot, dash>>
      [] glyph = "Y" -> <<dash, dot, dash, dash>>   [] glyph = "Z" -> <<dash, dash, dot, dot>>
      [] glyph = "1" -> <<dot, dash, dash, dash, dash>>
      [] glyph = "2" -> <<dot, dot, dash, dash, dash>>
      [] glyph = "3" -> <<dot, dot, dot, dash, dash>>
      [] glyph = "4" -> <<dot, dot, dot, dot, dash>>
      [] glyph = "5" -> <<dot, dot, dot, dot, dot>>
      [] glyph = "6" -> <<dash, dot, dot, dot, dot>>
      [] glyph = "7" -> <<dash, dash, dot, dot, dot>>
      [] glyph = "8" -> <<dash, dash, dash, dot, dot>>
      [] glyph = "9" -> <<dash, dash, dash, dash, dot>>
      [] glyph = "0" -> <<dash, dash, dash, dash, dash>>

\* One period of listening. A long silence makes the listener forget the letter.
Listen ==
    /\ mark' = IF morseOut THEN mark + 1 ELSE 0
    /\ silence' = CASE morseOut -> 0
                    [] ~morseOut /\ silence < SilenceBound -> silence + 1
                    [] ~morseOut /\ silence = SilenceBound -> silence
    /\ letter' =
         CASE morseOut /\ silence >= 2 * unitCountDivide -> <<>>
           [] ~morseOut /\ silence >= 4 * unitCountDivide -> <<>>
           [] ~morseOut /\ mark > 0 ->
                Append(letter, IF mark >= 2 * unitCountDivide THEN dash ELSE dot)
           [] OTHER -> letter

ListenerInit == Init /\ mark = 0 /\ silence = SilenceBound /\ letter = <<>>

ListenerSpec ==
    ListenerInit /\ [][Next /\ Listen]_listenerVars /\ WF_listenerVars(Next /\ Listen)
-----------------------------------------------------------------------------
\* What is heard of every character is its Morse code, and nothing of the ones
\* before: the marks can be told from each other, the pauses between them from
\* the pause behind the letter, and that one is at least three units long (the
\* tree of nxt_Charstate, the senders and the unit counter).
LettersAreHeard ==
    readChar /\ Glyph(char) # none =>
        letter = Code(Glyph(char)) /\ silence >= 3 * unitCountDivide

\* A character that has no code ends a word: the line has been silent for seven
\* units when it is read.
WordsAreApart ==
    readChar /\ Glyph(char) = none => silence >= 7 * unitCountDivide
=============================================================================
