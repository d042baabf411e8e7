SPECIFICATION ListenerSpec
CONSTANTS
    unitCountDivide = 6
    Characters <- MCCharacters
INVARIANTS TypeOK OneMachineAtATime LettersAreHeard WordsAreApart
PROPERTY EveryCharacterEnds
