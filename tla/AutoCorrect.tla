----------------------------- MODULE AutoCorrect -----------------------------
(***************************************************************************)
(* The suggestion the control server makes for a command it does not know: *)
(* bstd::autoCorrectFilter.  A word is a sequence of letters; any other    *)
(* byte is "?".                                                            *)
(***************************************************************************)
EXTENDS Integers, Sequences

CONSTANTS
  dictionary,    \* the constructor's arguments
  sensitivity,
  SizeMax,       \* SIZE_MAX
  Typed          \* the words an admin may type

Alphabet == <<"a","b","c","d","e","f","g","h","i","j","k","l","m",
              "n","o","p","q","r","s","t","u","v","w","x","y","z">>
Letters == {Alphabet[i] : i \in 1 .. 26}
Word == Seq(Letters \cup {"?"})

ASSUME AutoCorrectAssumption ==
  /\ dictionary \in Seq(Word) /\ Typed \subseteq Word
  /\ sensitivity \in Nat /\ SizeMax \in Nat /\ sensitivity < SizeMax

lookupGrid == [
  a |-> <<0,5,3,2,2,3,4,5,7,6,7,8,7,6,8,9,1,3,1,4,6,4,1,2,5,1>>,
  b |-> <<5,0,2,3,4,2,1,1,3,2,3,4,2,1,4,5,5,3,4,3,3,1,4,3,2,4>>,
  c |-> <<3,2,0,1,3,1,2,3,5,4,5,6,4,3,6,7,4,2,2,3,4,1,3,1,3,2>>,
  d |-> <<2,3,1,0,1,1,2,3,5,4,5,6,5,4,6,7,3,1,1,2,4,2,2,1,3,2>>,
  e |-> <<2,4,3,1,0,2,3,3,5,4,5,6,5,4,6,7,2,1,1,2,4,3,1,2,3,3>>,
  f |-> <<3,2,1,1,2,0,1,2,4,3,4,5,4,3,5,6,3,1,2,1,3,1,3,2,2,3>>,
  g |-> <<4,1,2,2,3,1,0,1,3,2,3,4,3,2,4,5,4,2,3,1,2,1,3,3,1,4>>,
  h |-> <<5,1,3,3,3,2,1,0,2,1,2,3,2,1,3,4,5,3,4,2,1,2,4,4,1,5>>,
  i |-> <<7,3,5,5,5,4,3,2,0,1,1,2,2,3,1,2,7,4,6,3,1,4,6,6,2,7>>,
  j |-> <<6,2,4,4,4,3,2,1,1,0,1,2,1,1,2,3,6,3,5,3,1,3,5,5,2,6>>,
  k |-> <<7,3,5,5,5,4,3,2,1,1,0,1,1,2,1,2,7,4,6,3,2,4,6,6,3,7>>,
  l |-> <<8,4,6,6,6,5,4,3,2,2,1,0,2,3,1,1,8,5,7,4,3,5,7,7,3,8>>,
  m |-> <<7,2,4,5,5,4,3,2,2,1,1,2,0,1,3,3,7,4,6,4,3,3,6,5,3,6>>,
  n |-> <<6,1,3,4,4,3,2,1,3,1,2,3,1,0,3,4,6,4,5,3,2,2,5,4,3,5>>,
  o |-> <<8,4,6,6,6,5,4,3,1,2,1,1,3,3,0,1,8,5,7,4,2,5,7,7,3,8>>,
  p |-> <<9,5,7,7,7,6,5,4,2,3,2,1,3,4,1,0,9,6,8,5,3,6,8,8,4,9>>,
  q |-> <<1,5,4,3,2,3,4,5,7,6,7,8,7,6,8,9,0,3,2,4,6,4,1,3,5,3>>,
  r |-> <<3,3,2,1,1,1,2,3,4,3,4,5,4,4,5,6,3,0,2,1,3,3,2,3,2,3>>,
  s |-> <<1,4,2,1,1,2,3,4,6,5,6,7,6,5,7,8,2,2,0,3,5,3,1,1,4,1>>,
  t |-> <<4,3,3,2,2,1,1,2,3,3,3,4,4,3,4,5,4,1,3,0,2,2,3,3,1,4>>,
  u |-> <<6,3,4,4,4,3,2,1,1,1,2,3,3,2,2,3,6,3,5,2,0,3,5,5,1,6>>,
  v |-> <<4,1,1,2,3,1,1,2,4,3,4,5,3,2,5,6,4,3,3,2,3,0,4,2,3,3>>,
  w |-> <<1,4,3,2,1,3,3,4,6,5,6,7,6,5,7,8,1,2,1,3,5,4,0,3,4,2>>,
  x |-> <<2,3,1,1,2,2,3,4,6,5,6,7,5,4,7,8,3,3,1,3,5,2,3,0,4,1>>,
  y |-> <<5,2,3,3,3,2,1,1,2,2,3,3,3,3,3,4,5,2,4,1,1,3,4,4,0,5>>,
  z |-> <<1,4,2,2,3,3,4,5,7,6,7,8,6,5,8,9,3,3,1,4,6,3,2,1,5,0>>
  ]

Place == [x \in Letters |-> CHOOSE i \in 1 .. 26 : Alphabet[i] = x]

kMaxDistance == 255
kSwapCost == 1
kGapCost == 2

findLetterDistance(x, y) ==
  IF x \in Letters /\ y \in Letters THEN lookupGrid[x][Place[y]] ELSE kMaxDistance

Same(x, y) == findLetterDistance(x, y) = 0

(* Mutant: one matching letter is taken for a swap. *)
SwappedOneWay(input, word, i, j) ==
  i < Len(input) /\ j < Len(word) /\ Same(input[i], word[j + 1])

(* Where the input, from i on, and the word, from j on, differ: two letters  *)
(* are swapped, the input misses a letter, or it has one too many.           *)
Swapped(input, word, i, j) ==
  /\ i < Len(input) /\ j < Len(word)
  /\ Same(input[i], word[j + 1]) /\ Same(input[i + 1], word[j])

Missing(input, word, i, j) ==
  Len(word) - j > Len(input) - i /\ Same(input[i], word[j + 1])

Extra(input, word, i, j) ==
  Len(input) - i > Len(word) - j /\ Same(input[i + 1], word[j])

(* One round of the loop in fixHelper; s is i, j and totalDistance. *)
CompareLetters(input, word, s) ==
  LET Go(di, dj, cost) == [i |-> s.i + di, j |-> s.j + dj, total |-> s.total + cost] IN
  IF s.i > Len(input) \/ s.j > Len(word) THEN s
  ELSE IF Same(input[s.i], word[s.j]) THEN Go(1, 1, 0)
  ELSE IF Swapped(input, word, s.i, s.j) THEN Go(2, 2, kSwapCost)
  ELSE IF Missing(input, word, s.i, s.j) THEN Go(0, 1, kGapCost)
  ELSE IF Extra(input, word, s.i, s.j) THEN Go(1, 0, kGapCost)
  ELSE Go(1, 1, findLetterDistance(input[s.i], word[s.j]))

Rounds(input, word) ==
  LET s[k \in 0 .. Len(input) + Len(word)] ==
        IF k = 0 THEN [i |-> 1, j |-> 1, total |-> 0]
        ELSE CompareLetters(input, word, s[k - 1])
  IN s

(* fixHelper before the budget is applied. *)
Distance(input, word) ==
  LET s == Rounds(input, word)[Len(input) + Len(word)]
  IN s.total + kGapCost * ((Len(input) + 1 - s.i) + (Len(word) + 1 - s.j))

(* Mutant: the window does not reach above the length typed. *)
PoolNarrow(input) ==
  {k \in DOMAIN dictionary : Len(dictionary[k]) \in Len(input) - 1 .. Len(input)}

(* The candidate pool of fix: the words of these lengths. *)
Pool(input) ==
  LET minFind == IF Len(input) > sensitivity THEN Len(input) - sensitivity ELSE 0
      maxFind == Len(input) + sensitivity
  IN {k \in DOMAIN dictionary : Len(dictionary[k]) \in minFind .. maxFind}

(* Its order: the buckets of _dictionary one after the other. *)
Before(k, l) ==
  \/ Len(dictionary[k]) < Len(dictionary[l])
  \/ Len(dictionary[k]) = Len(dictionary[l]) /\ k < l
-----------------------------------------------------------------------------
VARIABLES typed,   \* the unknown command
          left,    \* the words of the pool the loop has not come to
          bestMatch  \* bestMatch and bestMatchDistance

acVars == <<typed, left, bestMatch>>

(* dispatch_command's last part calls fix. *)
ACInit ==
  /\ typed \in Typed
  /\ left = Pool(typed)
  /\ bestMatch = [word |-> typed, dist |-> SizeMax]

(* One round of the loop in fix. *)
LookAtWord(k) ==
  LET word == dictionary[k]
      d == Distance(typed, word)
      nearer == /\ d <= sensitivity
                /\ d < bestMatch.dist \/ (d = bestMatch.dist /\ Len(word) > Len(bestMatch.word))
  IN /\ \A l \in left \ {k} : Before(k, l)
     /\ bestMatch' = IF nearer THEN [word |-> word, dist |-> d] ELSE bestMatch
     /\ left' = left \ {k}
     /\ UNCHANGED typed

ACNext == \E k \in left : LookAtWord(k)

ACSpec == ACInit /\ [][ACNext]_acVars
-----------------------------------------------------------------------------
Commands == {dictionary[k] : k \in DOMAIN dictionary}

(* The suggestion is nearest among all commands, not only those whose length *)
(* is in the window, and a longer one among equals; a word is given back as  *)
(* it is only when no command is within the budget.                          *)
NearestCommand ==
  LET Near == {w \in Commands : Distance(typed, w) <= sensitivity} IN
  left = {} =>
    IF Near = {} THEN bestMatch.word = typed
    ELSE /\ bestMatch.word \in Near
         /\ \A w \in Near :
              \/ Distance(typed, bestMatch.word) < Distance(typed, w)
              \/ /\ Distance(typed, bestMatch.word) = Distance(typed, w)
                 /\ Len(bestMatch.word) >= Len(w)
=============================================================================
