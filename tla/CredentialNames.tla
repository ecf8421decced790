--------------------------- MODULE CredentialNames ---------------------------
(***************************************************************************)
(* The name in the credential when Yoti gives only a full name: it is cut  *)
(* into parts by removing from it what the person row says of the person.  *)
(* Texts are sequences of letters, case ignored as the code ignores it.    *)
(***************************************************************************)
EXTENDS Naturals, SequencesExt

CONSTANTS
  Letters,  \* letters of names
  Space,
  None

ASSUME SpaceAssumption == Space \notin Letters

Word == Seq(Letters) \ {<<>>}

\* The name parts of a person row: no row is kept without a given and a family name.
PersonName == [given : Seq(Word) \ {<<>>}, family : Seq(Word) \ {<<>>}]

-----------------------------------------------------------------------------
\* join(" ") of the first n words, for each n.
Joining(words) ==
  LET joined[n \in 0..Len(words)] ==
        IF n = 0 THEN <<>>
        ELSE IF n = 1 THEN words[1]
        ELSE joined[n - 1] \o <<Space>> \o words[n]
  IN  joined

Joined(words) == Joining(words)[Len(words)]

\* Mutant: split(" "), which keeps the empty words.
CutAtSpaces(text) ==
  FoldLeft(LAMBDA words, c : IF c = Space THEN Append(words, <<>>)
                             ELSE [words EXCEPT ![Len(words)] = Append(@, c)],
           <<<<>>>>, text)

\* The words of the first n letters, for each n.
Reading(text) ==
  LET words[n \in 0..Len(text)] ==
        IF n = 0 THEN <<>>
        ELSE IF text[n] = Space THEN words[n - 1]
        ELSE IF n = 1 \/ text[n - 1] = Space THEN Append(words[n - 1], <<text[n]>>)
        ELSE Append(Front(words[n - 1]), Append(Last(words[n - 1]), text[n]))
  IN  words

\* match(/\S+/g)
Words(text) == Reading(text)[Len(text)]

\* Mutant: the last occurrence.
WithoutLast(text, part) == Reverse(ReplaceFirstSubSeq(<<>>, Reverse(part), Reverse(text)))

\* Where part can be read in text.
Occurrences(text, part) ==
  {i \in 1..(Len(text) - Len(part) + 1) : SubSeq(text, i, i + Len(part) - 1) = part}

\* replace(new RegExp(part, "i"), ""): the first occurrence, wherever it is.
Without(text, part) ==
  IF Occurrences(text, part) = {} THEN text
  ELSE LET i == Min(Occurrences(text, part))
       IN  SubSeq(text, 1, i - 1) \o SubSeq(text, i + Len(part), Len(text))

\* trim()
Trimmed(text) ==
  LET letters == {i \in 1..Len(text) : text[i] # Space}
  IN  IF letters = {} THEN <<>> ELSE SubSeq(text, Min(letters), Max(letters))

FullName(person) == Joined(person.given) \o <<Space>> \o Joined(person.family)

\* A full name that is not the person row's is an error.
getNamesFromPersonIdentity(person, fullName) ==
  LET given == Joined(person.given)
      family == Joined(person.family)
  IN  IF fullName # FullName(person) THEN None
      ELSE [given |-> Words(Without(fullName, family)),
            family |-> Trimmed(Without(fullName, given))]
=============================================================================
