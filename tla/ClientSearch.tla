----------------------------- MODULE ClientSearch -----------------------------
(***************************************************************************)
(* Searching the text of a file: textBasedSearch of embeddingStore.ts, and *)
(* the search of ViewFileModal, which waits until the user has stopped     *)
(* typing.                                                                 *)
(*                                                                         *)
(* A text is a sequence of letters, ideographs (any character of the       *)
(* ranges of containsCJK), marks and blanks; all letters are lower case.   *)
(* Of a score only whether it is positive is kept: each term that a chunk  *)
(* shares with the query adds a positive amount, as no term is in more     *)
(* chunks than there are.  So the ranking is left open, and with it which  *)
(* matches are cut off beyond MaxResults.                                  *)
(***************************************************************************)
EXTENDS Integers, Arrays, SequencesExt, FiniteSetsExt

CONSTANTS
    Letters, Ideographs,   \* the characters \p{L} and \p{N} match
    Mark, Blank,           \* a character that none matches; white space
    MaxResults,            \* MAX_RESULTS
    MaxQuery, MaxChunk     \* bounds: the lengths of a query and of a chunk

Characters == Letters \cup Ideographs \cup {Mark, Blank}
TextsUpTo(n) == BoundedSeq(Characters, n)

ASSUME SearchAssumption ==
    /\ MaxResults \in Nat \ {0} /\ MaxQuery \in Nat /\ MaxChunk \in Nat
    /\ Mark # Blank /\ Letters \cap Ideographs = {} /\ {Mark, Blank} \cap (Letters \cup Ideographs) = {}

-----------------------------------------------------------------------------
(* textBasedSearch.  Tokens are sets: their number only moves the score.    *)

NormalizeText(text) == [i \in DOMAIN text |-> IF text[i] = Mark THEN Blank ELSE text[i]]

\* What split(" ") makes of the normalized text.
Tokenize(text) ==
    LET t == NormalizeText(text)
        in(i) == i \in DOMAIN t /\ t[i] # Blank
    IN  {SubSeq(t, r[1], r[2]) :
            r \in {r \in (DOMAIN t) \X (DOMAIN t) :
                    /\ \A i \in r[1]..r[2] : in(i)
                    /\ r[1] <= r[2] /\ ~in(r[1] - 1) /\ ~in(r[2] + 1)}}

ContainsCJK(text) == \E c \in Range(text) : c \in Ideographs

\* Only white space is dropped: marks stay.
Squeezed(text) == KeptAt(text, {i \in DOMAIN text : text[i] # Blank})

\* Mutant of TokenizeCJK: pairs of characters, but no single ideographs.
TokenizeCJKPairs(text) ==
    LET t == Squeezed(text)
    IN  IF Len(t) < 2 THEN {t} ELSE {SubSeq(t, i, i + 1) : i \in 1..(Len(t) - 1)}

TokenizeCJK(text) ==
    LET t == Squeezed(text)
    IN  IF Len(t) < 2 THEN {t}
        ELSE {SubSeq(t, i, i + 1) : i \in 1..(Len(t) - 1)} \cup {<<c>> : c \in Range(t) \cap Ideographs}

SmartTokenize(text) == IF ContainsCJK(text) THEN TokenizeCJK(text) ELSE Tokenize(text)

ChunkTokens(query, chunk) == IF ContainsCJK(query) THEN SmartTokenize(chunk) ELSE Tokenize(chunk)

\* calculateBM25Score is positive.
Scores(query, chunk) == SmartTokenize(query) \cap ChunkTokens(query, chunk) # {}

IsBlank(text) == Range(text) \subseteq {Blank}

\* The chunks that a search may return, as a set of their indices.
TextBasedSearch(query, chunks) ==
    LET matches == {i \in DOMAIN chunks : ~IsBlank(query) /\ Scores(query, chunks[i])}
    IN  IF Cardinality(matches) <= MaxResults THEN {matches} ELSE kSubset(MaxResults, matches)

-----------------------------------------------------------------------------
(* ViewFileModal.                                                           *)

VARIABLE view   \* searchQuery, searchableChunks, whether the timer runs, searchResults

searchVars == <<view>>

\* The chunks of a file: none while it is not indexed.
FileChunks == {<<>>} \cup {<<c, d>> : c \in TextsUpTo(MaxChunk), d \in TextsUpTo(1)}

SearchInit == view = [query |-> <<>>, chunks |-> <<>>, timer |-> FALSE, results |-> {}]

\* The effect of a changed query or of changed chunks.
SearchEffect(query, chunks) ==
    view' = [query |-> query, chunks |-> chunks, timer |-> ~IsBlank(query),
             results |-> IF IsBlank(query) THEN {} ELSE view.results]

TypeQuery(query) ==
    /\ view.chunks # <<>> /\ query # view.query
    /\ SearchEffect(query, view.chunks)

\* The file on display is indexed, indexed anew or dropped from the index.
IndexChanges ==
    \E chunks \in IF view.chunks = <<>> THEN FileChunks ELSE {<<>>, Reverse(view.chunks)} :
        chunks # view.chunks /\ SearchEffect(view.query, chunks)

\* Another file is opened: the query and the results are cleared.
OpenFile == view.query # <<>> /\ SearchEffect(<<>>, view.chunks)

PerformSearch ==
    /\ view.timer
    /\ \E found \in TextBasedSearch(view.query, view.chunks) :
        view' = [view EXCEPT !.timer = FALSE, !.results = found]

SearchNext ==
    \/ \E query \in TextsUpTo(MaxQuery) : TypeQuery(query)
    \/ IndexChanges \/ OpenFile \/ PerformSearch

SearchSpec == SearchInit /\ [][SearchNext]_searchVars

-----------------------------------------------------------------------------

\* A word: letters and ideographs between anything else.
HasWord(text, word) ==
    \E i \in DOMAIN text :
        /\ i + Len(word) - 1 <= Len(text) /\ SubSeq(text, i, i + Len(word) - 1) = word
        /\ \A j \in {i - 1, i + Len(word)} : j \in DOMAIN text => text[j] \in {Mark, Blank}

Words == {w \in TextsUpTo(MaxQuery) : w # <<>> /\ Range(w) \cap {Mark, Blank} = {}}

\* What a reader expects of a search (embeddingStore.ts "Also add single
\* characters for better recall"): once the user has stopped typing, a chunk
\* that has a word of the query, or one ideograph of it, is among the results,
\* or there are already MaxResults of them; and if the query has no ideograph,
\* every result has a word of it.
SearchFinds ==
    ~view.timer =>
        \A i \in DOMAIN view.chunks :
            LET common == \E w \in Words : HasWord(view.query, w) /\ HasWord(view.chunks[i], w)
                shared == Range(view.query) \cap Range(view.chunks[i]) \cap Ideographs # {}
            IN  /\ shared \/ (common /\ ~ContainsCJK(view.query))
                    => i \in view.results \/ Cardinality(view.results) = MaxResults
                /\ i \in view.results /\ ~ContainsCJK(view.query) => common
=============================================================================
