------------------------------- MODULE Chunking ------------------------------
(***************************************************************************)
(* How a section's sentences become chunks (services/chunking.py): of a    *)
(* sentence only its number of words matters, and of a chunk too.  Where   *)
(* sentences end is not modelled.                                          *)
(***************************************************************************)
EXTENDS Naturals, Sequences

CONSTANTS MinWords, TargetWords, MaxWords, HardMaxWords,
          MaxSentences, MaxLength   \* bounds: sentences of a section, words of a sentence

ASSUME WordsAssumption ==
    /\ MinWords \in Nat \ {0} /\ TargetWords \in Nat /\ MaxWords \in Nat /\ HardMaxWords \in Nat
    /\ MinWords <= TargetWords /\ TargetWords <= MaxWords /\ MaxWords <= HardMaxWords
    /\ MaxSentences \in Nat /\ MaxLength \in Nat

VARIABLES chunks,     \* the words of each finished chunk
          current,    \* current_word_count: the words of current_parts, 0 if there are none
          sentences,  \* how many sentences were read
          words,      \* ghost: and how many words
          ended

chunkingVars == <<chunks, current, sentences, words, ended>>

ChunkingTypeOK == /\ chunks \in Seq(Nat)
                  /\ current \in Nat /\ words \in Nat
                  /\ sentences \in 0 .. MaxSentences
                  /\ ended \in BOOLEAN

InitChunking == chunks = << >> /\ current = 0 /\ sentences = 0 /\ words = 0 /\ ended = FALSE

-----------------------------------------------------------------------------
Flushed == IF current > 0 THEN Append(chunks, current) ELSE chunks

(* _split_long_sentence: pieces of MaxWords and what is left.  A sentence  *)
(* of just HardMaxWords stays whole.                                       *)
Pieces(n) ==
    IF n <= HardMaxWords THEN <<n>>
    ELSE [i \in 1 .. (n + MaxWords - 1) \div MaxWords |->
            IF i * MaxWords <= n THEN MaxWords ELSE n - (i - 1) * MaxWords]

\* Mutant: what waits is forgotten.
ReadLongAlone(n) ==
    /\ n >= HardMaxWords
    /\ chunks' = chunks \o Pieces(n)
    /\ current' = 0

ReadLong(n) ==
    /\ n >= HardMaxWords
    /\ chunks' = Flushed \o Pieces(n)
    /\ current' = 0

\* Mutant: only a chunk that is finished anyway is not joined.
OverflowsLater(n) == current + n > MaxWords /\ current >= TargetWords

(* A sentence joins the current chunk unless that is long enough and would *)
(* become too long; the chunk is finished when it reaches TargetWords.     *)
Overflows(n) == current + n > MaxWords /\ current >= MinWords

ReadSentence(n) ==
    LET joined == IF Overflows(n) THEN n ELSE current + n
        before == IF Overflows(n) THEN Flushed ELSE chunks
    IN
    /\ n < HardMaxWords
    /\ IF joined >= TargetWords THEN chunks' = Append(before, joined) /\ current' = 0
       ELSE chunks' = before /\ current' = joined

Read(n) ==
    /\ ~ended /\ sentences < MaxSentences
    /\ ReadLong(n) \/ ReadSentence(n)
    /\ sentences' = sentences + 1 /\ words' = words + n
    /\ UNCHANGED ended

EndSection ==
    /\ ~ended /\ ended' = TRUE
    /\ chunks' = Flushed /\ current' = 0
    /\ UNCHANGED <<sentences, words>>

NextChunking == (\E n \in 1 .. MaxLength : Read(n)) \/ EndSection

SpecChunking == InitChunking /\ [][NextChunking]_chunkingVars

-----------------------------------------------------------------------------
(* The longest chunk: HARD_MAX_CHUNK_WORDS is no bound, since a sentence   *)
(* just below it joins whatever is shorter than MIN_CHUNK_WORDS            *)
(* (chunking.py:49).                                                       *)
LongestChunk == (MinWords - 1) + (HardMaxWords - 1)

Largest(a, b) == IF a >= b THEN a ELSE b

(* No chunk is empty or longer than that: what a speech engine is given    *)
(* has a bound whatever the text is (chunk_paragraphs).                    *)
ChunksStayBounded ==
    \A i \in DOMAIN chunks : chunks[i] \in 1 .. Largest(HardMaxWords, LongestChunk)

(* How many words the first i chunks have, for each i.                     *)
RunningTotal(s) == LET upTo[i \in 0 .. Len(s)] == IF i = 0 THEN 0 ELSE upTo[i - 1] + s[i] IN upTo

(* Every word is in one chunk or waits for its chunk to be finished, and   *)
(* at the end none waits (chunk_paragraphs).                               *)
NoWordIsLost ==
    /\ RunningTotal(chunks)[Len(chunks)] + current = words
    /\ ended => current = 0
=============================================================================
