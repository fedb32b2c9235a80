----------------------------- MODULE MCPlayback -----------------------------
(***************************************************************************)
(* Playback for TLC: the instances, and two statements that the code does   *)
(* not keep.                                                               *)
(***************************************************************************)
EXTENDS Playback, TLC

CONSTANTS c1, c2, m1, v1, v2, t1, t2

OneClient  == {c1}
TwoClients == {c1, c2}
OneSetter  == {m1}
OneVoice   == {v1}
TwoVoices  == {v1, v2}
OneText    == {t1}
TwoTexts   == {t1, t2}

\* Texts are only compared.
Symmetry == Permutations(Texts)

\* The audio of a session is that of the chunk it is at
\* (tests/test_playback_api.py asserts that an update moves both).  A change of
\* the voice and an advance in flight together leave the new chunk with the old
\* chunk's audio.
AudioFollowsTheChunk ==
    \A s \in SessionIds : sessions[s].audio.chunk = sessions[s].chunk

\* Opening a title whose bookmark is not switched off remembers the place
\* (BookPage.tsx: "Open the title and progress will be remembered
\* automatically").  The first opening remembers nothing.
OpeningIsRemembered ==
    [][\A s \in SessionIds : LET d == sessions'[s].doc IN
         (~SessionOpen(s) /\ d # 0 /\ progress[d].enabled)
           => progress'[d].bookmarked]_vars
=============================================================================
