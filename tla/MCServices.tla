------------------------------ MODULE MCServices -----------------------------
(***************************************************************************)
(* LoginThrottle, Schema, AudioCache, Chunking and VoiceSettings for TLC.  *)
(* As in MCAccounts they share no variable, and a behaviour moves in one   *)
(* of them only.                                                           *)
(***************************************************************************)
EXTENDS LoginThrottle, Schema, AudioCache, Chunking, VoiceSettings, TLC

CONSTANTS b1, b2,
          Saver  \* bound: the reader who saves settings; the others only have
                 \* presets, through which alone readers meet
MCLength == (b1 :> 2) @@ (b2 :> 1)

VARIABLE part   \* the component this behaviour is about

vars == <<throttleVars, schemaVars, cacheVars, chunkingVars, voicesVars, part>>

Throttles(A) == /\ part = "throttle" /\ A
                /\ UNCHANGED <<schemaVars, cacheVars, chunkingVars, voicesVars, part>>
Upgrades(A) == /\ part = "schema" /\ A
               /\ UNCHANGED <<throttleVars, cacheVars, chunkingVars, voicesVars, part>>
Caches(A) == /\ part = "cache" /\ A
             /\ UNCHANGED <<throttleVars, schemaVars, chunkingVars, voicesVars, part>>
Chunks(A) == /\ part = "chunking" /\ A
             /\ UNCHANGED <<throttleVars, schemaVars, cacheVars, voicesVars, part>>
Voices(A) == /\ part = "voices" /\ A /\ \A u \in Listeners \ {Saver} : saved'[u] = saved[u]
             /\ UNCHANGED <<throttleVars, schemaVars, cacheVars, chunkingVars, part>>

Init == /\ InitThrottle /\ InitSchema /\ InitCache /\ InitChunking /\ InitVoices
        /\ part \in {"throttle", "schema", "cache", "chunking", "voices"}
        /\ part # "schema" => history = {}
        /\ part # "voices" => ready = {} /\ installed = {}
Next == \/ Throttles(NextThrottle) \/ Upgrades(NextSchema) \/ Caches(NextCache)
        \/ Chunks(NextChunking) \/ Voices(NextVoices)

(* ThrottleFairness and SchemaFairness, of the behaviours about them.      *)
Fairness == /\ WF_vars(Throttles(Tick))
            /\ \A v \in Visitors : WF_vars(Throttles(Record(v)))
            /\ \A p \in Starters : WF_vars(Upgrades(Proceed(p)))
Spec == Init /\ [][Next]_vars /\ Fairness

(* Every component's variables have their types.                           *)
TypeOK == ThrottleTypeOK /\ SchemaTypeOK /\ CacheTypeOK /\ ChunkingTypeOK /\ VoicesTypeOK
=============================================================================
