----------------------------- MODULE VoiceSettings ----------------------------
(***************************************************************************)
(* The voices a reader may choose and the three that are chosen            *)
(* (services/settings.py, services/voice_presets.py, tts/registry.py).     *)
(* What was saved may stop working: an engine is gone after a restart, a   *)
(* voice's file or a reference file is lost.  Reading the settings then    *)
(* shows others, saving them sends all of them back.                       *)
(***************************************************************************)
CONSTANTS Listeners,
          Kokoro, Piper,   \* the built-in voices of the two engines
          Configured,      \* piper_model_path
          Presets,         \* ids of voice_presets
          Unset,           \* no row, and no owner
          NoVoice          \* a fallback that was saved as null

ASSUME VoicesAssumption ==
    /\ Kokoro # {} /\ Configured \in Piper
    /\ (Kokoro \cup Piper) \cap Presets = {}
    /\ Unset \notin Kokoro \cup Piper \cup Presets \cup Listeners
    /\ NoVoice \notin Kokoro \cup Piper \cup Presets \cup {Unset}

VARIABLES presetOf,   \* the owner of each preset
          intact,     \* presets whose reference file is there
          ready,      \* engines that can run, where that may change
          installed,  \* Piper's voices whose file is there
          saved       \* UserSetting: the three voices of each reader

voicesVars == <<presetOf, intact, ready, installed, saved>>

Engines == {"kokoro", "qwen3_clone"}
VoiceIds == Kokoro \cup Piper \cup Presets \cup {Unset}
Saved == [live: VoiceIds, export: VoiceIds, fallback: VoiceIds \cup {NoVoice}]

VoicesTypeOK == /\ presetOf \in [Presets -> Listeners \cup {Unset}]
                /\ intact \subseteq Presets /\ ready \subseteq Engines /\ installed \subseteq Piper
                /\ saved \in [Listeners -> Saved]

InitVoices == /\ presetOf = [p \in Presets |-> Unset]
              /\ intact = {} /\ ready \in SUBSET Engines /\ installed \in SUBSET Piper
              /\ saved = [u \in Listeners |-> [live |-> Unset, export |-> Unset, fallback |-> Unset]]

-----------------------------------------------------------------------------
(* _catalog_model_paths: the files that are found, else the configured one *)
(* that is not there.  Kokoro's voices are a table in the code.            *)
PiperListed == IF installed = {} THEN {Configured} ELSE installed
BuiltIn == Kokoro \cup PiperListed

(* list_voice_options of a reader, and of nobody in particular.            *)
Existing == BuiltIn \cup {p \in Presets : presetOf[p] # Unset}
Options(u) == BuiltIn \cup {p \in Presets : presetOf[p] = u}

(* A preset without its reference file can do nothing; a built-in voice    *)
(* can do everything, once its engine is there: Piper can always run (by   *)
(* sys.executable, if nothing else) and needs only the voice's file.       *)
Supported(v) == v \in BuiltIn \cup intact
Available(v) == \/ v \in Kokoro /\ "kokoro" \in ready
                \/ v \in installed
                \/ v \in Presets /\ "qwen3_clone" \in ready

(* The first that there is: which of several is first in the list does not *)
(* matter.                                                                 *)
OrElse(first, others) == IF first # {} THEN first ELSE others

\* Mutant: a voice that was saved is shown as long as it exists.
LiveShownAsSaved(u) ==
    OrElse(Existing \cap {saved[u].live},
    OrElse({v \in BuiltIn : Available(v)}, {v \in Options(u) : Supported(v)}))

(* _coerce_default_live_voice_id, _coerce_default_export_voice_id and      *)
(* _coerce_fallback_voice_id: a saved voice is looked up among everybody's.*)
LiveShown(u) ==
    OrElse({v \in Existing \cap {saved[u].live} : Supported(v) /\ Available(v)},
    OrElse({v \in BuiltIn : Available(v)},
           {v \in Options(u) : Supported(v)}))

ExportShown(u) ==
    OrElse({v \in Existing \cap {saved[u].export} : Supported(v)},
    OrElse({v \in PiperListed : Available(v)},
    OrElse({v \in Options(u) : Supported(v) /\ Available(v)},
           {v \in Options(u) : Supported(v)})))

FallbackShown(u) ==
    IF saved[u].fallback = NoVoice THEN {NoVoice}
    ELSE OrElse({v \in Existing \cap {saved[u].fallback} : Available(v)},
         OrElse({v \in BuiltIn : Available(v)}, {NoVoice}))

(* What get_voice_settings may answer.                                     *)
Shown(u) == [live: LiveShown(u), export: ExportShown(u), fallback: FallbackShown(u)]

(* _require_voice_option, of update_voice_settings.                        *)
Accepted(u, live, export, fallback) ==
    /\ {live, export} \subseteq {v \in Options(u) : Supported(v)}
    /\ fallback \in Options(u) \cup {NoVoice}

Upserted(u, setting) == [saved EXCEPT ![u] = setting]

-----------------------------------------------------------------------------
UpdateSettings(u, live, export, fallback) ==
    /\ Accepted(u, live, export, fallback)
    /\ saved' = Upserted(u, [live |-> live, export |-> export, fallback |-> fallback])
    /\ UNCHANGED <<presetOf, intact, ready, installed>>

(* create_voice_preset, and a preset a friend shared: the file first.      *)
CreatePreset(u, p) ==
    /\ presetOf[p] = Unset
    /\ presetOf' = [presetOf EXCEPT ![p] = u]
    /\ intact' = intact \cup {p}
    /\ UNCHANGED <<ready, installed, saved>>

(* The storage under a preset goes and comes.                              *)
ReferenceLost(p) ==
    /\ p \in intact
    /\ intact' = intact \ {p}
    /\ UNCHANGED <<presetOf, ready, installed, saved>>

ReferenceFound(p) ==
    /\ presetOf[p] # Unset
    /\ intact' = intact \cup {p}
    /\ UNCHANGED <<presetOf, ready, installed, saved>>

(* What is installed is asked at every call.                               *)
EngineChanges(e) ==
    /\ ready' = IF e \in ready THEN ready \ {e} ELSE ready \cup {e}
    /\ UNCHANGED <<presetOf, intact, installed, saved>>

VoiceFileChanges(v) ==
    /\ installed' = IF v \in installed THEN installed \ {v} ELSE installed \cup {v}
    /\ UNCHANGED <<presetOf, intact, ready, saved>>

NextVoices ==
    \/ \E u \in Listeners :
         \/ \E p \in Presets : CreatePreset(u, p)
         \/ \E live, export \in Options(u) : \E fallback \in Options(u) \cup {NoVoice} :
              UpdateSettings(u, live, export, fallback)
    \/ \E p \in Presets : ReferenceLost(p) \/ ReferenceFound(p)
    \/ \E e \in Engines : EngineChanges(e)
    \/ \E v \in Piper : VoiceFileChanges(v)

SpecVoices == InitVoices /\ [][NextVoices]_voicesVars

-----------------------------------------------------------------------------
(* A reader is always shown some settings, and can save what is shown,     *)
(* whatever was lost or installed since it was saved: a page that sends    *)
(* all settings back to change one never fails for the others.  Nobody is  *)
(* shown another's voice, although a saved one is looked up among all      *)
(* (resolve_voice_option without a user, settings.py:386).                 *)
ShownSettingsCanBeSaved ==
    \A u \in Listeners :
        /\ Shown(u) # {}
        /\ \A shown \in Shown(u) : Accepted(u, shown.live, shown.export, shown.fallback)
=============================================================================
