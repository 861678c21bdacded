--------------------------- MODULE SessionProfiles ---------------------------
(***************************************************************************)
(* Browser session providers: what a session has of cookies and local      *)
(* storage is saved when its client stops and restored by the next one, in *)
(* a file, in an object of S3, or in a profile of AgentCore.  Processes    *)
(* use one profile name, each with a provider of its own for session after *)
(* session.                                                                *)
(*                                                                         *)
(* Code: browser_auth/, and where tools/browser/default/playwright.py      *)
(* calls it.                                                               *)
(***************************************************************************)
EXTENDS Naturals, Sequences, FiniteSets

CONSTANTS
    Procs,
    Partial,     \* what a file has that is not written to its end
    None,
    Settings

\* kind: the provider; procs: the processes that use it; sessions, crashes,
\* deletes: bounds; faults: calls may fail.
Setting == [kind : {"file", "s3", "agentcore"}, procs : SUBSET Procs, sessions : Nat, crashes : Nat,
            deletes : Nat, faults : BOOLEAN]

ASSUME SessionProfilesAssumption ==
    /\ \A s \in Settings : s \in Setting
    /\ Partial \notin Nat /\ None \notin Nat

VARIABLES
    setting,     \* chosen once
    sessions, crashes, deletes,
    files,       \* the files there were; a session's state is its number, no state 0
    tmp, final,  \* those that have the temporary and the final name; the S3 object; or 0
    profiles,    \* AgentCore's profiles of the name: usable or not, the state
    cached,      \* the profile that each machine has in its cache file, or 0
    provider,    \* the processes' providers and clients
    last,        \* history: the state saved last
    overlapped   \* history: two processes saved, or looked for a profile, at once

bounds == <<sessions, crashes, deletes>>
stored == <<files, tmp, final>>
aws == <<profiles, cached>>
vars == <<setting, bounds, stored, aws, provider, last, overlapped>>

Faults == setting.faults

\* session: its number; cache: _session_cache; cookies, origins: what the browser
\* was started with; file: what is open for writing; id: _profile_id.  History: due:
\* what was saved last when the session started; kept: the provider's last session
\* did not come to save.
Fresh == [at |-> "idle", session |-> 0, cache |-> None, cookies |-> 0, origins |-> 0, file |-> 0,
          id |-> 0, due |-> 0, kept |-> FALSE]

Init ==
    /\ setting \in Settings
    /\ sessions = 0 /\ crashes = 0 /\ deletes = 0
    /\ files = <<>> /\ tmp = 0 /\ final = 0
    /\ profiles = <<>> /\ cached = [p \in Procs |-> 0]
    /\ provider = [p \in Procs |-> Fresh]
    /\ last = 0 /\ overlapped = FALSE

At(p, label) == provider[p].at = label
Set(p, t) == provider' = [provider EXCEPT ![p] = t]
Goes(p, label) == Set(p, [provider[p] EXCEPT !.at = label])
Others(p, labels) == \E q \in Procs \ {p} : provider[q].at \in labels

\* The next session of p's provider.
Begins(p) ==
    /\ p \in setting.procs /\ At(p, "idle")
    /\ sessions < setting.sessions /\ sessions' = sessions + 1
    /\ UNCHANGED <<crashes, deletes>>

\* The process is killed; the next one has a provider of its own.
Crash(p) ==
    /\ crashes < setting.crashes /\ ~At(p, "idle")
    /\ crashes' = crashes + 1
    /\ Set(p, Fresh)
    /\ UNCHANGED <<setting, sessions, deletes, stored, aws, last, overlapped>>
-----------------------------------------------------------------------------
(* Client-side providers: load.                                            *)

Saved == IF final = 0 THEN 0 ELSE files[final]

\* _load_session(): loaded once, then cached.
Session(t) == IF t.cache = None THEN Saved ELSE t.cache

\* load_cookies(): data that is corrupted fails the start.
LoadCookies(p) ==
    /\ setting.kind # "agentcore" /\ Begins(p)
    /\ LET t == provider[p]
           state == Session(t)
       IN  \/ /\ state # Partial
              /\ Set(p, [t EXCEPT !.at = "cookies", !.session = sessions', !.cache = state,
                                  !.cookies = state, !.due = last])
           \/ t.cache = None /\ (Faults \/ state = Partial) /\ UNCHANGED provider
    /\ UNCHANGED <<setting, stored, aws, last, overlapped>>

\* Mutant: the local storage is loaded anew.
LoadLocalStorage_Anew(p) ==
    /\ At(p, "cookies") /\ Saved # Partial
    /\ Set(p, [provider[p] EXCEPT !.at = "running", !.origins = Saved])
    /\ UNCHANGED <<setting, bounds, stored, aws, last, overlapped>>

\* load_local_storage(), once the cookies are added.
LoadLocalStorage(p) ==
    /\ At(p, "cookies")
    /\ Set(p, [provider[p] EXCEPT !.at = "running", !.origins = Session(provider[p])])
    /\ UNCHANGED <<setting, bounds, stored, aws, last, overlapped>>

\* The start fails, or the context's state cannot be had: nothing is saved.
Abandon(p) ==
    /\ setting.kind # "agentcore" /\ Faults /\ (At(p, "cookies") \/ At(p, "running"))
    /\ Set(p, [provider[p] EXCEPT !.at = "idle", !.kept = TRUE])
    /\ UNCHANGED <<setting, bounds, stored, aws, last, overlapped>>
-----------------------------------------------------------------------------
(* Client-side providers: save.                                            *)

\* Mutant: the cache outlives save_session().
EndSave_Cached(p) == Set(p, [provider[p] EXCEPT !.at = "idle", !.file = 0, !.kept = FALSE])
\* save_session() forgets what it loaded, saved or not; an error is only logged.
EndSave(p) ==
    Set(p, [provider[p] EXCEPT !.at = "idle", !.file = 0, !.kept = FALSE, !.cache = None])

\* put_object()
Put(p) ==
    /\ setting.kind = "s3" /\ At(p, "running")
    /\ \/ /\ files' = Append(files, provider[p].session) /\ final' = Len(files')
          /\ last' = provider[p].session
       \/ Faults /\ UNCHANGED <<files, final, last>>
    /\ EndSave(p)
    /\ UNCHANGED <<setting, bounds, tmp, aws, overlapped>>

\* Mutant: the file itself is written.
OpenTmp_InPlace(p) ==
    /\ setting.kind = "file" /\ At(p, "running")
    /\ IF final = 0 THEN files' = Append(files, Partial) ELSE files' = [files EXCEPT ![final] = Partial]
    /\ final' = IF final = 0 THEN Len(files') ELSE final
    /\ tmp' = final'
    /\ Set(p, [provider[p] EXCEPT !.at = "writing", !.file = final'])
    /\ overlapped' = (overlapped \/ Others(p, {"writing", "replacing"}))
    /\ UNCHANGED <<setting, bounds, aws, last>>

\* The temporary file is made, or emptied if there is one.
OpenTmp(p) ==
    /\ setting.kind = "file" /\ At(p, "running")
    /\ IF tmp = 0
       THEN files' = Append(files, Partial) /\ tmp' = Len(files')
       ELSE files' = [files EXCEPT ![tmp] = Partial] /\ UNCHANGED tmp
    /\ Set(p, [provider[p] EXCEPT !.at = "writing", !.file = tmp'])
    /\ overlapped' = (overlapped \/ Others(p, {"writing", "replacing"}))
    /\ UNCHANGED <<setting, bounds, final, aws, last>>

\* What two processes write in one file is the one's, the other's or a mixture.
WriteTmp(p) ==
    /\ At(p, "writing")
    /\ LET mixed == \E q \in Procs \ {p} : provider[q].file = provider[p].file
       IN  \E content \in {provider[p].session} \cup IF mixed THEN {Partial} ELSE {} :
               files' = [files EXCEPT ![provider[p].file] = content]
    /\ Goes(p, "replacing")
    /\ UNCHANGED <<setting, bounds, tmp, final, aws, last, overlapped>>

\* chmod() and replace(): whatever has the temporary name now gets the final one;
\* with none there both fail.
Replace(p) ==
    /\ At(p, "replacing")
    /\ IF tmp = 0 THEN UNCHANGED <<tmp, final, last>>
       ELSE final' = tmp /\ tmp' = 0 /\ last' = provider[p].session
    /\ EndSave(p)
    /\ UNCHANGED <<setting, bounds, files, aws, overlapped>>

\* Any of these calls may fail.
SaveFails(p) ==
    /\ Faults /\ (At(p, "writing") \/ At(p, "replacing")) /\ EndSave(p)
    /\ UNCHANGED <<setting, bounds, stored, aws, last, overlapped>>
-----------------------------------------------------------------------------
(* AgentCore: the profile is looked for, then the session runs with it.     *)

Usable(i) == i # 0 /\ profiles[i].usable
Looking == {"validating", "searching", "creating"}

\* _resolve_or_create_profile(), unless this provider did before.
Resolve(p) ==
    /\ setting.kind = "agentcore" /\ Begins(p)
    /\ LET t == [provider[p] EXCEPT !.session = sessions']
       IN  Set(p, [t EXCEPT !.at = IF t.id # 0 THEN "opening"
                                   ELSE IF cached[p] # 0 THEN "validating" ELSE "searching"])
    /\ overlapped' = (overlapped \/ (provider[p].id = 0 /\ Others(p, Looking)))
    /\ UNCHANGED <<setting, stored, aws, last>>

\* _profile_exists(): no answer is taken for no.
Validate(p) ==
    /\ At(p, "validating")
    /\ \/ Usable(cached[p]) /\ Set(p, [provider[p] EXCEPT !.at = "opening", !.id = cached[p]])
       \/ (~Usable(cached[p]) \/ Faults) /\ Goes(p, "searching")
    /\ UNCHANGED <<setting, bounds, stored, aws, last, overlapped>>

\* The profile is cached, which may fail.
Takes(p, i) ==
    /\ Set(p, [provider[p] EXCEPT !.at = "opening", !.id = i])
    /\ cached' \in {[cached EXCEPT ![p] = i]} \cup IF Faults THEN {cached} ELSE {}

\* Mutant: nobody asks whether there is a profile of the name.
Search_Not(p) ==
    /\ At(p, "searching") /\ Goes(p, "creating")
    /\ UNCHANGED <<setting, bounds, stored, aws, last, overlapped>>

\* _find_profile_by_name(): again no answer is taken for no.
Search(p) ==
    /\ At(p, "searching")
    /\ \/ \E i \in DOMAIN profiles : Usable(i) /\ Takes(p, i)
       \/ /\ Faults \/ \A i \in DOMAIN profiles : ~Usable(i)
          /\ Goes(p, "creating") /\ UNCHANGED cached
    /\ UNCHANGED <<setting, bounds, stored, profiles, last, overlapped>>

Create(p) ==
    /\ At(p, "creating")
    /\ \/ profiles' = Append(profiles, [usable |-> TRUE, state |-> 0]) /\ Takes(p, Len(profiles'))
       \/ Faults /\ Goes(p, "idle") /\ UNCHANGED aws
    /\ UNCHANGED <<setting, bounds, stored, last, overlapped>>

\* cdp_session(): a profile deleted since fails it.
OpenSession(p) ==
    /\ At(p, "opening")
    /\ LET i == provider[p].id
       IN  \/ /\ Usable(i)
              /\ Set(p, [provider[p] EXCEPT !.at = "running", !.cookies = profiles[i].state,
                                            !.origins = profiles[i].state, !.due = last])
           \/ (~Usable(i) \/ Faults) /\ Goes(p, "idle")
    /\ UNCHANGED <<setting, bounds, stored, aws, last, overlapped>>

\* save_session(), before the session ends; an error is only logged.
SaveProfile(p) ==
    /\ setting.kind = "agentcore" /\ At(p, "running")
    /\ \/ /\ Usable(provider[p].id)
          /\ profiles' = [profiles EXCEPT ![provider[p].id].state = provider[p].session]
          /\ last' = provider[p].session
       \/ (~Usable(provider[p].id) \/ Faults) /\ UNCHANGED <<profiles, last>>
    /\ Goes(p, "idle")
    /\ UNCHANGED <<setting, bounds, stored, cached, overlapped>>

\* Somebody deletes a profile.
Delete(i) ==
    /\ deletes < setting.deletes /\ Usable(i)
    /\ deletes' = deletes + 1
    /\ profiles' = [profiles EXCEPT ![i].usable = FALSE]
    /\ UNCHANGED <<setting, sessions, crashes, stored, cached, provider, last, overlapped>>
-----------------------------------------------------------------------------

Next ==
    \/ \E p \in Procs :
        \/ LoadCookies(p) \/ LoadLocalStorage(p) \/ Abandon(p)
        \/ Put(p) \/ OpenTmp(p) \/ WriteTmp(p) \/ Replace(p) \/ SaveFails(p)
        \/ Resolve(p) \/ Validate(p) \/ Search(p) \/ Create(p) \/ OpenSession(p) \/ SaveProfile(p)
        \/ Crash(p)
    \/ \E i \in DOMAIN profiles : Delete(i)

Spec == Init /\ [][Next]_vars
-----------------------------------------------------------------------------
(* Properties.                                                             *)

Running(p) == At(p, "running")

\* LocalFileSessionProvider, "write to a temp file and rename for atomicity": a
\* process killed or failing anywhere in a save leaves a file that can be loaded,
\* as long as no two save at once.
SavedStateIntact == ~overlapped /\ final # 0 => files[final] # Partial

\* A session starts from what was saved last, by whatever process, even after saves
\* and starts that failed.  It does not when the provider's previous session never
\* came to save, which leaves the cache, or when the profile was replaced.
StartsFromLastSave ==
    ~overlapped /\ Len(profiles) < 2 =>
        \A p \in Procs : Running(p) /\ ~provider[p].kept => provider[p].cookies = provider[p].due

\* The cookies and the local storage a session starts with are of one saved state,
\* whoever saves between the two loads.
RestoresOneState == \A p \in Procs : Running(p) => provider[p].origins = provider[p].cookies

\* One name stands for one profile: processes that look for it one after the other
\* share it, whatever their caches say, unless a call fails.
OneProfile ==
    ~overlapped /\ ~Faults => Cardinality({i \in DOMAIN profiles : Usable(i)}) < 2
=============================================================================
