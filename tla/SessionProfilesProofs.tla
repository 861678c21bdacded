------------------------ MODULE SessionProfilesProofs ------------------------
(***************************************************************************)
(* A session restores one saved state, the one saved last; the file it     *)
(* restores from is whole, and one name stands for one profile: for any    *)
(* number of processes, sessions, failures and crashes.                    *)
(***************************************************************************)
EXTENDS SessionProfiles, FiniteSetTheorems, TLAPS

Labels == {"idle", "cookies", "running", "writing", "replacing", "validating", "searching",
           "creating", "opening"}
Saving == {"writing", "replacing"}
Profile == [usable : BOOLEAN, state : Nat]
Content == Nat \cup {Partial}
Provider == [at : Labels, session : Nat, cache : Content \cup {None}, cookies : Content,
             origins : Content, file : Nat, id : Nat, due : Nat, kept : BOOLEAN]

DataOK ==
    /\ sessions \in Nat /\ last \in Nat /\ overlapped \in BOOLEAN
    /\ files \in Seq(Content) /\ tmp \in 0 .. Len(files) /\ final \in 0 .. Len(files)
    /\ profiles \in Seq(Profile)
    /\ cached \in [Procs -> 0 .. Len(profiles)]

TypeOK == DataOK /\ provider \in [Procs -> Provider]

\* Between the two loads the cache holds what the cookies came from; a provider
\* has a file open while it saves and at no other time.
ProcOK(p) ==
    LET t == provider[p]
    IN  /\ t.at = "cookies" => t.cache # None /\ t.cookies = t.cache
        /\ t.at = "running" => t.origins = t.cookies
        /\ t.at \in Saving <=> t.file # 0
        /\ t.id \in 0 .. Len(profiles)

\* Of a save that nobody disturbs: its file is the one with the temporary name,
\* which is not the saved one, and is whole before it takes its place.
FilesOK ==
    /\ final # 0 => files[final] # Partial
    /\ tmp # 0 => tmp # final
    /\ \A p, q \in Procs : provider[p].at \in Saving /\ provider[q].at \in Saving => p = q
    /\ \A p \in Procs : provider[p].at \in Saving => provider[p].file = tmp
    /\ \A p \in Procs : provider[p].at = "replacing" => files[tmp] # Partial

IInv ==
    /\ TypeOK
    /\ \A p \in Procs : ProcOK(p)
    /\ ~overlapped => FilesOK

LEMMA InitOK == Init => IInv
<1>. SUFFICES ASSUME Init PROVE IInv
  OBVIOUS
<1>1. Fresh \in Provider
  BY DEF Fresh, Provider, Labels, Content
<1>2. TypeOK
  <2>1. files \in Seq(Content) /\ profiles \in Seq(Profile) /\ Len(files) = 0
    BY DEF Init
  <2>2. cached \in [Procs -> 0 .. Len(profiles)] /\ provider \in [Procs -> Provider]
    BY <1>1 DEF Init
  <2>3. sessions \in Nat /\ last \in Nat /\ overlapped \in BOOLEAN
    BY DEF Init
  <2>4. tmp \in 0 .. Len(files) /\ final \in 0 .. Len(files)
    BY <2>1 DEF Init
  <2>. QED
    BY <2>1, <2>2, <2>3, <2>4 DEF TypeOK, DataOK
<1>3. (\A p \in Procs : ProcOK(p)) /\ FilesOK
  BY DEF Init, Fresh, ProcOK, FilesOK, Saving
<1>. QED
  BY <1>2, <1>3 DEF IInv

\* A step of one provider that is not saving, before it or after.
LEMMA NotSaving ==
    ASSUME IInv, DataOK', UNCHANGED stored, overlapped => overlapped', NEW p \in Procs,
           NEW t \in Provider, Set(p, t), provider[p].at \notin Saving, t.at \notin Saving,
           t.file = 0, t.at = "cookies" => t.cache # None /\ t.cookies = t.cache,
           t.at = "running" => t.origins = t.cookies,
           Len(profiles) <= Len(profiles'), t.id \in 0 .. Len(profiles')
    PROVE  IInv'
<1>1. provider' \in [Procs -> Provider] /\ provider'[p] = t
      /\ \A q \in Procs \ {p} : provider'[q] = provider[q]
  BY DEF Set, IInv, TypeOK
<1>2. TypeOK'
  BY <1>1 DEF TypeOK
<1>3. \A q \in Procs : ProcOK(q)'
  <2>1. Len(profiles) \in Nat /\ Len(profiles') \in Nat
    BY DEF IInv, TypeOK, DataOK
  <2>. QED
    BY <1>1, <2>1 DEF IInv, ProcOK
<1>4. ~overlapped' => FilesOK'
  <2>. SUFFICES ASSUME ~overlapped' PROVE FilesOK'
    OBVIOUS
  <2>1. FilesOK /\ UNCHANGED <<files, tmp, final>>
    BY DEF IInv, stored
  <2>2. \A q \in Procs : provider'[q].at \in Saving => provider'[q] = provider[q]
    BY <1>1
  <2>3. \A q \in Procs : provider'[q].at = "replacing" => provider'[q] = provider[q]
    BY <2>2 DEF Saving
  <2>. QED
    BY <2>1, <2>2, <2>3 DEF FilesOK
<1>. QED
  BY <1>2, <1>3, <1>4 DEF IInv

\* The steps that load, and those of AgentCore.
LEMMA LoadOK ==
    ASSUME IInv, NEW p \in Procs, LoadCookies(p) \/ LoadLocalStorage(p) \/ Abandon(p)
    PROVE  IInv'
<1>. DEFINE t == provider[p]
<1>1. t \in Provider /\ ProcOK(p)
  BY DEF IInv, TypeOK
<1>2. UNCHANGED <<stored, aws, last, overlapped>> /\ sessions' \in Nat
  BY DEF LoadCookies, LoadLocalStorage, Abandon, Begins, bounds, IInv, TypeOK, DataOK
<1>3. DataOK'
  BY <1>2 DEF IInv, TypeOK, DataOK, stored, aws
<1>9. t.id \in 0 .. Len(profiles') /\ Len(profiles) <= Len(profiles')
  BY <1>1, <1>2 DEF ProcOK, aws, IInv, TypeOK, DataOK
<1>4. Saved \in Content
  BY DEF Saved, IInv, TypeOK, DataOK, Content
<1>5. CASE UNCHANGED provider
  BY <1>2, <1>3, <1>5 DEF IInv, TypeOK, ProcOK, FilesOK, stored, aws
<1>6. CASE LoadCookies(p) /\ ~ UNCHANGED provider
  <2>. DEFINE state == Session(t)
              u == [t EXCEPT !.at = "cookies", !.session = sessions', !.cache = state,
                             !.cookies = state, !.due = last]
  <2>1. state # Partial /\ Set(p, u) /\ t.at = "idle"
    BY <1>6 DEF LoadCookies, Begins, At
  <2>2. state \in Nat
    BY <1>1, <1>4, <2>1 DEF Session, Provider, Content
  <2>3. u \in Provider
    BY <1>1, <1>2, <2>2 DEF Provider, Labels, Content, IInv, TypeOK, DataOK
  <2>4. /\ t.file = 0 /\ u.file = 0 /\ u.at = "cookies" /\ u.cache = state /\ u.cookies = state
        /\ u.id = t.id
    BY <1>1, <2>1 DEF ProcOK, Saving, Provider
  <2>5. state # None
    BY <2>2, SessionProfilesAssumption
  <2>. QED
    BY <1>2, <1>3, <1>9, <2>1, <2>3, <2>4, <2>5, NotSaving DEF Saving
<1>7. CASE LoadLocalStorage(p)
  <2>. DEFINE u == [t EXCEPT !.at = "running", !.origins = Session(t)]
  <2>1. Set(p, u) /\ t.at = "cookies"
    BY <1>7 DEF LoadLocalStorage, At
  <2>2. t.cache # None /\ Session(t) = t.cookies
    BY <1>1, <2>1 DEF ProcOK, Session
  <2>3. /\ u \in Provider /\ u.at = "running" /\ u.origins = u.cookies
        /\ u.file = 0 /\ u.id = t.id
    BY <1>1, <2>1, <2>2 DEF Provider, Labels, ProcOK, Saving
  <2>. QED
    BY <1>2, <1>3, <1>9, <2>1, <2>3, NotSaving DEF Saving
<1>8. CASE Abandon(p)
  <2>. DEFINE u == [t EXCEPT !.at = "idle", !.kept = TRUE]
  <2>1. Set(p, u) /\ t.at \in {"cookies", "running"}
    BY <1>8 DEF Abandon, At
  <2>2. u \in Provider /\ u.at = "idle" /\ u.file = 0 /\ u.id = t.id
    BY <1>1, <2>1 DEF Provider, Labels, ProcOK, Saving
  <2>. QED
    BY <1>2, <1>3, <1>9, <2>1, <2>2, NotSaving DEF Saving
<1>. QED
  BY <1>5, <1>6, <1>7, <1>8

LEMMA AgentCoreOK ==
    ASSUME IInv, NEW p \in Procs,
           Resolve(p) \/ Validate(p) \/ Search(p) \/ Create(p) \/ OpenSession(p) \/ SaveProfile(p)
    PROVE  IInv'
<1>. DEFINE t == provider[p]
<1>1. t \in Provider /\ ProcOK(p)
  BY DEF IInv, TypeOK
<1>2. UNCHANGED stored
  BY DEF Resolve, Validate, Search, Create, OpenSession, SaveProfile
<1>0. overlapped => overlapped'
  BY DEF Resolve, Validate, Search, Create, OpenSession, SaveProfile
<1>3. sessions' \in Nat /\ last' \in Nat /\ overlapped' \in BOOLEAN
  <2>1. sessions \in Nat /\ last \in Nat /\ overlapped \in BOOLEAN
    BY DEF IInv, TypeOK, DataOK
  <2>2. overlapped' \in BOOLEAN
    BY <2>1 DEF Resolve, Validate, Search, Create, OpenSession, SaveProfile
  <2>3. sessions' \in Nat /\ last' \in Nat
    BY <1>1, <2>1 DEF Resolve, Validate, Search, Create, OpenSession, SaveProfile, Begins, bounds, Provider
  <2>. QED
    BY <2>2, <2>3
<1>4. profiles' \in Seq(Profile)
  <2>1. profiles \in Seq(Profile)
    BY DEF IInv, TypeOK, DataOK
  <2>2. CASE SaveProfile(p)
    <3>1. \A i \in DOMAIN profiles : [profiles[i] EXCEPT !.state = t.session] \in Profile
      <4>1. \A i \in DOMAIN profiles : profiles[i] \in Profile
        BY <2>1
      <4>2. t.session \in Nat
        BY <1>1 DEF Provider
      <4>. QED
        BY <4>1, <4>2 DEF Profile
    <3>2. UNCHANGED profiles \/ profiles' = [profiles EXCEPT ![t.id] = [profiles[t.id] EXCEPT !.state = t.session]]
      BY <2>2 DEF SaveProfile
    <3>. QED
      BY <2>1, <3>1, <3>2
  <2>3. CASE Create(p)
    <3>1. [usable |-> TRUE, state |-> 0] \in Profile
      BY DEF Profile
    <3>2. UNCHANGED profiles \/ profiles' = Append(profiles, [usable |-> TRUE, state |-> 0])
      BY <2>3 DEF Create, aws
    <3>. QED
      BY <2>1, <3>1, <3>2
  <2>. QED
    BY <2>1, <2>2, <2>3 DEF Resolve, Validate, Search, Create, OpenSession, aws
<1>8. Len(profiles) <= Len(profiles') /\ t.id \in 0 .. Len(profiles')
  <2>1. profiles \in Seq(Profile)
    BY DEF IInv, TypeOK, DataOK
  <2>2. Len(profiles) <= Len(profiles')
    BY <2>1 DEF Resolve, Validate, Search, Create, OpenSession, SaveProfile, aws
  <2>. QED
    BY <1>1, <2>1, <2>2 DEF ProcOK
<1>5. cached' \in [Procs -> 0 .. Len(profiles')]
  <2>1. cached \in [Procs -> 0 .. Len(profiles)] /\ profiles \in Seq(Profile)
    BY DEF IInv, TypeOK, DataOK
  <2>2. ASSUME NEW i \in 0 .. Len(profiles'), Takes(p, i) PROVE cached' \in [Procs -> 0 .. Len(profiles')]
    <3>1. cached \in [Procs -> 0 .. Len(profiles')]
      BY <1>4, <1>8, <2>1
    <3>. QED
      BY <2>2, <3>1 DEF Takes
  <2>3. CASE Search(p)
    BY <2>1, <2>2, <2>3 DEF Search
  <2>4. CASE Create(p)
    <3>1. Len(profiles') \in Nat
      BY <1>4
    <3>. QED
      BY <2>1, <2>2, <2>4, <3>1 DEF Create, aws
  <2>. QED
    BY <2>1, <2>3, <2>4 DEF Resolve, Validate, OpenSession, SaveProfile, aws
<1>6. DataOK'
  BY <1>2, <1>3, <1>4, <1>5 DEF IInv, TypeOK, DataOK, stored
<1>7. ASSUME t.at \notin Saving,
             NEW u \in Provider, Set(p, u), u.file = t.file, u.at \notin Saving \cup {"cookies"},
             u.at = "running" => u.origins = u.cookies, u.id \in 0 .. Len(profiles')
      PROVE  IInv'
  BY <1>0, <1>1, <1>2, <1>6, <1>7, <1>8, NotSaving DEF ProcOK
<1>10. CASE Resolve(p)
  <2>. DEFINE label == IF t.id # 0 THEN "opening"
                       ELSE IF cached[p] # 0 THEN "validating" ELSE "searching"
              u == [t EXCEPT !.session = sessions', !.at = label]
  <2>1. t.at = "idle" /\ label \in Labels \ (Saving \cup {"cookies", "running"})
    BY <1>10 DEF Resolve, Begins, At, Labels, Saving
  <2>2. Set(p, u)
    BY <1>10 DEF Resolve
  <2>3. u \in Provider /\ u.file = t.file /\ u.at = label /\ u.id = t.id
    BY <1>1, <1>3, <2>1 DEF Provider
  <2>4. u.at \notin Saving \cup {"cookies"} /\ u.at # "running" /\ t.at \notin Saving
    BY <2>1, <2>3 DEF Saving
  <2>. QED
    BY <1>7, <1>8, <2>2, <2>3, <2>4
<1>11. ASSUME NEW label \in Labels \ (Saving \cup {"cookies", "running"}), t.at \notin Saving,
              Goes(p, label)
       PROVE  IInv'
  <2>. DEFINE u == [t EXCEPT !.at = label]
  <2>1. u \in Provider /\ u.file = t.file /\ u.at = label /\ u.id = t.id
    BY <1>1 DEF Provider
  <2>. QED
    BY <1>7, <1>8, <1>11, <2>1 DEF Goes
<1>12. ASSUME NEW i \in 0 .. Len(profiles'), t.at \notin Saving, Set(p, [t EXCEPT !.at = "opening", !.id = i])
       PROVE  IInv'
  <2>. DEFINE u == [t EXCEPT !.at = "opening", !.id = i]
  <2>1. u \in Provider /\ u.file = t.file /\ u.at = "opening" /\ u.id = i
    <3>1. i \in Nat
      BY <1>4
    <3>. QED
      BY <1>1, <3>1 DEF Provider, Labels
  <2>. QED
    BY <1>7, <1>12, <2>1 DEF Saving
<1>13. /\ cached[p] \in 0 .. Len(profiles') /\ Len(profiles') \in 0 .. Len(profiles')
       /\ DOMAIN profiles \subseteq 0 .. Len(profiles')
  <2>1. profiles \in Seq(Profile) /\ cached[p] \in 0 .. Len(profiles)
    BY DEF IInv, TypeOK, DataOK
  <2>. QED
    BY <1>4, <1>8, <2>1
<1>14. CASE Validate(p)
  BY <1>11, <1>12, <1>13, <1>14 DEF Validate, At, Saving, Labels
<1>15. CASE Search(p)
  BY <1>11, <1>12, <1>13, <1>15 DEF Search, Takes, At, Saving, Labels
<1>16. CASE Create(p)
  BY <1>11, <1>12, <1>13, <1>16 DEF Create, Takes, At, Saving, Labels
<1>17. CASE SaveProfile(p)
  BY <1>11, <1>17 DEF SaveProfile, At, Saving, Labels
<1>18. CASE OpenSession(p)
  <2>1. CASE Goes(p, "idle")
    BY <1>11, <1>18, <2>1 DEF OpenSession, At, Saving, Labels
  <2>2. CASE ~ Goes(p, "idle")
    <3>. DEFINE state == profiles[t.id].state
                u == [t EXCEPT !.at = "running", !.cookies = state, !.origins = state, !.due = last]
    <3>1. Usable(t.id) /\ Set(p, u) /\ t.at = "opening"
      BY <1>18, <2>2 DEF OpenSession, At
    <3>2. state \in Nat
      <4>1. profiles \in Seq(Profile) /\ t.id \in 1 .. Len(profiles)
        BY <1>1, <3>1 DEF IInv, TypeOK, DataOK, ProcOK, Usable
      <4>2. profiles[t.id] \in Profile
        BY <4>1
      <4>. QED
        BY <4>2 DEF Profile
    <3>3. /\ u \in Provider /\ u.at = "running" /\ u.origins = u.cookies
          /\ u.file = t.file /\ u.id = t.id
      BY <1>1, <3>2 DEF Provider, Labels, Content, IInv, TypeOK, DataOK
    <3>. QED
      BY <1>7, <1>8, <3>1, <3>3 DEF Saving
  <2>. QED
    BY <2>1, <2>2
<1>. QED
  BY <1>10, <1>14, <1>15, <1>16, <1>17, <1>18

\* A step of a save: what is to be shown of it.
LEMMA SaveStep ==
    ASSUME IInv, DataOK', UNCHANGED aws, NEW p \in Procs, NEW t \in Provider, Set(p, t),
           t.at \in {"idle", "writing", "replacing"}, t.at \in Saving <=> t.file # 0,
           t.id = provider[p].id \/ t.id = 0, ~overlapped' => FilesOK'
    PROVE  IInv'
<1>1. provider' \in [Procs -> Provider] /\ provider'[p] = t
      /\ \A q \in Procs \ {p} : provider'[q] = provider[q]
  BY DEF Set, IInv, TypeOK
<1>2. TypeOK'
  BY <1>1 DEF TypeOK
<1>3. t.id \in 0 .. Len(profiles)
  BY DEF IInv, ProcOK, TypeOK, DataOK
<1>4. \A q \in Procs : ProcOK(q)'
  BY <1>1, <1>3 DEF IInv, ProcOK, aws
<1>. QED
  BY <1>2, <1>4 DEF IInv

\* An object is put at once, whole.
LEMMA PutOK == ASSUME IInv, NEW p \in Procs, Put(p) PROVE IInv'
<1>. DEFINE t == provider[p]
            u == [t EXCEPT !.at = "idle", !.file = 0, !.kept = FALSE, !.cache = None]
<1>1. t \in Provider /\ t.at = "running" /\ t.session \in Nat
  BY DEF IInv, TypeOK, Put, At, Provider
<1>2. Set(p, u) /\ u \in Provider /\ u.at = "idle" /\ u.file = 0 /\ u.id = t.id
  BY <1>1 DEF Put, EndSave, Provider, Labels
<1>3. /\ provider'[p].at = "idle" /\ \A q \in Procs \ {p} : provider'[q] = provider[q]
      /\ UNCHANGED <<sessions, tmp, aws, overlapped>>
  BY <1>2 DEF Set, Put, IInv, TypeOK, bounds
<1>4. files \in Seq(Content) /\ tmp \in 0 .. Len(files) /\ final \in 0 .. Len(files)
  BY DEF IInv, TypeOK, DataOK
<1>5. CASE UNCHANGED <<files, final, last>>
  <2>1. DataOK'
    BY <1>3, <1>5 DEF IInv, TypeOK, DataOK, aws
  <2>2. ~overlapped' => FilesOK'
    BY <1>3, <1>5 DEF IInv, FilesOK, Saving
  <2>. QED
    BY <1>2, <1>3, <2>1, <2>2, SaveStep DEF Saving
<1>6. CASE files' = Append(files, t.session) /\ final' = Len(files') /\ last' = t.session
  <2>1. t.session \in Content /\ t.session # Partial
    BY <1>1, SessionProfilesAssumption DEF Content
  <2>2. /\ files' \in Seq(Content) /\ Len(files') = Len(files) + 1 /\ files'[final'] = t.session
        /\ \A i \in 1 .. Len(files) : files'[i] = files[i]
    BY <1>4, <1>6, <2>1
  <2>3. DataOK'
    BY <1>1, <1>3, <1>4, <1>6, <2>2 DEF IInv, TypeOK, DataOK, aws
  <2>4. ASSUME ~overlapped' PROVE FilesOK'
    <3>1. FilesOK
      BY <1>3, <2>4 DEF IInv
    <3>2. tmp' # 0 => tmp' # final'
      BY <1>3, <1>4, <1>6, <2>2
    <3>3. \A q \in Procs : provider[q].at \in Saving => provider[q].file # 0
      BY DEF IInv, ProcOK
    <3>4. \A q \in Procs : provider'[q].at \in Saving => provider'[q] = provider[q]
      BY <1>3 DEF Saving
    <3>5. \A q \in Procs : provider'[q].at = "replacing" => files'[tmp'] # Partial
      BY <1>3, <1>4, <2>2, <3>1, <3>3, <3>4 DEF FilesOK, Saving
    <3>. QED
      BY <1>3, <2>1, <2>2, <3>1, <3>2, <3>4, <3>5 DEF FilesOK
  <2>. QED
    BY <1>2, <1>3, <2>3, <2>4, SaveStep DEF Saving
<1>. QED
  BY <1>5, <1>6 DEF Put

LEMMA OpenTmpOK == ASSUME IInv, NEW p \in Procs, OpenTmp(p) PROVE IInv'
<1>. DEFINE t == provider[p]
            u == [t EXCEPT !.at = "writing", !.file = tmp']
<1>1. t \in Provider /\ t.at = "running" /\ UNCHANGED <<sessions, final, aws, last>>
  BY DEF IInv, TypeOK, OpenTmp, At, bounds
<1>2. files \in Seq(Content) /\ tmp \in 0 .. Len(files) /\ final \in 0 .. Len(files)
  BY DEF IInv, TypeOK, DataOK
<1>3. /\ files' \in Seq(Content) /\ tmp' \in 1 .. Len(files') /\ Len(files) <= Len(files')
      /\ \A i \in 1 .. Len(files) : i # tmp => files'[i] = files[i]
      /\ tmp = 0 => tmp' = Len(files) + 1
      /\ tmp # 0 => tmp' = tmp
  <2>1. Partial \in Content
    BY DEF Content
  <2>2. CASE tmp = 0
    BY <1>2, <2>1, <2>2 DEF OpenTmp
  <2>3. CASE tmp # 0
    BY <1>2, <2>1, <2>3 DEF OpenTmp
  <2>. QED
    BY <2>2, <2>3
<1>4. /\ Set(p, u) /\ u \in Provider /\ u.at = "writing" /\ u.file = tmp' /\ u.id = t.id
      /\ provider'[p] = u /\ \A q \in Procs \ {p} : provider'[q] = provider[q]
  <2>1. tmp' \in Nat
    BY <1>3
  <2>2. Set(p, u) /\ u \in Provider
    BY <1>1, <2>1 DEF OpenTmp, Provider, Labels
  <2>. QED
    BY <1>1, <2>2 DEF Set, Provider, IInv, TypeOK
<1>5. overlapped' \in BOOLEAN /\ (overlapped => overlapped')
      /\ (~overlapped' => \A q \in Procs \ {p} : provider[q].at \notin Saving)
  BY DEF OpenTmp, Others, Saving, IInv, TypeOK, DataOK
<1>6. DataOK'
  BY <1>1, <1>2, <1>3, <1>5 DEF IInv, TypeOK, DataOK, aws
<1>7. ASSUME ~overlapped' PROVE FilesOK'
  <2>1. FilesOK
    BY <1>5, <1>7 DEF IInv
  <2>2. \A q \in Procs : provider'[q].at \in Saving => q = p
    BY <1>4, <1>5, <1>7
  <2>3. tmp' # final
    BY <1>2, <1>3, <2>1 DEF FilesOK
  <2>4. final' # 0 => files'[final'] # Partial
    BY <1>1, <1>2, <1>3, <2>1 DEF FilesOK
  <2>. QED
    BY <1>1, <1>4, <2>2, <2>3, <2>4 DEF FilesOK, Saving
<1>. QED
  <2>1. u.file # 0 /\ u.at \in Saving
    BY <1>3, <1>4 DEF Saving
  <2>. QED
    BY <1>1, <1>4, <1>6, <1>7, <2>1, SaveStep

LEMMA WriteTmpOK == ASSUME IInv, NEW p \in Procs, WriteTmp(p) PROVE IInv'
<1>. DEFINE t == provider[p]
            u == [t EXCEPT !.at = "replacing"]
<1>1. t \in Provider /\ t.at = "writing" /\ t.file # 0 /\ t.session \in Nat
      /\ UNCHANGED <<sessions, tmp, final, aws, last, overlapped>>
  BY DEF IInv, TypeOK, ProcOK, Saving, WriteTmp, At, bounds, Provider
<1>2. files \in Seq(Content) /\ tmp \in 0 .. Len(files) /\ final \in 0 .. Len(files)
  BY DEF IInv, TypeOK, DataOK
<1>3. PICK content \in {t.session, Partial} :
          /\ files' = [files EXCEPT ![t.file] = content]
          /\ content = Partial => \E q \in Procs \ {p} : provider[q].file = t.file
  BY SessionProfilesAssumption, <1>1 DEF WriteTmp
<1>4. files' \in Seq(Content) /\ Len(files') = Len(files)
  <2>1. content \in Content
    BY <1>1 DEF Content
  <2>2. CASE t.file \in 1 .. Len(files)
    BY <1>2, <1>3, <2>1, <2>2
  <2>3. CASE t.file \notin 1 .. Len(files)
    <3>1. files' = files
      BY <1>2, <1>3, <2>3
    <3>. QED
      BY <1>2, <3>1
  <2>. QED
    BY <2>2, <2>3
<1>5. /\ Set(p, u) /\ u \in Provider /\ u.at = "replacing" /\ u.file = t.file /\ u.id = t.id
      /\ provider'[p] = u /\ \A q \in Procs \ {p} : provider'[q] = provider[q]
  BY <1>1 DEF WriteTmp, Goes, Set, Provider, Labels, IInv, TypeOK
<1>6. DataOK'
  BY <1>1, <1>2, <1>4 DEF IInv, TypeOK, DataOK, aws
<1>7. ASSUME ~overlapped' PROVE FilesOK'
  <2>1. FilesOK
    BY <1>1, <1>7 DEF IInv
  <2>2. \A q \in Procs \ {p} : provider[q].at \notin Saving /\ provider[q].file = 0
    BY <1>1, <2>1 DEF FilesOK, Saving, IInv, ProcOK
  <2>3. t.file = tmp /\ tmp # final
    BY <1>1, <2>1 DEF FilesOK, Saving
  <2>4. content # Partial
    BY <1>1, <1>3, <2>2
  <2>5. files'[tmp] # Partial /\ (final # 0 => files'[final] # Partial)
    BY <1>1, <1>2, <1>3, <2>1, <2>3, <2>4 DEF FilesOK
  <2>6. \A q \in Procs : provider'[q].at \in Saving => q = p
    BY <1>5, <2>2
  <2>. QED
    BY <1>1, <1>5, <2>3, <2>5, <2>6 DEF FilesOK, Saving
<1>. QED
  BY <1>1, <1>5, <1>6, <1>7, SaveStep DEF Saving

LEMMA EndOK == ASSUME IInv, NEW p \in Procs, Replace(p) \/ SaveFails(p) \/ Crash(p) PROVE IInv'
<1>. DEFINE t == provider[p]
            e == [t EXCEPT !.at = "idle", !.file = 0, !.kept = FALSE, !.cache = None]
<1>1. t \in Provider /\ UNCHANGED <<sessions, files, aws, overlapped>>
  BY DEF IInv, TypeOK, Replace, SaveFails, Crash, stored, bounds
<1>2. PICK u \in Provider : Set(p, u) /\ u.at = "idle" /\ u.file = 0 /\ (u.id = t.id \/ u.id = 0)
  <2>1. e \in Provider /\ e.at = "idle" /\ e.file = 0 /\ e.id = t.id
    BY <1>1 DEF Provider, Labels
  <2>2. Fresh \in Provider /\ Fresh.at = "idle" /\ Fresh.file = 0 /\ Fresh.id = 0
    BY DEF Fresh, Provider, Labels, Content
  <2>. QED
    BY <2>1, <2>2 DEF Replace, SaveFails, Crash, EndSave
<1>3. provider'[p] = u /\ \A q \in Procs \ {p} : provider'[q] = provider[q]
  BY <1>2 DEF Set, IInv, TypeOK
<1>4. \/ UNCHANGED <<tmp, final, last>>
      \/ t.at = "replacing" /\ final' = tmp /\ tmp' = 0 /\ last' = t.session
  BY DEF Replace, SaveFails, Crash, stored, At
<1>5. DataOK'
  BY <1>1, <1>4 DEF IInv, TypeOK, DataOK, aws, Provider
<1>6. ASSUME ~overlapped' PROVE FilesOK'
  <2>1. FilesOK
    BY <1>1, <1>6 DEF IInv
  <2>2. \A q \in Procs : provider'[q].at \in Saving => q # p /\ provider'[q] = provider[q]
    BY <1>2, <1>3 DEF Saving
  <2>3. CASE UNCHANGED <<tmp, final, last>>
    BY <1>1, <2>1, <2>2, <2>3 DEF FilesOK, Saving
  <2>4. CASE t.at = "replacing" /\ final' = tmp /\ tmp' = 0
    <3>1. files[tmp] # Partial
      BY <2>1, <2>4 DEF FilesOK
    <3>2. \A q \in Procs : provider'[q].at \notin Saving
      BY <2>1, <2>2, <2>4 DEF FilesOK, Saving
    <3>. QED
      BY <1>1, <2>4, <3>1, <3>2 DEF FilesOK, Saving
  <2>. QED
    BY <1>4, <2>3, <2>4
<1>. QED
  BY <1>1, <1>2, <1>5, <1>6, SaveStep DEF Saving

LEMMA DeleteOK == ASSUME IInv, NEW i \in DOMAIN profiles, Delete(i) PROVE IInv'
<1>1. profiles' = [profiles EXCEPT ![i].usable = FALSE] /\ profiles \in Seq(Profile)
      /\ UNCHANGED <<sessions, stored, cached, provider, last, overlapped>>
  BY DEF Delete, IInv, TypeOK, DataOK
<1>2. [profiles[i] EXCEPT !.usable = FALSE] \in Profile
  <2>1. profiles[i] \in Profile
    BY <1>1
  <2>. QED
    BY <2>1 DEF Profile
<1>3. profiles' \in Seq(Profile) /\ Len(profiles') = Len(profiles)
  BY <1>1, <1>2
<1>. QED
  BY <1>1, <1>3 DEF IInv, TypeOK, DataOK, ProcOK, FilesOK, stored

LEMMA StepOK == IInv /\ [Next]_vars => IInv'
<1>. SUFFICES ASSUME IInv, [Next]_vars PROVE IInv'
  OBVIOUS
<1>1. CASE UNCHANGED vars
  BY <1>1 DEF vars, bounds, stored, aws, IInv, TypeOK, DataOK, ProcOK, FilesOK
<1>2. CASE Next
  BY <1>2, LoadOK, AgentCoreOK, PutOK, OpenTmpOK, WriteTmpOK, EndOK, DeleteOK DEF Next
<1>. QED
  BY <1>1, <1>2

\* The invariant, for any number of processes and sessions.
LEMMA Invariant == Spec => []IInv
  BY InitOK, StepOK, PTL DEF Spec

\* The cookies and the local storage of a session are of one saved state.
THEOREM OneStateRestored == Spec => []RestoresOneState
<1>1. IInv => RestoresOneState
  BY DEF IInv, ProcOK, RestoresOneState, Running, At
<1>. QED
  BY <1>1, Invariant, PTL

\* Wherever a save breaks off, the file that is there can be loaded.
THEOREM SaveIsAtomic == Spec => []SavedStateIntact
<1>1. IInv => SavedStateIntact
  BY DEF IInv, FilesOK, SavedStateIntact
<1>. QED
  BY <1>1, Invariant, PTL
-----------------------------------------------------------------------------
(* A session starts from what was saved last.                              *)

\* Where the steps of the kinds of providers lead.
AgentCoreOnly == {"validating", "searching", "creating", "opening"}

\* What a provider that came to save last time has at its label: nothing in its
\* cache between sessions; from its start on, what was saved last when it started.
StartAt(t, kind, over, count, written) ==
    /\ t.at \in AgentCoreOnly => kind = "agentcore"
    /\ t.at \in Saving => kind = "file"
    /\ t.at = "cookies" => kind # "agentcore"
    /\ kind = "agentcore" => t.cache = None
    /\ t.at = "idle" /\ ~t.kept => t.cache = None
    /\ ~over /\ count < 2 /\ t.at \in {"cookies", "running"} /\ ~t.kept => t.cookies = t.due
    /\ ~over /\ t.at = "replacing" => written = t.session

StartOK(p) == StartAt(provider[p], setting.kind, overlapped, Len(profiles), files[tmp])

\* What was saved last is what there is to load.
LastOK ==
    /\ setting.kind # "agentcore" /\ ~overlapped => Saved = last
    /\ setting.kind = "agentcore" =>
           /\ Len(profiles) = 0 => last = 0
           /\ Len(profiles) = 1 => profiles[1].state = last

StartInv == IInv /\ (\A p \in Procs : StartOK(p)) /\ LastOK

LEMMA StartInit == Init => StartInv
<1>. SUFFICES ASSUME Init PROVE StartInv
  OBVIOUS
<1>1. \A p \in Procs : StartOK(p)
  BY DEF Init, Fresh, StartOK, StartAt, AgentCoreOnly, Saving
<1>2. LastOK
  BY DEF Init, LastOK, Saved
<1>. QED
  BY <1>1, <1>2, InitOK DEF StartInv

\* A step of one provider: the others have what they had.
LEMMA StartStep ==
    ASSUME StartInv, IInv', UNCHANGED setting, overlapped => overlapped',
           Len(profiles) <= Len(profiles'), LastOK', NEW p \in Procs, NEW t, Set(p, t),
           StartAt(t, setting.kind, overlapped', Len(profiles'), files'[tmp']),
           \A q \in Procs \ {p} :
               provider[q].at = "replacing" /\ ~overlapped' => files'[tmp'] = files[tmp]
    PROVE  StartInv'
<1>1. provider'[p] = t /\ \A q \in Procs \ {p} : provider'[q] = provider[q]
  BY DEF Set, StartInv, IInv, TypeOK
<1>2. Len(profiles) \in Nat /\ Len(profiles') \in Nat
  BY DEF StartInv, IInv, TypeOK, DataOK
<1>3. ASSUME NEW q \in Procs \ {p} PROVE StartOK(q)'
  <2>. DEFINE u == provider[q]
  <2>1. StartAt(u, setting.kind, overlapped, Len(profiles), files[tmp])
    BY DEF StartInv, StartOK
  <2>2. u.at = "replacing" /\ ~overlapped' => files'[tmp'] = files[tmp]
    OBVIOUS
  <2>3. provider'[q] = u
    BY <1>1
  <2>. HIDE DEF u
  <2>4. StartAt(u, setting.kind, overlapped', Len(profiles'), files'[tmp'])
    BY <1>2, <2>1, <2>2 DEF StartAt
  <2>. QED
    BY <2>3, <2>4 DEF StartOK
<1>4. StartOK(p)'
  BY <1>1 DEF StartOK
<1>. QED
  BY <1>3, <1>4 DEF StartInv

\* The same where nothing that is stored, in files or by AWS, changes.
LEMMA StartAlone ==
    ASSUME StartInv, IInv', UNCHANGED <<setting, stored, profiles, last>>, overlapped => overlapped',
           NEW p \in Procs, NEW t, Set(p, t),
           StartAt(t, setting.kind, overlapped', Len(profiles), files[tmp])
    PROVE  StartInv'
<1>1. Len(profiles) \in Nat /\ UNCHANGED <<files, tmp, final>>
  BY DEF StartInv, IInv, TypeOK, DataOK, stored
<1>2. LastOK'
  BY <1>1 DEF StartInv, LastOK, Saved
<1>. QED
  BY <1>1, <1>2, StartStep

\* A provider that ends a save, or is another's now, knows nothing.
LEMMA Ended ==
    ASSUME NEW t, t.at = "idle", t.cache = None, NEW kind, NEW over, NEW count, NEW written
    PROVE  StartAt(t, kind, over, count, written)
  BY DEF StartAt, AgentCoreOnly, Saving

LEMMA StartLoadOK ==
    ASSUME StartInv, IInv', NEW p \in Procs, LoadCookies(p) \/ LoadLocalStorage(p) \/ Abandon(p)
    PROVE  StartInv'
<1>. DEFINE t == provider[p]
<1>1. t \in Provider /\ ProcOK(p) /\ StartAt(t, setting.kind, overlapped, Len(profiles), files[tmp])
  BY DEF StartInv, StartOK, IInv, TypeOK
<1>2. UNCHANGED <<setting, stored, profiles, last, overlapped>>
  BY DEF LoadCookies, LoadLocalStorage, Abandon, aws
<1>3. CASE UNCHANGED provider
  <2>1. Set(p, t)
    BY <1>3 DEF Set, StartInv, IInv, TypeOK
  <2>. QED
    BY <1>1, <1>2, <2>1, StartAlone
<1>4. CASE LoadCookies(p) /\ ~ UNCHANGED provider
  <2>. DEFINE state == Session(t)
              u == [t EXCEPT !.at = "cookies", !.session = sessions', !.cache = state,
                             !.cookies = state, !.due = last]
  <2>1. Set(p, u) /\ t.at = "idle" /\ setting.kind # "agentcore"
    BY <1>4 DEF LoadCookies, Begins, At
  <2>2. ~overlapped /\ ~t.kept => state = last
    BY <1>1, <2>1 DEF StartAt, StartInv, LastOK, Session
  <2>. HIDE DEF state
  <2>3. u.at = "cookies" /\ u.cookies = state /\ u.due = last /\ u.kept = t.kept
    BY <1>1 DEF Provider
  <2>. HIDE DEF u
  <2>4. StartAt(u, setting.kind, overlapped, Len(profiles), files[tmp])
    BY <2>1, <2>2, <2>3 DEF StartAt, AgentCoreOnly, Saving
  <2>. QED
    BY <1>2, <2>1, <2>4, StartAlone
<1>5. CASE LoadLocalStorage(p)
  <2>. DEFINE state == Session(t)
              u == [t EXCEPT !.at = "running", !.origins = state]
  <2>1. Set(p, u) /\ t.at = "cookies"
    BY <1>5 DEF LoadLocalStorage, At
  <2>2. /\ u.at = "running" /\ u.cookies = t.cookies /\ u.due = t.due /\ u.kept = t.kept
        /\ u.cache = t.cache
    BY <1>1 DEF Provider
  <2>. HIDE DEF u
  <2>3. StartAt(u, setting.kind, overlapped, Len(profiles), files[tmp])
    BY <1>1, <2>1, <2>2 DEF StartAt, AgentCoreOnly, Saving
  <2>. QED
    BY <1>2, <2>1, <2>3, StartAlone
<1>6. CASE Abandon(p)
  <2>. DEFINE u == [t EXCEPT !.at = "idle", !.kept = TRUE]
  <2>1. Set(p, u) /\ setting.kind # "agentcore"
    BY <1>6 DEF Abandon
  <2>2. u.at = "idle" /\ u.kept
    BY <1>1 DEF Provider
  <2>. HIDE DEF u
  <2>3. StartAt(u, setting.kind, overlapped, Len(profiles), files[tmp])
    BY <2>1, <2>2 DEF StartAt, AgentCoreOnly, Saving
  <2>. QED
    BY <1>2, <2>1, <2>3, StartAlone
<1>. QED
  BY <1>3, <1>4, <1>5, <1>6

\* The saves: what is stored last is what is there to load.
LEMMA StartPutOK == ASSUME StartInv, IInv', NEW p \in Procs, Put(p) PROVE StartInv'
<1>. DEFINE t == provider[p]
            u == [t EXCEPT !.at = "idle", !.file = 0, !.kept = FALSE, !.cache = None]
<1>1. t \in Provider /\ Set(p, u) /\ setting.kind = "s3" /\ UNCHANGED <<setting, tmp, aws, overlapped>>
  BY DEF StartInv, IInv, TypeOK, Put, EndSave
<1>2. u.at = "idle" /\ u.cache = None
  BY <1>1 DEF Provider
<1>. HIDE DEF u
<1>3. LastOK'
  <2>1. files \in Seq(Content)
    BY DEF StartInv, IInv, TypeOK, DataOK
  <2>2. CASE UNCHANGED <<files, final, last>>
    BY <1>1, <2>2 DEF StartInv, LastOK, Saved
  <2>3. CASE files' = Append(files, t.session) /\ final' = Len(files') /\ last' = t.session
    <3>1. final' # 0 /\ files'[final'] = t.session
      BY <2>1, <2>3
    <3>. QED
      BY <1>1, <2>3, <3>1 DEF LastOK, Saved
  <2>. QED
    BY <2>2, <2>3 DEF Put
<1>4. \A q \in Procs : provider[q].at # "replacing"
  BY <1>1 DEF StartInv, StartOK, StartAt, Saving
<1>5. StartAt(u, setting.kind, overlapped', Len(profiles'), files'[tmp'])
  BY <1>2, Ended
<1>6. Len(profiles) <= Len(profiles')
  BY <1>1 DEF StartInv, IInv, TypeOK, DataOK, aws
<1>. QED
  BY <1>1, <1>3, <1>4, <1>5, <1>6, StartStep

LEMMA StartOpenOK == ASSUME StartInv, IInv', NEW p \in Procs, OpenTmp(p) PROVE StartInv'
<1>. DEFINE t == provider[p]
            u == [t EXCEPT !.at = "writing", !.file = tmp']
<1>1. /\ t \in Provider /\ Set(p, u) /\ setting.kind = "file" /\ t.at = "running"
      /\ UNCHANGED <<setting, final, aws, last>>
  BY DEF StartInv, IInv, TypeOK, OpenTmp, At
<1>2. u.at = "writing"
  BY <1>1 DEF Provider
<1>3. /\ overlapped => overlapped'
      /\ ~overlapped' => \A q \in Procs \ {p} : provider[q].at \notin Saving
  BY DEF OpenTmp, Others, Saving
<1>4. /\ files \in Seq(Content) /\ tmp \in 0 .. Len(files) /\ final \in 0 .. Len(files)
      /\ Len(profiles) \in Nat
  BY DEF StartInv, IInv, TypeOK, DataOK
<1>5. ~overlapped' /\ final # 0 => files'[final] = files[final]
  <2>. SUFFICES ASSUME ~overlapped', final # 0 PROVE files'[final] = files[final]
    OBVIOUS
  <2>1. tmp # 0 => tmp # final
    BY <1>3 DEF StartInv, IInv, FilesOK
  <2>2. CASE tmp = 0
    BY <1>4, <2>2 DEF OpenTmp
  <2>3. CASE tmp # 0
    BY <1>4, <2>1, <2>3 DEF OpenTmp
  <2>. QED
    BY <2>2, <2>3
<1>6. LastOK'
  BY <1>1, <1>3, <1>5 DEF StartInv, LastOK, Saved
<1>. HIDE DEF u
<1>7. StartAt(u, setting.kind, overlapped', Len(profiles'), files'[tmp'])
  BY <1>1, <1>2 DEF StartAt, AgentCoreOnly, Saving
<1>8. \A q \in Procs \ {p} : provider[q].at = "replacing" /\ ~overlapped' => FALSE
  BY <1>3 DEF Saving
<1>9. Len(profiles) <= Len(profiles')
  BY <1>1, <1>4 DEF aws
<1>. QED
  BY <1>1, <1>3, <1>6, <1>7, <1>8, <1>9, StartStep

LEMMA StartWriteOK == ASSUME StartInv, IInv', NEW p \in Procs, WriteTmp(p) PROVE StartInv'
<1>. DEFINE t == provider[p]
            u == [t EXCEPT !.at = "replacing"]
<1>1. /\ t \in Provider /\ Set(p, u) /\ t.at = "writing" /\ t.at \in Saving /\ t.file # 0
      /\ UNCHANGED <<setting, tmp, final, aws, last, overlapped>>
  BY DEF StartInv, IInv, TypeOK, ProcOK, Saving, WriteTmp, At, Goes
<1>2. u.at = "replacing" /\ u.session = t.session
  BY <1>1 DEF Provider
<1>3. /\ files \in Seq(Content) /\ tmp \in 0 .. Len(files) /\ final \in 0 .. Len(files)
      /\ Len(profiles) \in Nat
  BY DEF StartInv, IInv, TypeOK, DataOK
<1>4. PICK content : /\ files' = [files EXCEPT ![t.file] = content]
                     /\ content = t.session \/ \E q \in Procs \ {p} : provider[q].file = t.file
  BY DEF WriteTmp
<1>5. ~overlapped => \A q \in Procs \ {p} : provider[q].at \notin Saving
  BY <1>1 DEF StartInv, IInv, FilesOK
<1>6. ~overlapped => files'[tmp] = t.session /\ (final # 0 => files'[final] = files[final])
  <2>. SUFFICES ASSUME ~overlapped
                PROVE  files'[tmp] = t.session /\ (final # 0 => files'[final] = files[final])
    OBVIOUS
  <2>1. t.file = tmp /\ tmp # final
    BY <1>1 DEF StartInv, IInv, FilesOK
  <2>2. \A q \in Procs \ {p} : provider[q].file = 0
    BY <1>5 DEF StartInv, IInv, ProcOK
  <2>. QED
    BY <1>1, <1>3, <1>4, <2>1, <2>2
<1>7. LastOK'
  BY <1>1, <1>6 DEF StartInv, LastOK, Saved, aws
<1>8. setting.kind = "file"
  BY <1>1 DEF StartInv, StartOK, StartAt
<1>. HIDE DEF u
<1>9. StartAt(u, setting.kind, overlapped', Len(profiles'), files'[tmp'])
  BY <1>1, <1>2, <1>6, <1>8 DEF StartAt, AgentCoreOnly, Saving
<1>10. \A q \in Procs \ {p} : provider[q].at = "replacing" /\ ~overlapped' => FALSE
  BY <1>1, <1>5 DEF Saving
<1>11. Len(profiles) <= Len(profiles')
  BY <1>1, <1>3 DEF aws
<1>. QED
  BY <1>1, <1>7, <1>9, <1>10, <1>11, StartStep

LEMMA StartEndOK ==
    ASSUME StartInv, IInv', NEW p \in Procs, Replace(p) \/ SaveFails(p) \/ Crash(p)
    PROVE  StartInv'
<1>. DEFINE t == provider[p]
            e == [t EXCEPT !.at = "idle", !.file = 0, !.kept = FALSE, !.cache = None]
<1>1. t \in Provider /\ UNCHANGED <<setting, files, aws, overlapped>> /\ Len(profiles) \in Nat
  BY DEF StartInv, IInv, TypeOK, DataOK, Replace, SaveFails, Crash, stored
<1>2. PICK u : Set(p, u) /\ u.at = "idle" /\ u.cache = None
  <2>1. e.at = "idle" /\ e.cache = None
    BY <1>1 DEF Provider
  <2>2. Fresh.at = "idle" /\ Fresh.cache = None
    BY DEF Fresh
  <2>3. Set(p, e) \/ Set(p, Fresh)
    BY DEF Replace, SaveFails, Crash, EndSave
  <2>. QED
    BY <2>1, <2>2, <2>3
<1>3. StartAt(u, setting.kind, overlapped', Len(profiles'), files'[tmp'])
  BY <1>2, Ended
<1>4. CASE UNCHANGED <<tmp, final, last>>
  <2>1. UNCHANGED <<stored, profiles>>
    BY <1>1, <1>4 DEF stored, aws
  <2>2. StartAt(u, setting.kind, overlapped', Len(profiles), files[tmp])
    BY <1>2, Ended
  <2>. QED
    BY <1>1, <1>2, <1>4, <2>1, <2>2, StartAlone
<1>5. CASE t.at = "replacing" /\ final' = tmp /\ tmp' = 0 /\ last' = t.session /\ tmp # 0
  <2>1. ~overlapped => files[tmp] = t.session
    BY <1>5 DEF StartInv, StartOK, StartAt
  <2>2. setting.kind = "file"
    BY <1>5 DEF StartInv, StartOK, StartAt, Saving
  <2>3. LastOK'
    BY <1>1, <1>5, <2>1, <2>2 DEF LastOK, Saved
  <2>4. \A q \in Procs \ {p} : provider[q].at = "replacing" /\ ~overlapped' => FALSE
    BY <1>1, <1>5 DEF StartInv, IInv, FilesOK, Saving
  <2>5. Len(profiles) <= Len(profiles')
    BY <1>1 DEF aws
  <2>. QED
    BY <1>1, <1>2, <1>3, <2>3, <2>4, <2>5, StartStep
<1>. QED
  BY <1>4, <1>5 DEF Replace, SaveFails, Crash, stored, At

\* AgentCore: the profile has what was saved last, and the session what the profile has.
LEMMA StartAgentCoreOK ==
    ASSUME StartInv, IInv', NEW p \in Procs,
           Resolve(p) \/ Validate(p) \/ Search(p) \/ Create(p) \/ OpenSession(p) \/ SaveProfile(p)
    PROVE  StartInv'
<1>. DEFINE t == provider[p]
<1>1. /\ t \in Provider /\ ProcOK(p)
      /\ StartAt(t, setting.kind, overlapped, Len(profiles), files[tmp])
      /\ profiles \in Seq(Profile)
  BY DEF StartInv, StartOK, IInv, TypeOK, DataOK
<1>2. UNCHANGED <<setting, stored>> /\ (overlapped => overlapped')
  <2>1. UNCHANGED <<setting, stored>>
    BY DEF Resolve, Validate, Search, Create, OpenSession, SaveProfile
  <2>2. overlapped => overlapped'
    BY DEF Resolve, Validate, Search, Create, OpenSession, SaveProfile
  <2>. QED
    BY <2>1, <2>2
<1>3. setting.kind = "agentcore" /\ t.cache = None
  <2>1. t.at \in AgentCoreOnly \/ setting.kind = "agentcore"
    BY DEF Resolve, Validate, Search, Create, OpenSession, SaveProfile, At, AgentCoreOnly
  <2>. QED
    BY <1>1, <2>1 DEF StartAt
<1>4. ASSUME NEW u, u.at \in AgentCoreOnly \cup {"idle"}, u.cache = None,
             NEW over, NEW count, NEW written
      PROVE  StartAt(u, setting.kind, over, count, written)
  BY <1>3, <1>4 DEF StartAt, AgentCoreOnly, Saving
<1>5. CASE ~ Create(p) /\ ~ OpenSession(p) /\ ~ SaveProfile(p)
  <2>1. UNCHANGED <<profiles, last>>
    BY <1>5 DEF Resolve, Validate, Search, aws
  <2>2. ASSUME NEW u, Set(p, u), u.at \in AgentCoreOnly, u.cache = None PROVE StartInv'
    <3>1. StartAt(u, setting.kind, overlapped', Len(profiles), files[tmp])
      BY <1>4, <2>2
    <3>. QED
      BY <1>2, <2>1, <2>2, <3>1, StartAlone
  <2>3. CASE Resolve(p)
    <3>. DEFINE label == IF t.id # 0 THEN "opening"
                         ELSE IF cached[p] # 0 THEN "validating" ELSE "searching"
                u == [t EXCEPT !.session = sessions', !.at = label]
    <3>1. Set(p, u) /\ label \in AgentCoreOnly
      BY <2>3 DEF Resolve, AgentCoreOnly
    <3>. HIDE DEF label
    <3>2. u.at = label /\ u.cache = None
      BY <1>1, <1>3 DEF Provider
    <3>. QED
      BY <2>2, <3>1, <3>2
  <2>4. ASSUME NEW label \in AgentCoreOnly, Goes(p, label) PROVE StartInv'
    <3>. DEFINE u == [t EXCEPT !.at = label]
    <3>1. Set(p, u) /\ u.at = label /\ u.cache = None
      BY <1>1, <1>3, <2>4 DEF Goes, Provider
    <3>. QED
      BY <2>2, <3>1
  <2>5. ASSUME NEW i, Set(p, [t EXCEPT !.at = "opening", !.id = i]) PROVE StartInv'
    <3>. DEFINE u == [t EXCEPT !.at = "opening", !.id = i]
    <3>1. u.at = "opening" /\ u.cache = None
      BY <1>1, <1>3 DEF Provider
    <3>. QED
      BY <2>2, <2>5, <3>1 DEF AgentCoreOnly
  <2>. QED
    BY <1>5, <2>3, <2>4, <2>5 DEF Validate, Search, Takes, AgentCoreOnly
<1>6. CASE Create(p)
  <2>1. PICK u : Set(p, u) /\ u.at \in {"opening", "idle"} /\ u.cache = None
    <3>. DEFINE i == Len(profiles')
                v == [t EXCEPT !.at = "opening", !.id = i]
                e == [t EXCEPT !.at = "idle"]
    <3>1. v.at = "opening" /\ v.cache = None /\ e.at = "idle" /\ e.cache = None
      BY <1>1, <1>3 DEF Provider
    <3>2. Set(p, v) \/ Set(p, e)
      BY <1>6 DEF Create, Takes, Goes
    <3>. HIDE DEF v, e
    <3>. QED
      BY <3>1, <3>2
  <2>2. StartAt(u, setting.kind, overlapped', Len(profiles'), files'[tmp'])
    BY <1>4, <2>1 DEF AgentCoreOnly
  <2>3. UNCHANGED last /\ (UNCHANGED profiles \/ profiles' = Append(profiles, [usable |-> TRUE, state |-> 0]))
    BY <1>6 DEF Create, aws
  <2>4. LastOK' /\ Len(profiles) <= Len(profiles')
    <3>1. CASE UNCHANGED profiles
      BY <1>1, <1>2, <1>3, <2>3, <3>1 DEF StartInv, LastOK
    <3>2. CASE profiles' = Append(profiles, [usable |-> TRUE, state |-> 0])
      <4>1. Len(profiles') = Len(profiles) + 1 /\ (Len(profiles) = 0 => profiles'[1].state = 0)
        BY <1>1, <3>2
      <4>2. Len(profiles) \in Nat
        BY <1>1
      <4>. QED
        BY <1>2, <1>3, <2>3, <4>1, <4>2 DEF StartInv, LastOK
    <3>. QED
      BY <2>3, <3>1, <3>2
  <2>5. files'[tmp'] = files[tmp]
    BY <1>2 DEF stored
  <2>. QED
    BY <1>2, <2>1, <2>2, <2>4, <2>5, StartStep
<1>7. CASE OpenSession(p)
  <2>1. UNCHANGED <<profiles, last>>
    BY <1>7 DEF OpenSession, aws
  <2>2. CASE Goes(p, "idle")
    <3>. DEFINE u == [t EXCEPT !.at = "idle"]
    <3>1. Set(p, u) /\ u.at = "idle" /\ u.cache = None
      BY <1>1, <1>3, <2>2 DEF Goes, Provider
    <3>2. StartAt(u, setting.kind, overlapped', Len(profiles), files[tmp])
      BY <1>4, <3>1
    <3>. QED
      BY <1>2, <2>1, <3>1, <3>2, StartAlone
  <2>3. CASE ~ Goes(p, "idle")
    <3>. DEFINE state == profiles[t.id].state
                u == [t EXCEPT !.at = "running", !.cookies = state, !.origins = state, !.due = last]
    <3>1. Usable(t.id) /\ Set(p, u)
      BY <1>7, <2>3 DEF OpenSession
    <3>2. u.at = "running" /\ u.cookies = state /\ u.due = last /\ u.cache = None
      BY <1>1, <1>3 DEF Provider
    <3>3. Len(profiles) < 2 => state = last
      <4>1. t.id \in 1 .. Len(profiles) /\ Len(profiles) \in Nat
        BY <1>1, <3>1 DEF ProcOK, Usable
      <4>2. \A n \in Nat : \A i \in 1 .. n : n < 2 => n = 1 /\ i = 1
        OBVIOUS
      <4>3. Len(profiles) < 2 => Len(profiles) = 1 /\ t.id = 1
        BY <4>1, <4>2
      <4>. QED
        BY <1>3, <4>3 DEF StartInv, LastOK
    <3>. HIDE DEF u
    <3>4. StartAt(u, setting.kind, overlapped', Len(profiles), files[tmp])
      BY <1>3, <3>2, <3>3 DEF StartAt, AgentCoreOnly, Saving
    <3>. QED
      BY <1>2, <2>1, <3>1, <3>4, StartAlone
  <2>. QED
    BY <2>2, <2>3
<1>8. CASE SaveProfile(p)
  <2>. DEFINE u == [t EXCEPT !.at = "idle"]
  <2>1. Set(p, u) /\ u.at = "idle" /\ u.cache = None
    BY <1>1, <1>3, <1>8 DEF SaveProfile, Goes, Provider
  <2>2. StartAt(u, setting.kind, overlapped', Len(profiles'), files'[tmp'])
    BY <1>4, <2>1
  <2>3. LastOK' /\ Len(profiles) <= Len(profiles')
    <3>0. Len(profiles) \in Nat
      BY <1>1
    <3>1. CASE UNCHANGED <<profiles, last>>
      BY <1>2, <1>3, <3>0, <3>1 DEF StartInv, LastOK
    <3>2. CASE /\ Usable(t.id) /\ last' = t.session
               /\ profiles' = [profiles EXCEPT ![t.id].state = t.session]
      <4>1. t.id \in 1 .. Len(profiles)
        BY <1>1, <3>0, <3>2 DEF ProcOK, Usable
      <4>2. Len(profiles') = Len(profiles) /\ Len(profiles) # 0
        BY <1>1, <3>0, <3>2, <4>1
      <4>3. profiles'[t.id].state = t.session
        <5>1. profiles[t.id] \in Profile
          BY <1>1, <4>1
        <5>2. profiles'[t.id] = [profiles[t.id] EXCEPT !.state = t.session]
          BY <1>1, <3>2, <4>1
        <5>. QED
          BY <5>1, <5>2 DEF Profile
      <4>4. Len(profiles) = 1 => t.id = 1
        BY <4>1
      <4>. QED
        BY <1>2, <1>3, <3>0, <3>2, <4>2, <4>3, <4>4 DEF LastOK
    <3>. QED
      BY <1>8, <3>1, <3>2 DEF SaveProfile
  <2>4. files'[tmp'] = files[tmp]
    BY <1>2 DEF stored
  <2>. QED
    BY <1>2, <2>1, <2>2, <2>3, <2>4, StartStep
<1>. QED
  BY <1>5, <1>6, <1>7, <1>8

\* A profile that is deleted keeps its number and its state.
LEMMA Deleted ==
    ASSUME IInv, NEW i \in DOMAIN profiles, Delete(i)
    PROVE  /\ Len(profiles') = Len(profiles) /\ DOMAIN profiles' = DOMAIN profiles
           /\ \A j \in DOMAIN profiles : profiles'[j].state = profiles[j].state
           /\ \A j \in DOMAIN profiles : profiles'[j].usable => profiles[j].usable
<1>1. profiles \in Seq(Profile) /\ profiles[i] \in Profile
  BY DEF IInv, TypeOK, DataOK
<1>2. profiles' = [profiles EXCEPT ![i] = [profiles[i] EXCEPT !.usable = FALSE]]
  BY DEF Delete
<1>. QED
  BY <1>1, <1>2 DEF Profile

LEMMA StartDeleteOK == ASSUME StartInv, IInv', NEW i \in DOMAIN profiles, Delete(i) PROVE StartInv'
<1>1. UNCHANGED <<setting, stored, provider, last, overlapped>>
  BY DEF Delete
<1>2. Len(profiles') = Len(profiles) /\ (Len(profiles) = 1 => profiles'[1].state = profiles[1].state)
  <2>1. Len(profiles) = 1 => 1 \in DOMAIN profiles
    BY DEF StartInv, IInv, TypeOK, DataOK
  <2>. QED
    BY <2>1, Deleted DEF StartInv
<1>3. LastOK'
  BY <1>1, <1>2 DEF StartInv, LastOK, Saved, stored
<1>. QED
  BY <1>1, <1>2, <1>3 DEF StartInv, StartOK, stored

LEMMA StartInvStep == StartInv /\ [Next]_vars => StartInv'
<1>. SUFFICES ASSUME StartInv, [Next]_vars PROVE StartInv'
  OBVIOUS
<1>1. IInv'
  BY StepOK DEF StartInv
<1>2. CASE UNCHANGED vars
  BY <1>1, <1>2 DEF vars, bounds, stored, aws, StartInv, StartOK, LastOK, Saved
<1>3. CASE Next
  BY <1>1, <1>3, StartLoadOK, StartPutOK, StartOpenOK, StartWriteOK, StartEndOK, StartAgentCoreOK,
     StartDeleteOK DEF Next
<1>. QED
  BY <1>2, <1>3

\* A session starts from what was saved last, whoever saved it, with any number of
\* processes, and after any saves and starts that failed: unless two saved at once,
\* the profile was replaced, or the provider's session before never came to save.
THEOREM LatestStateRestored == Spec => []StartsFromLastSave
<1>1. StartInv => StartsFromLastSave
  BY DEF StartInv, StartOK, StartAt, StartsFromLastSave, Running, At
<1>. QED
  BY <1>1, StartInit, StartInvStep, PTL DEF Spec
-----------------------------------------------------------------------------
(* One name stands for one profile.                                        *)

\* One process at a time looks for the profile, and creates one where there is none.
OneInv ==
    /\ IInv
    /\ ~overlapped =>
           \A p, q \in Procs : provider[p].at \in Looking /\ provider[q].at \in Looking => p = q
    /\ ~overlapped /\ ~Faults =>
           /\ \A i, j \in DOMAIN profiles : Usable(i) /\ Usable(j) => i = j
           /\ \A p \in Procs : provider[p].at = "creating" => \A i \in DOMAIN profiles : ~Usable(i)

LEMMA OneInit == Init => OneInv
  BY InitOK DEF Init, Fresh, OneInv, Looking

\* A step that makes no profile usable, and takes no provider in between two others
\* that look for one.
LEMMA OneStep ==
    ASSUME OneInv, IInv', UNCHANGED setting, overlapped => overlapped',
           \A i \in DOMAIN profiles' : Usable(i)' => i \in DOMAIN profiles /\ Usable(i),
           NEW p \in Procs, NEW t, Set(p, t),
           \/ t.at \notin Looking \/ provider[p].at \in Looking
           \/ overlapped' \/ \A q \in Procs \ {p} : provider[q].at \notin Looking,
           ~Faults /\ ~overlapped' /\ t.at = "creating" => \A i \in DOMAIN profiles : ~Usable(i)
    PROVE  OneInv'
<1>1. provider'[p] = t /\ \A q \in Procs \ {p} : provider'[q] = provider[q]
  BY DEF Set, OneInv, IInv, TypeOK
<1>2. ASSUME ~overlapped'
      PROVE  \A q, r \in Procs : provider'[q].at \in Looking /\ provider'[r].at \in Looking => q = r
  <2>1. \A q, r \in Procs : provider[q].at \in Looking /\ provider[r].at \in Looking => q = r
    BY <1>2 DEF OneInv
  <2>2. t.at \in Looking => \A q \in Procs \ {p} : provider[q].at \notin Looking
    BY <1>2, <2>1
  <2>. QED
    BY <1>1, <2>1, <2>2
<1>3. ASSUME ~overlapped', ~Faults
      PROVE  /\ \A i, j \in DOMAIN profiles' : Usable(i)' /\ Usable(j)' => i = j
             /\ \A q \in Procs : provider'[q].at = "creating" => \A i \in DOMAIN profiles' : ~Usable(i)'
  <2>1. /\ \A i, j \in DOMAIN profiles : Usable(i) /\ Usable(j) => i = j
        /\ \A q \in Procs : provider[q].at = "creating" => \A i \in DOMAIN profiles : ~Usable(i)
    BY <1>3 DEF OneInv
  <2>2. \A q \in Procs : provider'[q].at = "creating" => \A i \in DOMAIN profiles : ~Usable(i)
    BY <1>1, <1>3, <2>1
  <2>. QED
    BY <2>1, <2>2
<1>. QED
  BY <1>2, <1>3 DEF OneInv, Faults

\* The steps of the client-side providers, and the crash: nobody looks for a profile.
LEMMA OneClientOK ==
    ASSUME OneInv, IInv', NEW p \in Procs,
           \/ LoadCookies(p) \/ LoadLocalStorage(p) \/ Abandon(p) \/ Put(p) \/ OpenTmp(p)
           \/ WriteTmp(p) \/ Replace(p) \/ SaveFails(p) \/ Crash(p)
    PROVE  OneInv'
<1>. DEFINE t == provider[p]
<1>1. t \in Provider /\ UNCHANGED <<setting, profiles>>
  BY DEF OneInv, IInv, TypeOK, LoadCookies, LoadLocalStorage, Abandon, Put, OpenTmp, WriteTmp, Replace,
         SaveFails, Crash, aws
<1>2. overlapped => overlapped'
  BY DEF LoadCookies, LoadLocalStorage, Abandon, Put, OpenTmp, WriteTmp, Replace, SaveFails, Crash
<1>3. CASE UNCHANGED provider
  <2>1. Set(p, t)
    BY <1>3 DEF Set, OneInv, IInv, TypeOK
  <2>2. ~Faults /\ ~overlapped' /\ t.at = "creating" => \A i \in DOMAIN profiles : ~Usable(i)
    BY <1>2 DEF OneInv
  <2>. QED
    BY <1>1, <1>2, <2>1, <2>2, OneStep DEF Usable
<1>4. ASSUME NEW u, Set(p, u), u.at \in {"idle", "cookies", "running", "writing", "replacing"}
      PROVE  OneInv'
  BY <1>1, <1>2, <1>4, OneStep DEF Usable, Looking
<1>5. CASE LoadCookies(p) /\ ~ UNCHANGED provider
  <2>. DEFINE state == Session(t)
              u == [t EXCEPT !.at = "cookies", !.session = sessions', !.cache = state,
                             !.cookies = state, !.due = last]
  <2>1. Set(p, u) /\ u.at = "cookies"
    BY <1>1, <1>5 DEF LoadCookies, Provider
  <2>. QED
    BY <1>4, <2>1
<1>6. CASE LoadLocalStorage(p)
  <2>. DEFINE u == [t EXCEPT !.at = "running", !.origins = Session(t)]
  <2>1. Set(p, u) /\ u.at = "running"
    BY <1>1, <1>6 DEF LoadLocalStorage, Provider
  <2>. QED
    BY <1>4, <2>1
<1>7. CASE Abandon(p)
  <2>. DEFINE u == [t EXCEPT !.at = "idle", !.kept = TRUE]
  <2>1. Set(p, u) /\ u.at = "idle"
    BY <1>1, <1>7 DEF Abandon, Provider
  <2>. QED
    BY <1>4, <2>1
<1>8. CASE OpenTmp(p)
  <2>. DEFINE u == [t EXCEPT !.at = "writing", !.file = tmp']
  <2>1. Set(p, u) /\ u.at = "writing"
    BY <1>1, <1>8 DEF OpenTmp, Provider
  <2>. QED
    BY <1>4, <2>1
<1>9. CASE WriteTmp(p)
  <2>. DEFINE u == [t EXCEPT !.at = "replacing"]
  <2>1. Set(p, u) /\ u.at = "replacing"
    BY <1>1, <1>9 DEF WriteTmp, Goes, Provider
  <2>. QED
    BY <1>4, <2>1
<1>10. CASE Put(p) \/ Replace(p) \/ SaveFails(p)
  <2>. DEFINE u == [t EXCEPT !.at = "idle", !.file = 0, !.kept = FALSE, !.cache = None]
  <2>1. Set(p, u) /\ u.at = "idle"
    BY <1>1, <1>10 DEF Put, Replace, SaveFails, EndSave, Provider
  <2>. QED
    BY <1>4, <2>1
<1>11. CASE Crash(p)
  <2>1. Set(p, Fresh) /\ Fresh.at = "idle"
    BY <1>11 DEF Crash, Fresh
  <2>. QED
    BY <1>4, <2>1
<1>. QED
  BY <1>3, <1>5, <1>6, <1>7, <1>8, <1>9, <1>10, <1>11

\* The steps of AgentCore's provider but for the one that creates a profile.
LEMMA OneLookOK ==
    ASSUME OneInv, IInv', NEW p \in Procs,
           Resolve(p) \/ Validate(p) \/ Search(p) \/ OpenSession(p) \/ SaveProfile(p)
    PROVE  OneInv'
<1>. DEFINE t == provider[p]
<1>1. t \in Provider /\ profiles \in Seq(Profile) /\ UNCHANGED setting
  BY DEF OneInv, IInv, TypeOK, DataOK, Resolve, Validate, Search, OpenSession, SaveProfile
<1>2. overlapped => overlapped'
  BY DEF Resolve, Validate, Search, OpenSession, SaveProfile
<1>3. \A i \in DOMAIN profiles' : Usable(i)' => i \in DOMAIN profiles /\ Usable(i)
  <2>1. CASE UNCHANGED profiles
    BY <2>1 DEF Usable
  <2>2. CASE SaveProfile(p) /\ ~ UNCHANGED profiles
    <3>. DEFINE n == t.id
                s == t.session
    <3>1. profiles' = [profiles EXCEPT ![n] = [profiles[n] EXCEPT !.state = s]]
      BY <2>2 DEF SaveProfile
    <3>2. DOMAIN profiles' = DOMAIN profiles
      BY <3>1
    <3>3. \A i \in DOMAIN profiles : profiles'[i].usable = profiles[i].usable
      <4>1. \A i \in DOMAIN profiles : profiles[i] \in Profile
        BY <1>1
      <4>. QED
        BY <3>1, <4>1 DEF Profile
    <3>. QED
      BY <3>2, <3>3 DEF Usable
  <2>. QED
    BY <2>1, <2>2 DEF Resolve, Validate, Search, OpenSession, aws
<1>4. ASSUME NEW u, Set(p, u), u.at \in {"idle", "running", "opening"} PROVE OneInv'
  BY <1>1, <1>2, <1>3, <1>4, OneStep DEF Looking
<1>5. ASSUME NEW label, Goes(p, label) PROVE Set(p, [t EXCEPT !.at = label]) /\ [t EXCEPT !.at = label].at = label
  BY <1>1, <1>5 DEF Goes, Provider
<1>6. ASSUME NEW i, Set(p, [t EXCEPT !.at = "opening", !.id = i]) PROVE OneInv'
  <2>. DEFINE u == [t EXCEPT !.at = "opening", !.id = i]
  <2>1. u.at = "opening"
    BY <1>1 DEF Provider
  <2>. QED
    BY <1>4, <1>6, <2>1
<1>7. CASE Resolve(p)
  <2>. DEFINE label == IF t.id # 0 THEN "opening"
                       ELSE IF cached[p] # 0 THEN "validating" ELSE "searching"
              u == [t EXCEPT !.session = sessions', !.at = label]
  <2>1. Set(p, u) /\ overlapped' = (overlapped \/ (t.id = 0 /\ Others(p, Looking)))
    BY <1>7 DEF Resolve
  <2>2. u.at = label
    BY <1>1 DEF Provider
  <2>3. CASE t.id # 0
    BY <1>4, <2>1, <2>2, <2>3
  <2>4. CASE t.id = 0
    <3>1. u.at \in {"validating", "searching"}
      BY <2>2, <2>4
    <3>2. overlapped' \/ \A q \in Procs \ {p} : provider[q].at \notin Looking
      BY <2>1, <2>4 DEF Others
    <3>. HIDE DEF u
    <3>. QED
      BY <1>1, <1>2, <1>3, <2>1, <3>1, <3>2, OneStep
  <2>. QED
    BY <2>3, <2>4
<1>8. CASE Goes(p, "idle")
  <2>. DEFINE u == [t EXCEPT !.at = "idle"]
  <2>. QED
    BY <1>4, <1>5, <1>8
<1>9. CASE Validate(p) /\ Goes(p, "searching")
  <2>. DEFINE u == [t EXCEPT !.at = "searching"]
  <2>1. Set(p, u) /\ u.at = "searching" /\ t.at \in Looking
    BY <1>5, <1>9 DEF Validate, At, Looking
  <2>. HIDE DEF u
  <2>. QED
    BY <1>1, <1>2, <1>3, <2>1, OneStep
<1>10. CASE Search(p) /\ Goes(p, "creating")
  <2>. DEFINE u == [t EXCEPT !.at = "creating"]
  <2>1. Set(p, u) /\ u.at = "creating" /\ t.at \in Looking
    BY <1>5, <1>10 DEF Search, At, Looking
  <2>2. ~Faults => \A i \in DOMAIN profiles : ~Usable(i)
    <3>1. ~ \E i : Takes(p, i)
      <4>1. ASSUME NEW i, Takes(p, i) PROVE FALSE
        <5>. DEFINE v == [t EXCEPT !.at = "opening", !.id = i]
        <5>1. v.at = "opening" /\ Set(p, v)
          BY <1>1, <4>1 DEF Takes, Provider
        <5>. HIDE DEF v, u
        <5>. QED
          BY <2>1, <5>1 DEF Set, OneInv, IInv, TypeOK
      <4>. QED
        BY <4>1
    <3>. QED
      BY <1>10, <3>1 DEF Search
  <2>. HIDE DEF u
  <2>. QED
    BY <1>1, <1>2, <1>3, <2>1, <2>2, OneStep
<1>11. CASE OpenSession(p) /\ ~ Goes(p, "idle")
  <2>. DEFINE state == profiles[t.id].state
              u == [t EXCEPT !.at = "running", !.cookies = state, !.origins = state, !.due = last]
  <2>1. Set(p, u) /\ u.at = "running"
    BY <1>1, <1>11 DEF OpenSession, Provider
  <2>. QED
    BY <1>4, <2>1
<1>. QED
  BY <1>6, <1>7, <1>8, <1>9, <1>10, <1>11 DEF Validate, Search, OpenSession, SaveProfile, Takes

\* A profile is created by the only one that looks, where there is none.
LEMMA OneCreateOK == ASSUME OneInv, IInv', NEW p \in Procs, Create(p) PROVE OneInv'
<1>. DEFINE t == provider[p]
<1>1. /\ t \in Provider /\ profiles \in Seq(Profile) /\ UNCHANGED <<setting, overlapped>>
      /\ t.at = "creating" /\ t.at \in Looking
  BY DEF OneInv, IInv, TypeOK, DataOK, Create, At, Looking
<1>2. CASE UNCHANGED aws /\ Goes(p, "idle")
  <2>. DEFINE u == [t EXCEPT !.at = "idle"]
  <2>1. Set(p, u) /\ u.at = "idle" /\ UNCHANGED profiles
    BY <1>1, <1>2 DEF Goes, Provider, aws
  <2>. HIDE DEF u
  <2>. QED
    BY <1>1, <2>1, OneStep DEF Usable, Looking
<1>3. CASE profiles' = Append(profiles, [usable |-> TRUE, state |-> 0]) /\ Takes(p, Len(profiles'))
  <2>. DEFINE n == Len(profiles')
              u == [t EXCEPT !.at = "opening", !.id = n]
  <2>1. Set(p, u) /\ u.at = "opening"
    BY <1>1, <1>3 DEF Takes, Provider
  <2>. HIDE DEF u
  <2>2. provider'[p] = u /\ \A q \in Procs \ {p} : provider'[q] = provider[q]
    BY <2>1 DEF Set, OneInv, IInv, TypeOK
  <2>3. \A i \in DOMAIN profiles' : i = n \/ (i \in DOMAIN profiles /\ profiles'[i] = profiles[i])
    BY <1>1, <1>3
  <2>4. ~overlapped => \A q \in Procs : provider'[q].at \notin Looking
    BY <1>1, <2>1, <2>2 DEF OneInv, Looking
  <2>5. ~overlapped /\ ~Faults => \A i, j \in DOMAIN profiles' : Usable(i)' /\ Usable(j)' => i = j
    <3>. SUFFICES ASSUME ~overlapped, ~Faults, NEW i \in DOMAIN profiles', Usable(i)' PROVE i = n
      OBVIOUS
    <3>1. \A j \in DOMAIN profiles : ~Usable(j)
      BY <1>1 DEF OneInv
    <3>. QED
      BY <2>3, <3>1 DEF Usable
  <2>. QED
    BY <1>1, <2>4, <2>5 DEF OneInv, Looking, Faults
<1>. QED
  BY <1>2, <1>3 DEF Create

LEMMA OneInvStep == OneInv /\ [Next]_vars => OneInv'
<1>. SUFFICES ASSUME OneInv, [Next]_vars PROVE OneInv'
  OBVIOUS
<1>1. IInv'
  BY StepOK DEF OneInv
<1>2. CASE UNCHANGED vars
  BY <1>1, <1>2 DEF vars, aws, OneInv, Usable, Faults
<1>3. ASSUME NEW i \in DOMAIN profiles, Delete(i) PROVE OneInv'
  <2>1. UNCHANGED <<setting, provider, overlapped>>
    BY <1>3 DEF Delete
  <2>2. DOMAIN profiles' = DOMAIN profiles /\ \A j \in DOMAIN profiles : Usable(j)' => Usable(j)
    BY <1>3, Deleted DEF OneInv, Usable
  <2>. QED
    BY <1>1, <2>1, <2>2 DEF OneInv, Faults
<1>4. CASE Next
  BY <1>1, <1>3, <1>4, OneClientOK, OneLookOK, OneCreateOK DEF Next
<1>. QED
  BY <1>2, <1>4

\* One name stands for one profile that can be used, for any number of processes,
\* whatever their caches say and whoever deletes profiles: unless two look for it
\* at once, or a call fails.
THEOREM ProfileIsShared == Spec => []OneProfile
<1>1. OneInv => OneProfile
  <2>. SUFFICES ASSUME OneInv, ~overlapped, ~Faults
                PROVE  Cardinality({i \in DOMAIN profiles : Usable(i)}) < 2
    BY DEF OneProfile
  <2>. DEFINE used == {i \in DOMAIN profiles : Usable(i)}
  <2>1. \A i, j \in used : i = j
    BY DEF OneInv
  <2>. HIDE DEF used
  <2>2. CASE used = {}
    <3>1. Cardinality(used) = 0
      BY <2>2, FS_EmptySet
    <3>. QED
      BY <3>1 DEF used
  <2>3. CASE used # {}
    <3>1. PICK i : used = {i}
      BY <2>1, <2>3
    <3>2. Cardinality(used) = 1
      BY <3>1, FS_Singleton
    <3>. QED
      BY <3>2 DEF used
  <2>. QED
    BY <2>2, <2>3
<1>. QED
  BY <1>1, OneInit, OneInvStep, PTL DEF Spec
=============================================================================
