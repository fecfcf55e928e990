--------------------------- MODULE ConfigStoreProofs ---------------------------
(***************************************************************************)
(* The configuration file, proved for any number of servers, any settings  *)
(* and commands, failed saves and crashes between any two steps of a save. *)
(***************************************************************************)
EXTENDS ConfigStore, OrderFacts, FiniteSetTheorems

-----------------------------------------------------------------------------
(* The order of slots.                                                      *)

\* The first n slots of a set are numbered as they are in the set.
LEMMA FirstSlots ==
  ASSUME NEW S \in SUBSET Nat, IsFiniteSet(S), NEW n \in 0 .. Cardinality(S)
  PROVE  LET A == {s \in S : \E i \in 1 .. n : s = Nth(S, i)}
         IN  /\ IsFiniteSet(A) /\ Cardinality(A) = n
             /\ \A i \in 1 .. n : Nth(A, i) = Nth(S, i)
<1> DEFINE A == {s \in S : \E i \in 1 .. n : s = Nth(S, i)}
<1>1. IsFiniteSet(A) /\ A \in SUBSET Nat
  BY FS_Subset
<1>2. Cardinality(S) \in Nat /\ \A i \in 1 .. n : i \in 1 .. Cardinality(S)
  BY FS_CardinalityType
<1>3. \A i \in 1 .. n : Nth(S, i) \in A /\ Rank(S, Nth(S, i)) = i
  BY <1>2, NthExists
<1>4. \A s \in A : s \in S /\ Rank(S, s) \in 1 .. n
  BY <1>3
<1>5. ASSUME NEW s \in A
      PROVE  Rank(A, s) = Rank(S, s)
  <2>1. ASSUME NEW t \in S, t <= s
        PROVE  t \in A
    <3>1. Rank(S, t) \in 1 .. Cardinality(S) /\ Rank(S, s) \in 1 .. n
      BY <1>4, RankRange
    <3>2. t = s \/ Rank(S, t) < Rank(S, s)
      BY <1>4, <2>1, RankGrows
    <3>3. Rank(S, t) \in 1 .. n
      BY <3>1, <3>2
    <3>4. QED
      BY <3>3, NthOfRank
  <2>2. {t \in A : t <= s} = {t \in S : t <= s}
    BY <2>1
  <2>3. QED
    BY <2>2 DEF Rank
<1>6. Cardinality(A) = n
  <2> DEFINE nth == [i \in 1 .. n |-> Nth(S, i)]
  <2>1. nth \in Injection(1 .. n, A) /\ nth \in Surjection(1 .. n, A)
    BY <1>3 DEF Injection, IsInjective, Surjection
  <2>2. IsFiniteSet(1 .. n) /\ Cardinality(1 .. n) = n
    BY FS_Interval
  <2>3. QED
    BY <2>1, <2>2, FS_Surjection
<1> HIDE DEF A
<1>7. ASSUME NEW i \in 1 .. n
      PROVE  Nth(A, i) = Nth(S, i)
  <2>1. Nth(S, i) \in A /\ Rank(A, Nth(S, i)) = i
    BY <1>3, <1>5
  <2>2. QED
    BY <1>1, <2>1, NthOfRank
<1>8. QED
  BY <1>1, <1>6, <1>7 DEF A

-----------------------------------------------------------------------------
(* What is written and what is read.                                        *)

\* A file that the proxy takes, but for what FileLoads excepts.
WellFormed(f) ==
  /\ f = [exists |-> TRUE, mgmt_key |-> f.mgmt_key, servers |-> f.servers]
  /\ f.mgmt_key \in BOOLEAN /\ f.servers \in Seq(SectionType)
  /\ Len(f.servers) <= Cardinality(Slots)
  /\ \A i, j \in DOMAIN f.servers :
       f.servers[i].listen_port = f.servers[j].listen_port => i = j

\* No two servers have one port, and what a save is about to put in place is what
\* runs: commands wait until it is done.
CInv ==
  /\ active \in [Slots -> BOOLEAN]
  /\ dyn_cfgs \in [Slots -> Config]
  /\ process \in {"down", "running", "refused"}
  /\ saving \in {"no", "open", "write", "rename"}
  /\ failed \in BOOLEAN
  /\ WellFormed(file)
  /\ tmp = NoFile \/ WellFormed(tmp)
  /\ saving # "no" => process = "running"
  /\ saving = "rename" => \E kept \in BOOLEAN : tmp = Content(kept)
  /\ \A s, t \in ActiveSlots : dyn_cfgs[s].listen_port = dyn_cfgs[t].listen_port => s = t
  /\ Synced

\* A section holds its server but for blanks around the tag, and nothing is lost
\* of what was read.
LEMMA SectionsKeep ==
  /\ \A c \in Config : /\ Section(c) \in SectionType
                        /\ Section(c).listen_port = c.listen_port
                        /\ Parsed(Section(c)) = [c EXCEPT !.hostname_tag = Trim(@)]
  /\ \A x \in SectionType : /\ Parsed(x) \in Config
                             /\ Parsed(x).listen_port = x.listen_port
                             /\ Parsed(x) = [Parsed(x) EXCEPT !.hostname_tag = Trim(@)]
<1>1. ASSUME NEW c \in Config
      PROVE  /\ Section(c) \in SectionType
             /\ Section(c).listen_port = c.listen_port
             /\ Parsed(Section(c)) = [c EXCEPT !.hostname_tag = Trim(@)]
  <2>1. /\ Section(c) \in SectionType
        /\ Section(c).listen_port = c.listen_port
    BY DEF Section, SectionType, Config
  <2>2. c = [listen_port |-> c.listen_port, remote |-> c.remote, limits |-> c.limits,
             hostname_tag |-> c.hostname_tag, masters |-> c.masters]
    BY DEF Config
  <2>3. CASE c.hostname_tag = "none"
    <3>1. Section(c).tags = {}
      BY <2>3 DEF Section
    <3>2. QED
      BY <2>1, <2>2, <2>3, <3>1 DEF Parsed, Section, Trim
  <2>4. CASE c.hostname_tag # "none"
    <3>1. Section(c).tags = {c.hostname_tag}
      BY <2>4 DEF Section
    <3>2. (CHOOSE t \in {c.hostname_tag} : TRUE) = c.hostname_tag
      OBVIOUS
    <3>3. QED
      BY <2>1, <2>2, <3>1, <3>2 DEF Parsed, Section
  <2>5. QED
    BY <2>3, <2>4
<1>2. ASSUME NEW x \in SectionType
      PROVE  /\ Parsed(x) \in Config
             /\ Parsed(x).listen_port = x.listen_port
             /\ Parsed(x) = [Parsed(x) EXCEPT !.hostname_tag = Trim(@)]
  <2> DEFINE tag == IF x.tags = {} THEN "none" ELSE Trim(CHOOSE t \in x.tags : TRUE)
  <2>1. x.tags # {} => (CHOOSE t \in x.tags : TRUE) \in {"plain", "padded"}
    BY DEF SectionType, Tags
  <2>2. tag \in {"none", "plain"}
    BY <2>1 DEF Trim
  <2>3. Trim(tag) = tag
    BY <2>2 DEF Trim
  <2>4. Parsed(x) = [listen_port |-> x.listen_port, remote |-> x.remote, limits |-> x.limits,
                     hostname_tag |-> tag, masters |-> x.masters]
    BY DEF Parsed
  <2> HIDE DEF tag
  <2>5. QED
    BY <2>2, <2>3, <2>4 DEF SectionType, Config, Tags
<1>3. QED
  BY <1>1, <1>2

\* The slots of the servers that run.
LEMMA ActiveFinite ==
  /\ ActiveSlots \in SUBSET Nat /\ IsFiniteSet(ActiveSlots)
  /\ Cardinality(ActiveSlots) \in Nat /\ Cardinality(Slots) \in Nat
  /\ Cardinality(ActiveSlots) <= Cardinality(Slots)
<1>1. ActiveSlots \in SUBSET Slots
  BY DEF ActiveSlots
<1>2. QED
  BY <1>1, SlotsAssumption, FS_Subset, FS_CardinalityType

\* What runs, as a sequence.
LEMMA RunningType ==
  ASSUME CInv
  PROVE  /\ Running \in Seq(Config) /\ Len(Running) = Cardinality(ActiveSlots)
         /\ \A i, j \in DOMAIN Running :
              Running[i].listen_port = Running[j].listen_port => i = j
<1> DEFINE n == Cardinality(ActiveSlots)
<1>1. n \in Nat
  BY ActiveFinite
<1>2. \A i \in 1 .. n : /\ Nth(ActiveSlots, i) \in ActiveSlots
                        /\ Rank(ActiveSlots, Nth(ActiveSlots, i)) = i
  BY ActiveFinite, NthExists
<1>3. \A i \in 1 .. n : Running[i] = dyn_cfgs[Nth(ActiveSlots, i)] /\ Running[i] \in Config
  BY <1>2 DEF Running, CInv, ActiveSlots
<1>4. Running \in Seq(Config) /\ Len(Running) = n /\ DOMAIN Running = 1 .. n
  <2>1. Running = [i \in 1 .. n |-> Running[i]]
    BY DEF Running
  <2> HIDE DEF n
  <2>2. Running \in [1 .. n -> Config]
    BY <1>3, <2>1
  <2>3. QED
    BY <1>1, <2>2
<1>5. ASSUME NEW i \in 1 .. n, NEW j \in 1 .. n,
             Running[i].listen_port = Running[j].listen_port
      PROVE  i = j
  <2>1. Nth(ActiveSlots, i) = Nth(ActiveSlots, j)
    BY <1>2, <1>3, <1>5 DEF CInv
  <2>2. QED
    BY <1>2, <2>1
<1>6. QED
  BY <1>4, <1>5

\* What a save writes is a good file, and holds what runs.
LEMMA ContentHolds ==
  ASSUME CInv, NEW kept \in BOOLEAN
  PROVE  /\ WellFormed(Content(kept))
         /\ Loaded(Content(kept)) = Restored(Running)
<1> DEFINE sections == [i \in DOMAIN Running |-> Section(Running[i])]
           n == Cardinality(ActiveSlots)
<1>1. /\ Running \in Seq(Config) /\ Len(Running) = n /\ DOMAIN Running = 1 .. n
      /\ n \in Nat /\ Cardinality(Slots) \in Nat /\ n <= Cardinality(Slots)
      /\ \A i \in 1 .. n : Running[i] \in Config
  BY RunningType, ActiveFinite
<1>2. Content(kept) = [exists |-> TRUE, mgmt_key |-> kept, servers |-> sections]
  BY DEF Content
<1>4. \A i \in 1 .. n : sections[i] = Section(Running[i]) /\ sections[i] \in SectionType
  BY <1>1, SectionsKeep
<1>5. sections \in Seq(SectionType) /\ DOMAIN sections = 1 .. n /\ Len(sections) = n
  <2>1. sections \in [1 .. n -> SectionType]
    BY <1>1, <1>4
  <2> HIDE DEF n, sections
  <2>2. QED
    BY <1>1, <2>1
<1>6. \A i, j \in 1 .. n : sections[i].listen_port = sections[j].listen_port => i = j
  BY <1>1, <1>4, RunningType, SectionsKeep
<1> HIDE DEF sections, n
<1>7. WellFormed(Content(kept))
  <2>1. Content(kept).mgmt_key = kept /\ Content(kept).servers = sections
    BY <1>2
  <2>2. QED
    BY <1>1, <1>2, <1>5, <1>6, <2>1 DEF WellFormed
<1>8. Loaded(Content(kept)) = Restored(Running)
  <2>1. Loaded(Content(kept)) = [i \in 1 .. n |-> Parsed(sections[i])]
    BY <1>2, <1>5 DEF Loaded
  <2>2. Restored(Running) = [i \in 1 .. n |-> [Running[i] EXCEPT !.hostname_tag = Trim(@)]]
    BY <1>1 DEF Restored
  <2>3. \A i \in 1 .. n : Parsed(sections[i]) = [Running[i] EXCEPT !.hostname_tag = Trim(@)]
    BY <1>1, <1>4, SectionsKeep
  <2>4. QED
    BY <2>1, <2>2, <2>3
<1>9. QED
  BY <1>7, <1>8

\* What was read would be read again.
LEMMA LoadedIsRestored ==
  ASSUME WellFormed(file)
  PROVE  Restored(Loaded(file)) = Loaded(file)
<1>1. DOMAIN Loaded(file) = DOMAIN file.servers
  BY DEF Loaded
<1>2. \A i \in DOMAIN file.servers : file.servers[i] \in SectionType
  BY DEF WellFormed
<1>3. \A i \in DOMAIN file.servers :
        /\ Loaded(file)[i] = Parsed(file.servers[i])
        /\ [Loaded(file)[i] EXCEPT !.hostname_tag = Trim(@)] = Loaded(file)[i]
  BY <1>2, SectionsKeep DEF Loaded
<1>4. Restored(Loaded(file)) = [i \in DOMAIN file.servers |->
                                  [Loaded(file)[i] EXCEPT !.hostname_tag = Trim(@)]]
  BY <1>1 DEF Restored
<1>5. Loaded(file) = [i \in DOMAIN file.servers |-> Loaded(file)[i]]
  BY DEF Loaded
<1>6. QED
  BY <1>3, <1>4, <1>5

-----------------------------------------------------------------------------
(* The invariant holds at first and after every step.                       *)

\* What runs depends on the active slots alone.
LEMMA SameServers ==
  ASSUME active' = active, \A s \in ActiveSlots : dyn_cfgs'[s] = dyn_cfgs[s]
  PROVE  ActiveSlots' = ActiveSlots /\ Running' = Running
<1>1. ActiveSlots' = ActiveSlots
  BY DEF ActiveSlots
<1>2. \A i \in 1 .. Cardinality(ActiveSlots) : Nth(ActiveSlots, i) \in ActiveSlots
  BY ActiveFinite, NthExists
<1>3. QED
  BY <1>1, <1>2 DEF Running

LEMMA InitHolds == Init => CInv
<1> SUFFICES ASSUME Init PROVE CInv
  OBVIOUS
<1>1. ActiveSlots = {}
  BY DEF Init, NoServers, ActiveSlots
<1>2. dyn_cfgs \in [Slots -> Config]
  BY ConfigAssumption DEF Init, Unconfigured
<1>3. WellFormed(file)
  BY FilesAssumption DEF Init, WellFormed
<1>4. QED
  BY <1>1, <1>2, <1>3 DEF Init, NoServers, CInv, Synced

\* A command that leaves every server a valid configuration, and no two of them
\* the same port, may be saved.
LEMMA CommandPreserves ==
  ASSUME CInv, Command, saving' = "open",
         active' \in [Slots -> BOOLEAN], dyn_cfgs' \in [Slots -> Config],
         \A s, t \in ActiveSlots' : dyn_cfgs'[s].listen_port = dyn_cfgs'[t].listen_port => s = t
  PROVE  CInv'
<1>1. WellFormed(file)' /\ (tmp = NoFile \/ WellFormed(tmp))'
  BY DEF CInv, Command, WellFormed
<1>2. QED
  BY <1>1 DEF CInv, Command, Synced

\* Tuning keeps the port.
LEMMA TunedPreserves ==
  ASSUME CInv, NEW s \in Slots, NEW c \in Config, c.listen_port = dyn_cfgs[s].listen_port,
         Tuned(s, c), saving' = "open"
  PROVE  CInv'
<1>1. \A t \in Slots : /\ dyn_cfgs'[t] \in Config
                       /\ dyn_cfgs'[t].listen_port = dyn_cfgs[t].listen_port
  BY DEF CInv, Tuned
<1>2. dyn_cfgs' \in [Slots -> Config] /\ active' = active
  BY DEF CInv, Tuned
<1>3. ActiveSlots' = ActiveSlots /\ ActiveSlots \in SUBSET Slots
  BY <1>2 DEF ActiveSlots
<1>4. \A t, u \in ActiveSlots' : dyn_cfgs'[t].listen_port = dyn_cfgs'[u].listen_port => t = u
  BY <1>1, <1>3 DEF CInv
<1>5. QED
  BY <1>2, <1>4, CommandPreserves DEF Tuned, CInv

LEMMA SetPreserves ==
  ASSUME CInv, NEW s \in Slots, HandleSet(s) \/ HandleSetMaster(s)
  PROVE  CInv'
<1>1. dyn_cfgs[s] \in Config
  BY DEF CInv
<1>2. ASSUME NEW l \in Limits, Tuned(s, [dyn_cfgs[s] EXCEPT !.limits = l]), saving' = "open"
      PROVE  CInv'
  <2>1. /\ [dyn_cfgs[s] EXCEPT !.limits = l] \in Config
        /\ [dyn_cfgs[s] EXCEPT !.limits = l].listen_port = dyn_cfgs[s].listen_port
    BY <1>1 DEF Config
  <2>2. QED
    BY <1>2, <2>1, TunedPreserves
<1>3. ASSUME NEW t \in NewTags, Tuned(s, [dyn_cfgs[s] EXCEPT !.hostname_tag = t]),
             saving' = "open"
      PROVE  CInv'
  <2>1. /\ [dyn_cfgs[s] EXCEPT !.hostname_tag = t] \in Config
        /\ [dyn_cfgs[s] EXCEPT !.hostname_tag = t].listen_port = dyn_cfgs[s].listen_port
    BY <1>1, CommandsAssumption DEF Config
  <2>2. QED
    BY <1>3, <2>1, TunedPreserves
<1>4. ASSUME NEW n \in {0, 1}, Tuned(s, [dyn_cfgs[s] EXCEPT !.masters = n]), saving' = "open"
      PROVE  CInv'
  <2>1. n \in 0 .. MaxMasters
    BY MastersAssumption
  <2>2. /\ [dyn_cfgs[s] EXCEPT !.masters = n] \in Config
        /\ [dyn_cfgs[s] EXCEPT !.masters = n].listen_port = dyn_cfgs[s].listen_port
    BY <1>1, <2>1 DEF Config
  <2>3. QED
    BY <1>4, <2>2, TunedPreserves
<1>5. QED
  BY <1>2, <1>3, <1>4 DEF HandleSet, HandleSetMaster

\* The slot of a new server was not in use.
LEMMA FreeSlot == ASSUME FreeSlots # {} PROVE Min(FreeSlots) \in Slots /\ ~active[Min(FreeSlots)]
<1>1. FreeSlots \in SUBSET Nat
  BY SlotsAssumption DEF FreeSlots
<1>2. Min(FreeSlots) \in FreeSlots
  BY <1>1, LeastElement
<1>3. QED
  BY <1>2 DEF FreeSlots

LEMMA AddPreserves ==
  ASSUME CInv, NEW c \in Added, HandleAddServer(c)
  PROVE  CInv'
<1> DEFINE new == Min(FreeSlots)
<1>1. /\ new \in Slots /\ ~active[new]
      /\ Command /\ ~PortTaken(c) /\ saving' = "open"
      /\ dyn_cfgs' = [dyn_cfgs EXCEPT ![new] = c]
      /\ active' = [active EXCEPT ![new] = TRUE]
  BY FreeSlot DEF HandleAddServer
<1> HIDE DEF new
<1>2. c \in Config
  BY CommandsAssumption
<1>3. /\ active' \in [Slots -> BOOLEAN] /\ dyn_cfgs' \in [Slots -> Config]
      /\ \A s \in Slots : dyn_cfgs'[s] = IF s = new THEN c ELSE dyn_cfgs[s]
  BY <1>1, <1>2 DEF CInv
<1>4. ActiveSlots' = ActiveSlots \cup {new} /\ ActiveSlots \in SUBSET Slots
  BY <1>1 DEF ActiveSlots, CInv
<1>5. \A s \in ActiveSlots : s # new /\ dyn_cfgs[s].listen_port # c.listen_port
  BY <1>1 DEF ActiveSlots, PortTaken
<1>6. \A s, t \in ActiveSlots' : dyn_cfgs'[s].listen_port = dyn_cfgs'[t].listen_port => s = t
  BY <1>1, <1>3, <1>4, <1>5 DEF CInv
<1>7. QED
  BY <1>1, <1>3, <1>6, CommandPreserves

\* A server that could not be added leaves its configuration in a slot that is
\* not in use: no server changes, nor what the file has to hold.
LEMMA AddFailedKeeps ==
  ASSUME CInv, NEW c \in Added, AddServerFailed(c)
  PROVE  CInv' /\ Running' = Running
<1> DEFINE new == Min(FreeSlots)
<1>1. /\ new \in Slots /\ ~active[new] /\ Command
      /\ dyn_cfgs' = [dyn_cfgs EXCEPT ![new] = c]
      /\ active' = active /\ saving' = saving
  BY FreeSlot DEF AddServerFailed
<1> HIDE DEF new
<1>2. dyn_cfgs' \in [Slots -> Config]
  BY <1>1, CommandsAssumption DEF CInv
<1>3. \A s \in ActiveSlots : dyn_cfgs'[s] = dyn_cfgs[s]
  BY <1>1 DEF CInv, ActiveSlots
<1>4. ActiveSlots' = ActiveSlots /\ Running' = Running
  BY <1>1, <1>3, SameServers
<1>5. WellFormed(file)' /\ (tmp = NoFile \/ WellFormed(tmp))'
  BY <1>1 DEF CInv, Command, WellFormed
<1>6. Synced' /\ saving' = "no"
  BY <1>1, <1>4 DEF CInv, Command, Synced, Loaded
<1>7. QED
  BY <1>1, <1>2, <1>3, <1>4, <1>5, <1>6 DEF CInv, Command

LEMMA RemovePreserves ==
  ASSUME CInv, NEW s \in Slots, HandleRemoveServer(s)
  PROVE  CInv'
<1>1. ActiveSlots' \in SUBSET ActiveSlots
  BY DEF HandleRemoveServer, CInv, ActiveSlots
<1>2. \A t, u \in ActiveSlots' : dyn_cfgs'[t].listen_port = dyn_cfgs'[u].listen_port => t = u
  BY <1>1 DEF CInv, HandleRemoveServer
<1>3. QED
  BY <1>2, CommandPreserves DEF CInv, HandleRemoveServer

\* The servers of a proxy that comes up are those of its file.
LEMMA StartHolds ==
  ASSUME CInv, Start
  PROVE  CInv' /\ Running' = Loaded(file)
<1> DEFINE n == Len(file.servers)
           A == {s \in Slots : \E i \in 1 .. n : s = Nth(Slots, i)}
<1>1. /\ n \in 0 .. Cardinality(Slots) /\ DOMAIN file.servers = 1 .. n
      /\ \A i \in 1 .. n : file.servers[i] \in SectionType
  BY SlotsAssumption, FS_CardinalityType DEF CInv, WellFormed
<1>2. /\ IsFiniteSet(A) /\ Cardinality(A) = n
      /\ \A i \in 1 .. n : Nth(A, i) = Nth(Slots, i)
  BY <1>1, SlotsAssumption, FirstSlots
<1>3. ActiveSlots' = A
  BY <1>1 DEF Start, ActiveSlots, SlotOf
<1>4. \A i \in 1 .. n : /\ Nth(Slots, i) \in Slots /\ Rank(Slots, Nth(Slots, i)) = i
                        /\ Loaded(file)[i] = Parsed(file.servers[i])
                        /\ Loaded(file)[i] \in Config
                        /\ Loaded(file)[i].listen_port = file.servers[i].listen_port
  <2>1. \A i \in 1 .. n : i \in 1 .. Cardinality(Slots)
    <3>1. Cardinality(Slots) \in Nat /\ n \in 0 .. Cardinality(Slots)
      BY <1>1, SlotsAssumption, FS_CardinalityType
    <3> HIDE DEF n
    <3>2. QED
      BY <3>1
  <2>2. \A i \in 1 .. n : Nth(Slots, i) \in Slots /\ Rank(Slots, Nth(Slots, i)) = i
    BY <2>1, SlotsAssumption, NthExists
  <2>3. \A i \in 1 .. n : Loaded(file)[i] = Parsed(file.servers[i])
    BY <1>1 DEF Loaded
  <2>4. QED
    BY <1>1, <2>2, <2>3, SectionsKeep
<1> HIDE DEF n, A
<1>5. ASSUME NEW i \in 1 .. n
      PROVE  dyn_cfgs'[Nth(Slots, i)] = Loaded(file)[i]
  <2> DEFINE s == Nth(Slots, i)
             j == CHOOSE k \in 1 .. n : s = SlotOf(k)
  <2>1. j \in 1 .. n /\ s = Nth(Slots, j)
    BY DEF SlotOf
  <2>2. j = i
    BY <2>1, <1>4
  <2>3. s \in Slots
    BY <1>4
  <2>4. dyn_cfgs'[s] = Loaded(file)[j]
    BY <1>1, <2>1, <2>3 DEF Start, SlotOf
  <2>5. QED
    BY <2>2, <2>4
<1>6. Running' = Loaded(file)
  <2>1. Running' = [i \in 1 .. n |-> dyn_cfgs'[Nth(A, i)]]
    BY <1>2, <1>3 DEF Running
  <2>2. Loaded(file) = [i \in 1 .. n |-> Loaded(file)[i]]
    BY <1>1 DEF Loaded
  <2>3. \A i \in 1 .. n : dyn_cfgs'[Nth(A, i)] = Loaded(file)[i]
    BY <1>2, <1>5
  <2>4. QED
    BY <2>1, <2>2, <2>3
<1>7. dyn_cfgs' \in [Slots -> Config] /\ active' \in [Slots -> BOOLEAN]
  <2>1. ASSUME NEW s \in Slots
        PROVE  dyn_cfgs'[s] \in Config
    <3>1. CASE \E i \in 1 .. n : s = Nth(Slots, i)
      BY <3>1, <1>4, <1>5
    <3>2. CASE ~ \E i \in 1 .. n : s = Nth(Slots, i)
      <4>1. dyn_cfgs'[s] = Unconfigured[s]
        BY <3>2, <1>1 DEF Start, SlotOf
      <4>2. QED
        BY <4>1, ConfigAssumption DEF Unconfigured
    <3>3. QED
      BY <3>1, <3>2
  <2>2. dyn_cfgs' = [s \in Slots |-> dyn_cfgs'[s]]
    BY DEF Start
  <2>3. QED
    BY <2>1, <2>2 DEF Start
<1>8. \A s, t \in A : dyn_cfgs'[s].listen_port = dyn_cfgs'[t].listen_port => s = t
  <2> SUFFICES ASSUME NEW s \in A, NEW t \in A,
                      dyn_cfgs'[s].listen_port = dyn_cfgs'[t].listen_port
               PROVE  s = t
    OBVIOUS
  <2>1. PICK i \in 1 .. n : s = Nth(Slots, i)
    BY DEF A
  <2>2. PICK j \in 1 .. n : t = Nth(Slots, j)
    BY DEF A
  <2>3. file.servers[i].listen_port = file.servers[j].listen_port
    BY <2>1, <2>2, <1>4, <1>5
  <2>4. i = j
    BY <2>3, <1>1 DEF CInv, WellFormed
  <2>5. QED
    BY <2>1, <2>2, <2>4
<1>9. WellFormed(file)' /\ (tmp = NoFile \/ WellFormed(tmp))'
  BY DEF CInv, Start, WellFormed
<1>10. Loaded(file)' = Restored(Running')
  <2>1. Loaded(file)' = Loaded(file)
    BY DEF Start, Loaded
  <2>2. QED
    BY <1>6, <2>1, LoadedIsRestored DEF CInv
<1>11. QED
  BY <1>3, <1>6, <1>7, <1>8, <1>9, <1>10 DEF CInv, Start, Synced

LEMMA CrashPreserves == ASSUME CInv, Crash PROVE CInv'
<1>1. ActiveSlots' = {}
  BY DEF Crash, NoServers, ActiveSlots
<1>2. dyn_cfgs' \in [Slots -> Config] /\ active' \in [Slots -> BOOLEAN]
  BY ConfigAssumption DEF Crash, Unconfigured, NoServers
<1>3. WellFormed(file)'
  BY DEF CInv, Crash, WellFormed
<1>4. QED
  BY <1>1, <1>2, <1>3 DEF CInv, Crash, Synced

\* No step of a save changes a server.
LEMMA SavingKeeps ==
  ASSUME active' = active, dyn_cfgs' = dyn_cfgs
  PROVE  ActiveSlots' = ActiveSlots /\ Running' = Running
BY SameServers

\* An empty temporary file has no server that could be wrong.
LEMMA SaveOpenedPreserves == ASSUME CInv, SaveOpened PROVE CInv'
<1>1. WellFormed(EmptyFile)
  <2>1. <<>> \in Seq(SectionType) /\ Len(<<>>) = 0 /\ DOMAIN <<>> = {}
    OBVIOUS
  <2>2. EmptyFile.servers = <<>> /\ EmptyFile.mgmt_key = FALSE
    BY DEF EmptyFile
  <2>3. Len(EmptyFile.servers) <= Cardinality(Slots)
    BY <2>1, <2>2, ActiveFinite
  <2>4. QED
    BY <2>1, <2>2, <2>3 DEF WellFormed, EmptyFile
<1>2. WellFormed(file)' /\ WellFormed(tmp)'
  BY <1>1 DEF CInv, SaveOpened, WellFormed
<1>3. ActiveSlots' = ActiveSlots
  BY SavingKeeps DEF SaveOpened, Save
<1>4. QED
  BY <1>2, <1>3 DEF CInv, SaveOpened, Save, Synced

LEMMA SaveWrittenPreserves == ASSUME CInv, SaveWritten PROVE CInv'
<1>1. ActiveSlots' = ActiveSlots /\ Running' = Running /\ file' = file
  BY SavingKeeps DEF SaveWritten, Save
<1>2. PICK kept \in BOOLEAN : tmp' = Content(kept) /\ Content(kept)' = Content(kept)
  BY <1>1 DEF Content, SaveWritten, CInv, WellFormed
<1>3. WellFormed(Content(kept))
  BY ContentHolds
<1>4. WellFormed(file)' /\ WellFormed(tmp)'
  BY <1>1, <1>2, <1>3 DEF CInv, WellFormed
<1>5. QED
  BY <1>1, <1>2, <1>4 DEF CInv, SaveWritten, Save, Synced

\* What the rename puts in place is what runs.
LEMMA SaveRenamedHolds ==
  ASSUME CInv, SaveRenamed
  PROVE  CInv' /\ Loaded(file)' = Restored(Running) /\ Running' = Running
<1>1. ActiveSlots' = ActiveSlots /\ Running' = Running
  BY SavingKeeps DEF SaveRenamed, Save
<1>2. PICK kept \in BOOLEAN : file' = Content(kept) /\ tmp' = NoFile
  BY DEF CInv, SaveRenamed, Save
<1>3. WellFormed(Content(kept)) /\ Loaded(Content(kept)) = Restored(Running)
  BY ContentHolds
<1>4. WellFormed(file)' /\ Loaded(file)' = Restored(Running)
  BY <1>2, <1>3 DEF WellFormed, Loaded
<1>5. QED
  BY <1>1, <1>2, <1>4 DEF CInv, SaveRenamed, Save, Synced

\* A save that fails changes neither the servers nor the file.
LEMMA SaveFailedPreserves == ASSUME CInv, SaveNotOpened \/ SaveAbandoned PROVE CInv'
<1>1. /\ active' = active /\ dyn_cfgs' = dyn_cfgs /\ process' = process
      /\ file' = file /\ saving' = "no" /\ failed' = TRUE
      /\ tmp' = tmp \/ tmp' = NoFile
  BY DEF SaveNotOpened, SaveAbandoned, Save, SaveFails
<1>2. ActiveSlots' = ActiveSlots
  BY <1>1, SavingKeeps
<1>3. WellFormed(file)' /\ (tmp = NoFile \/ WellFormed(tmp))'
  BY <1>1 DEF CInv, WellFormed
<1>4. QED
  BY <1>1, <1>2, <1>3 DEF CInv, Synced

\* Steps that touch neither the servers nor the file.
LEMMA IdlePreserves ==
  ASSUME CInv, UNCHANGED <<active, dyn_cfgs, saving, file, tmp, failed>>,
         process' = process \/ (process' = "refused" /\ process = "down")
  PROVE  CInv'
<1>1. ActiveSlots' = ActiveSlots /\ Running' = Running
  BY SavingKeeps
<1>2. \A kept \in BOOLEAN : Content(kept)' = Content(kept)
  BY <1>1 DEF Content
<1>3. WellFormed(file)' /\ (tmp = NoFile \/ WellFormed(tmp))'
  BY DEF CInv, WellFormed
<1>4. Loaded(file)' = Loaded(file)
  BY DEF Loaded
<1>5. Synced'
  BY <1>1, <1>4 DEF CInv, Synced
<1>6. QED
  BY <1>1, <1>2, <1>3, <1>5 DEF CInv

LEMMA NextPreserves == CInv /\ [Next]_vars => CInv'
<1> SUFFICES ASSUME CInv, [Next]_vars PROVE CInv'
  OBVIOUS
<1>1. CASE Start
  BY <1>1, StartHolds
<1>2. CASE StartRefused
  BY <1>2, IdlePreserves DEF StartRefused
<1>3. CASE Crash
  BY <1>3, CrashPreserves
<1>4. ASSUME NEW s \in Slots, HandleSet(s) \/ HandleSetMaster(s) \/ HandleRemoveServer(s)
      PROVE  CInv'
  BY <1>4, SetPreserves, RemovePreserves
<1>5. ASSUME NEW c \in Added, HandleAddServer(c) \/ AddServerFailed(c)
      PROVE  CInv'
  BY <1>5, AddPreserves, AddFailedKeeps
<1>6. CASE SaveOpened
  BY <1>6, SaveOpenedPreserves
<1>7. CASE SaveWritten
  BY <1>7, SaveWrittenPreserves
<1>8. CASE SaveRenamed
  BY <1>8, SaveRenamedHolds
<1>9. CASE SaveNotOpened \/ SaveAbandoned
  BY <1>9, SaveFailedPreserves
<1>10. CASE UNCHANGED vars
  BY <1>10, IdlePreserves DEF vars
<1>11. QED
  BY <1>1, <1>2, <1>3, <1>4, <1>5, <1>6, <1>7, <1>8, <1>9, <1>10 DEF Next

LEMMA Invariance == Spec => []CInv
BY InitHolds, NextPreserves, PTL DEF Spec

-----------------------------------------------------------------------------
(* The theorems.                                                            *)

\* The servers and the files keep their shape (relay.h, config.c).
THEOREM TypeCorrect == Spec => []TypeOK
<1>1. CInv => TypeOK
  <2>1. ASSUME NEW f, WellFormed(f)
        PROVE  IsFile(f)
    BY <2>1 DEF WellFormed, IsFile
  <2>2. QED
    BY <2>1 DEF CInv, TypeOK
<1>2. QED
  BY <1>1, Invariance, PTL

\* No command forgets to save, and no save leaves anything out (mgmt.c,
\* config.c).
THEOREM SyncedCorrect == Spec => []Synced
<1>1. CInv => Synced
  BY DEF CInv
<1>2. QED
  BY <1>1, Invariance, PTL

\* Whatever commands, failed saves and crashes there were, config_load takes the
\* file, but for the two exceptions of FileLoads (config.c).
THEOREM FileLoadsCorrect == Spec => []FileLoads
<1>1. CInv => FileLoads
  BY DEF CInv, WellFormed, FileLoads, Loads
<1>2. QED
  BY <1>1, Invariance, PTL

\* The file is replaced as a whole or not at all, and a start takes over what it
\* says (config.c, main.c).
THEOREM Refinement == Spec => RefinesStore
<1>1. Init => ~(process = "running") /\ (IF process = "running" THEN Running ELSE <<>>) = <<>>
  BY DEF Init
<1>2. CInv /\ [Next]_vars => [Store!Next]_(Store!vars)
  <2> SUFFICES ASSUME CInv, [Next]_vars PROVE [Store!Next]_(Store!vars)
    OBVIOUS
  <2>1. CASE Start
    <3>1. Running' = Loaded(file) /\ Loaded(file)' = Loaded(file)
      BY <2>1, StartHolds DEF Start, Loaded
    <3>2. QED
      BY <2>1, <3>1 DEF Start, Store!Next, Store!Start
  <2>2. CASE StartRefused \/ UNCHANGED vars
    <3>1. Running' = Running /\ Loaded(file)' = Loaded(file)
      BY <2>2, SavingKeeps DEF StartRefused, vars, Loaded
    <3>2. QED
      BY <2>2, <3>1 DEF StartRefused, vars, Store!vars
  <2>3. CASE Crash
    <3>1. Loaded(file)' = Loaded(file)
      BY <2>3 DEF Crash, Loaded
    <3>2. QED
      BY <2>3, <3>1 DEF Crash, Store!Next, Store!Crash
  <2>4. ASSUME process = "running", process' = "running", file' = file
        PROVE  Store!Next
    <3>1. Loaded(file)' = Loaded(file)
      BY <2>4 DEF Loaded
    <3>2. QED
      BY <2>4, <3>1 DEF Store!Next, Store!Change
  <2>5. ASSUME NEW s \in Slots, HandleSet(s) \/ HandleSetMaster(s) \/ HandleRemoveServer(s)
        PROVE  Store!Next
    BY <2>4, <2>5 DEF HandleSet, HandleSetMaster, HandleRemoveServer, Tuned, Command
  <2>6. ASSUME NEW c \in Added, HandleAddServer(c) \/ AddServerFailed(c)
        PROVE  Store!Next
    BY <2>4, <2>6 DEF HandleAddServer, AddServerFailed, Command
  <2>7. CASE SaveOpened \/ SaveNotOpened \/ SaveWritten \/ SaveAbandoned
    BY <2>4, <2>7 DEF SaveOpened, SaveNotOpened, SaveWritten, SaveAbandoned, Save, SaveFails
  <2>8. CASE SaveRenamed
    <3>1. Running' = Running /\ Loaded(file)' = Restored(Running)
      BY <2>8, SaveRenamedHolds
    <3>2. QED
      BY <2>8, <3>1 DEF SaveRenamed, Save, Store!Next, Store!Save
  <2>9. QED
    BY <2>1, <2>2, <2>3, <2>5, <2>6, <2>7, <2>8 DEF Next
<1>3. QED
  BY <1>1, <1>2, Invariance, PTL DEF Spec, RefinesStore, Store!Spec

=============================================================================
