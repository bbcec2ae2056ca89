-------------------------- MODULE ProfilesProofs --------------------------
(***************************************************************************)
(* What the unlocked profile store keeps: for any number of RPC handlers   *)
(* and profiles, with any interleaving, failure, dropped call and crash.   *)
(*                                                                         *)
(* Only delete_profile removes a file.  A profile of which no two saves    *)
(* overlapped is stored whole, as it was last saved: its temporary file    *)
(* belongs to the one save that is under way, and no other save can reach  *)
(* its inodes.  While the calls of a kind do not overlap, the record names *)
(* the profile the mouse has, and no two profiles are the default.         *)
(***************************************************************************)
EXTENDS Profiles, FiniteSetTheorems, TLAPS

Profile == [config : Configs, is_default : BOOLEAN]

Pc == {"idle", "exists", "remove", "get", "list", "unset", "create tmp", "write", "rename",
       "choose", "set config", "record"}

CallType ==
    [pc : Pc, op : Mutating \cup Applying \cup {None}, id : Ids \cup {None},
     profile : Profile \cup {None}, todo : SUBSET Ids,
     defaults : SUBSET [id : Ids, profile : Profile],
     saving : [id : Ids, profile : Profile] \cup {None},
     inode : Inodes \cup {None}, dropped : BOOLEAN]

\* What a call has at hand where it needs it.
WellFormed(c) ==
    /\ c \in CallType
    /\ c.pc \notin {"idle", "choose"} => c.id \in Ids
    /\ c.pc = "choose" => c.op = "auto"
    /\ c.pc = "get" => c.op \in {"update", "set default"} \cup Applying
    /\ c.pc \in {"list", "unset"} => c.profile \in Profile
    /\ c.op = "set default" /\ c.pc \notin {"idle", "get"} => c.profile \in Profile
    /\ c.pc = "exists" /\ c.op # "delete" => c.profile \in Profile
    /\ c.pc \in {"create tmp", "write", "rename"} => c.saving \in [id : Ids, profile : Profile]
    /\ IF c.pc \in {"write", "rename"} THEN c.inode \in Inodes ELSE c.inode = None
    /\ c.pc = "remove" => c.op = "delete"

CallsOK == call \in [Actors -> CallType] /\ \A t \in Actors : WellFormed(call[t])

TypeOK ==
    /\ file \in [Ids -> Inodes \cup {None}]
    /\ temp \in [Ids -> Inodes \cup {None}]
    /\ data \in [Inodes -> Profile \cup {Empty, Torn}]
    /\ CallsOK
    /\ active \in Ids \cup {None}
    /\ saved \in [Ids -> Profile \cup {None}]
    /\ shared \subseteq Ids

LEMMA NoneIsNoInode ==
  /\ None \notin Inodes
  /\ Cardinality(Ids) \in Nat /\ Cardinality(Rpcs) \in Nat
  /\ Inodes \subseteq Nat
  <1>1. Cardinality(Ids) \in Nat /\ Cardinality(Rpcs) \in Nat
    BY FS_CardinalityType, FiniteAssumption
  <1> QED  BY <1>1, NoneAssumption DEF Inodes

LEMMA NoCallWellFormed == WellFormed(NoCall)
  BY IdsAssumption DEF WellFormed, CallType, NoCall, Pc

-----------------------------------------------------------------------------
(* The invariant. *)

Writing(c) == c.pc \in {"write", "rename"}

\* No two names name the same inode.
Disjoint ==
    /\ \A i, j \in Ids : file[i] # None => file[i] # temp[j] /\ (i # j => file[i] # file[j])
    /\ \A i, j \in Ids : i # j /\ temp[i] # None => temp[i] # temp[j]

\* A save under way can only reach inodes of its own profile.
Owned ==
    \A t \in Actors : Writing(call[t]) =>
        /\ \A i \in Ids \ {call[t].saving.id} :
             call[t].inode # file[i] /\ call[t].inode # temp[i]
        /\ \A u \in Actors : Writing(call[u]) /\ call[u].saving.id # call[t].saving.id
                                => call[u].inode # call[t].inode

\* Of a profile whose saves never overlapped, the one under way has the temporary file to
\* itself, unless that was removed by a save that failed before it began.
Alone ==
    \A t \in Actors : Writing(call[t]) /\ call[t].saving.id \notin shared =>
        /\ temp[call[t].saving.id] \in {call[t].inode, None}
        /\ call[t].inode # file[call[t].saving.id]
        /\ data[call[t].inode] = IF call[t].pc = "write" THEN Empty ELSE call[t].saving.profile
        /\ \A u \in Actors \ {t} : Writing(call[u]) => call[u].saving.id # call[t].saving.id

Inv == TypeOK /\ Disjoint /\ Owned /\ Alone /\ SavedIsThere

-----------------------------------------------------------------------------
(* A step changes one call. *)

LEMMA OneCallMoves ==
  ASSUME CallsOK, NEW t \in Actors, NEW c, WellFormed(c),
         Become(t, c) \/ Proceed(t, c) \/ Return(t)
  PROVE  /\ CallsOK'
         /\ call'[t] \in {c, NoCall}
         /\ \A u \in Actors \ {t} : call'[u] = call[u]
  <1>1. PICK d \in {c, NoCall} : call' = [call EXCEPT ![t] = d]
    BY DEF Become, Proceed, Return
  <1>2. WellFormed(d) /\ d \in CallType
    <2>1. WellFormed(d)
      BY NoCallWellFormed
    <2> QED  BY <2>1 DEF WellFormed
  <1>3. call' \in [Actors -> CallType] /\ call'[t] = d
    BY <1>1, <1>2 DEF CallsOK
  <1>4. \A u \in Actors \ {t} : call'[u] = call[u]
    BY <1>1 DEF CallsOK
  <1>5. \A u \in Actors : WellFormed(call'[u])
    BY <1>2, <1>3, <1>4 DEF CallsOK
  <1> QED  BY <1>3, <1>4, <1>5 DEF CallsOK

\* What a step must leave alone for the files to stay as they are: no call starts or goes on
\* writing.
LEMMA QuietStep ==
  ASSUME Inv, CallsOK', UNCHANGED disk, UNCHANGED <<saved, shared>>,
         active' \in Ids \cup {None},
         \A u \in Actors : Writing(call'[u]) =>
             /\ call'[u].pc = call[u].pc
             /\ call'[u].saving = call[u].saving
             /\ call'[u].inode = call[u].inode
  PROVE  Inv'
  <1>0. UNCHANGED <<file, temp, data>>
    BY DEF disk
  <1>1. TypeOK'
    BY <1>0 DEF Inv, TypeOK
  <1>2. Disjoint'
    BY <1>0 DEF Inv, Disjoint
  <1>3. \A u \in Actors : Writing(call'[u]) => Writing(call[u])
    BY DEF Writing
  <1>4. Owned'
    BY <1>0, <1>3 DEF Inv, Owned
  <1>5. Alone'
    BY <1>0, <1>3 DEF Inv, Alone
  <1>6. SavedIsThere'
    BY <1>0 DEF Inv, SavedIsThere
  <1> QED  BY <1>1, <1>2, <1>4, <1>5, <1>6 DEF Inv

\* A call that moves to where it does not write.
LEMMA QuietMove ==
  ASSUME Inv, NEW t \in Actors, NEW c, WellFormed(c), ~Writing(c),
         Become(t, c) \/ Proceed(t, c) \/ Return(t),
         UNCHANGED disk, UNCHANGED <<saved, shared>>, active' \in Ids \cup {None}
  PROVE  Inv'
  <1>1. /\ CallsOK'
        /\ call'[t] \in {c, NoCall}
        /\ \A u \in Actors \ {t} : call'[u] = call[u]
    BY OneCallMoves DEF Inv, TypeOK
  <1>2. ~Writing(call'[t])
    BY <1>1 DEF NoCall, Writing
  <1> QED  BY <1>1, <1>2, QuietStep

-----------------------------------------------------------------------------
(* There is always an inode for a new file. *)

LEMMA Values ==
  ASSUME NEW S, IsFiniteSet(S), NEW f
  PROVE  /\ IsFiniteSet({f[x] : x \in S})
         /\ Cardinality({f[x] : x \in S}) \in Nat
         /\ Cardinality({f[x] : x \in S}) <= Cardinality(S)
  <1> DEFINE T == {f[x] : x \in S}
             g == [x \in S |-> f[x]]
  <1>1. g \in Surjection(S, T)
    BY DEF Surjection
  <1> HIDE DEF g, T
  <1>2. IsFiniteSet(T) /\ Cardinality(T) <= Cardinality(S)
    BY <1>1, FS_Surjection
  <1>3. Cardinality(T) \in Nat
    BY <1>2, FS_CardinalityType
  <1> QED  BY <1>2, <1>3 DEF T

LEMMA FreshIsFree ==
  ASSUME TypeOK, NEW t \in Actors, call[t].inode = None, NEW id \in Ids, temp[id] = None
  PROVE  Fresh \in Inodes /\ Free(Fresh)
  <1> DEFINE I == Cardinality(Ids)
             R == Cardinality(Rpcs)
             inodes == [u \in Actors |-> call[u].inode]
             Files == {file[i] : i \in Ids}
             Temps == {temp[i] : i \in Ids \ {id}}
             Calls == {inodes[u] : u \in Actors \ {t}}
             Used == (Files \cup Temps) \cup Calls
  <1>1. I \in Nat /\ R \in Nat
    BY NoneIsNoInode
  <1>2. IsFiniteSet(Ids \ {id}) /\ Cardinality(Ids \ {id}) = I - 1
    BY FS_RemoveElement, FiniteAssumption
  <1>3. IsFiniteSet(Actors \ {t}) /\ Cardinality(Actors \ {t}) = R
    <2>1. IsFiniteSet(Actors) /\ Cardinality(Actors) = R + 1
      BY FS_AddElement, FiniteAssumption, ActorsAssumption DEF Actors
    <2>2. IsFiniteSet(Actors \ {t}) /\ Cardinality(Actors \ {t}) = Cardinality(Actors) - 1
      BY <2>1, FS_RemoveElement
    <2> HIDE DEF R
    <2> QED  BY <2>1, <2>2, <1>1
  <1>4. IsFiniteSet(Files) /\ Cardinality(Files) \in Nat /\ Cardinality(Files) <= I
    BY Values, FiniteAssumption
  <1>5. IsFiniteSet(Temps) /\ Cardinality(Temps) \in Nat /\ Cardinality(Temps) <= I - 1
    BY <1>2, Values
  <1>6. IsFiniteSet(Calls) /\ Cardinality(Calls) \in Nat /\ Cardinality(Calls) <= R
    <2> HIDE DEF inodes
    <2> QED  BY <1>3, Values
  <1> HIDE DEF Files, Temps, Calls
  <1>7. /\ IsFiniteSet(Used)
        /\ Cardinality(Used) \in Nat
        /\ Cardinality(Used) <= (I + (I - 1)) + R
    <2>1. ASSUME NEW S, NEW T, IsFiniteSet(S), IsFiniteSet(T)
          PROVE  /\ IsFiniteSet(S \cup T)
                 /\ Cardinality(S \cup T) \in Nat
                 /\ Cardinality(S \cup T) <= Cardinality(S) + Cardinality(T)
      <3>1. IsFiniteSet(S \cap T)
        BY <2>1, FS_Intersection
      <3>2. /\ Cardinality(S) \in Nat /\ Cardinality(T) \in Nat
            /\ Cardinality(S \cap T) \in Nat
        BY <2>1, <3>1, FS_CardinalityType
      <3>3. IsFiniteSet(S \cup T)
            /\ Cardinality(S \cup T) = Cardinality(S) + Cardinality(T) - Cardinality(S \cap T)
        BY <2>1, FS_Union
      <3>4. Cardinality(S \cup T) \in Nat
        BY <3>3, FS_CardinalityType
      <3> QED  BY <3>2, <3>3, <3>4
    <2>2. /\ IsFiniteSet(Files \cup Temps)
          /\ Cardinality(Files \cup Temps) \in Nat
          /\ Cardinality(Files \cup Temps) <= Cardinality(Files) + Cardinality(Temps)
      BY <2>1, <1>4, <1>5
    <2>3. /\ IsFiniteSet(Used)
          /\ Cardinality(Used) \in Nat
          /\ Cardinality(Used) <= Cardinality(Files \cup Temps) + Cardinality(Calls)
      BY <2>1, <2>2, <1>6
    <2> HIDE DEF Used, I, R
    <2> QED  BY <2>2, <2>3, <1>1, <1>4, <1>5, <1>6
  <1>8. IsFiniteSet(Inodes) /\ Cardinality(Inodes) = 2 * I + R
    <2> DEFINE n == 2 * I + R
    <2>1. n \in Nat
      <3> HIDE DEF I, R
      <3> QED  BY <1>1
    <2>2. Inodes = 1..n
      BY DEF Inodes
    <2> HIDE DEF n
    <2>3. /\ IsFiniteSet(1..n)
          /\ Cardinality(1..n) = IF 1 > n THEN 0 ELSE n - 1 + 1
      BY <2>1, FS_Interval
    <2>4. IsFiniteSet(Inodes) /\ Cardinality(Inodes) = n
      BY <2>1, <2>2, <2>3
    <2> QED  BY <2>4 DEF n
  <1>9. PICK i \in Inodes : i \notin Used
    <2>1. SUFFICES ASSUME Inodes \subseteq Used  PROVE FALSE
      OBVIOUS
    <2>2. Cardinality(Inodes) <= Cardinality(Used)
      BY <2>1, <1>7, FS_Subset
    <2> HIDE DEF Used, I, R
    <2> QED  BY <2>2, <1>1, <1>7, <1>8
  <1>10. Free(i)
    <2>1. i # None
      BY NoneIsNoInode
    <2>2. \A j \in Ids : i # file[j] /\ i # temp[j]
      BY <1>9, <2>1 DEF Files, Temps
    <2>3. \A u \in Actors : call[u].inode # i
      BY <1>9, <2>1 DEF Calls
    <2> QED  BY <2>2, <2>3 DEF Free
  <1> QED  BY <1>10 DEF Fresh

-----------------------------------------------------------------------------
(* The daemon starts. *)

LEMMA InodeIsInjective ==
  Inode \in [Ids -> Inodes] /\ \A i, j \in Ids : i # j => Inode[i] # Inode[j]
  <1> DEFINE n == Cardinality(Ids)
  <1>1. PICK g \in [1..n -> Ids] : \A i \in Ids : \E k \in 1..n : g[k] = i
    BY FS_CardinalityType, FiniteAssumption DEF ExistsBijection, Bijection, Surjection
  <1>2. 1..n \subseteq Inodes
    BY NoneIsNoInode DEF Inodes
  <1> DEFINE f == [i \in Ids |-> CHOOSE k \in 1..n : g[k] = i]
  <1>3. \A i \in Ids : f[i] \in 1..n /\ g[f[i]] = i
    BY <1>1
  <1>4. f \in [Ids -> Inodes] /\ \A i, j \in Ids : i # j => f[i] # f[j]
    <2>1. f \in [Ids -> Inodes]
      BY <1>2, <1>3
    <2> HIDE DEF f
    <2> QED  BY <1>3, <2>1
  <1> QED  BY <1>4 DEF Inode

LEMMA InitInv == Init => Inv
  <1> SUFFICES ASSUME Init PROVE Inv
    OBVIOUS
  <1> USE DEF Init
  <1>1. saved \in [Ids -> Profile \cup {None}]
    BY DEF Found, Profile
  <1>2. file \in [Ids -> Inodes \cup {None}] /\ temp \in [Ids -> Inodes \cup {None}]
    BY InodeIsInjective
  <1>3. \A i, j \in Ids : file[i] # None /\ i # j => file[i] # file[j]
    BY InodeIsInjective, NoneIsNoInode
  <1>4. \A id \in Ids : file[id] # None =>
            data[file[id]] = saved[id] /\ saved[id] # None
    BY <1>2, <1>3, InodeIsInjective
  <1>5. \A id \in Ids : file[id] = None => saved[id] = None
    BY InodeIsInjective, NoneIsNoInode
  <1>6. data \in [Inodes -> Profile \cup {Empty, Torn}]
    <2>1. ASSUME NEW i \in Inodes, \E id \in Ids : file[id] = i
          PROVE  saved[CHOOSE id \in Ids : file[id] = i] \in Profile
      BY <2>1, <1>1, NoneIsNoInode
    <2> QED  BY <2>1
  <1>7. CallsOK
    <2>1. NoCall \in CallType
      BY NoCallWellFormed DEF WellFormed
    <2> QED  BY <2>1, NoCallWellFormed DEF CallsOK
  <1>8. TypeOK
    BY <1>1, <1>2, <1>6, <1>7 DEF TypeOK
  <1>9. Disjoint
    BY <1>3 DEF Disjoint
  <1>10. \A t \in Actors : ~Writing(call[t])
    BY DEF Writing, NoCall
  <1>11. Owned /\ Alone
    BY <1>10 DEF Owned, Alone
  <1>12. SavedIsThere
    BY <1>4, <1>5 DEF SavedIsThere
  <1> QED  BY <1>8, <1>9, <1>11, <1>12 DEF Inv

-----------------------------------------------------------------------------
(* Steps that leave the disk alone. *)

\* A call begins.
LEMMA BeginInv ==
  ASSUME Inv, NEW t \in Actors, NEW op \in Mutating \cup Applying, NEW pc \in Pc,
         NEW id \in Ids \cup {None}, NEW profile \in Profile \cup {None},
         WellFormed([NoCall EXCEPT !.pc = pc, !.op = op, !.id = id, !.profile = profile]),
         pc \in {"exists", "get", "choose"},
         Begin(t, op, pc, id, profile)
  PROVE  Inv'
  <1> DEFINE c == [NoCall EXCEPT !.pc = pc, !.op = op, !.id = id, !.profile = profile]
  <1>1. WellFormed(c) /\ ~Writing(c)
    BY DEF Writing, NoCall
  <1>2. Become(t, c) /\ UNCHANGED disk /\ UNCHANGED <<saved, shared>> /\ active' = active
    BY DEF Begin
  <1>3. active' \in Ids \cup {None}
    BY <1>2 DEF Inv, TypeOK
  <1> HIDE DEF c
  <1> QED  BY <1>1, <1>2, <1>3, QuietMove

LEMMA BeginWellFormed ==
  ASSUME NEW op \in Mutating \cup Applying, NEW pc \in {"exists", "get", "choose"},
         NEW id \in Ids \cup {None}, NEW profile \in Profile \cup {None},
         pc # "choose" => id \in Ids,
         pc = "choose" <=> op = "auto",
         pc = "get" => op \in {"update", "set default"} \cup Applying,
         op = "set default" => pc = "get",
         pc = "exists" /\ op # "delete" => profile \in Profile
  PROVE  WellFormed([NoCall EXCEPT !.pc = pc, !.op = op, !.id = id, !.profile = profile])
  BY DEF WellFormed, CallType, NoCall, Pc

LEMMA RequestInv ==
  ASSUME Inv, NEW t \in Rpcs, Request(t)
  PROVE  Inv'
  <1> USE DEF Mutating, Applying, Pc
  <1>1. t \in Actors
    BY DEF Actors
  <1>2. \A config \in Configs : New(config) \in Profile
    BY DEF New, Profile
  <1>3. PICK id \in Ids : \/ \E config \in Configs :
                              \/ \E d \in BOOLEAN : CreateProfile(t, id, config, d)
                              \/ UpdateProfile(t, id, {config})
                          \/ UpdateProfile(t, id, {})
                          \/ DeleteProfile(t, id)
                          \/ SetDefaultProfile(t, id)
                          \/ ApplyProfile(t, id)
    BY DEF Request
  <1>4. ASSUME NEW config \in Configs, NEW d \in BOOLEAN, CreateProfile(t, id, config, d)
        PROVE  Inv'
    <2> DEFINE op == IF d THEN "create default" ELSE "create"
    <2>1. WellFormed([NoCall EXCEPT !.pc = "exists", !.op = op, !.id = id,
                                    !.profile = New(config)])
      BY <1>2, BeginWellFormed
    <2>2. Begin(t, op, "exists", id, New(config))
      BY <1>4 DEF CreateProfile
    <2> QED  BY <1>1, <1>2, <2>1, <2>2, BeginInv
  <1>5. ASSUME NEW option \in {{}} \cup {{config} : config \in Configs},
               UpdateProfile(t, id, option)
        PROVE  Inv'
    <2> DEFINE p == IF option = {} THEN None ELSE New(CHOOSE c \in option : TRUE)
    <2>1. p \in Profile \cup {None}
      BY <1>2
    <2>2. Begin(t, "update", "get", id, p)
      BY <1>5 DEF UpdateProfile
    <2> HIDE DEF p
    <2>3. WellFormed([NoCall EXCEPT !.pc = "get", !.op = "update", !.id = id, !.profile = p])
      BY <2>1, BeginWellFormed
    <2> QED  BY <1>1, <2>1, <2>2, <2>3, BeginInv
  <1>6. ASSUME NEW op \in {"set default", "apply"}, Begin(t, op, "get", id, None)
        PROVE  Inv'
    <2>1. WellFormed([NoCall EXCEPT !.pc = "get", !.op = op, !.id = id, !.profile = None])
      BY BeginWellFormed
    <2> QED  BY <1>1, <1>6, <2>1, BeginInv
  <1>7. CASE DeleteProfile(t, id)
    <2>1. WellFormed([NoCall EXCEPT !.pc = "exists", !.op = "delete", !.id = id,
                                    !.profile = None])
      BY BeginWellFormed
    <2> QED  BY <1>1, <1>7, <2>1, BeginInv DEF DeleteProfile
  <1>8. CASE \E config \in Configs : \/ \E d \in BOOLEAN : CreateProfile(t, id, config, d)
                                     \/ UpdateProfile(t, id, {config})
    BY <1>4, <1>5, <1>8
  <1> QED  BY <1>3, <1>5, <1>6, <1>7, <1>8 DEF SetDefaultProfile, ApplyProfile

LEMMA ConnectedInv ==
  ASSUME Inv, Connected
  PROVE  Inv'
  <1> USE DEF Mutating, Applying, Pc
  <1>1. Handler \in Actors
    BY DEF Actors
  <1>2. WellFormed([NoCall EXCEPT !.pc = "choose", !.op = "auto", !.id = None, !.profile = None])
    BY BeginWellFormed
  <1> QED  BY <1>1, <1>2, BeginInv DEF Connected

\* A call that is about to save a profile.
LEMMA SavingWellFormed ==
  ASSUME NEW c, WellFormed(c), c.pc \notin {"write", "rename"}, c.id \in Ids,
         c.op = "set default" => c.profile \in Profile,
         NEW id \in Ids, NEW profile \in Profile
  PROVE  WellFormed(Saving(c, id, profile)) /\ ~Writing(Saving(c, id, profile))
  BY DEF WellFormed, CallType, Saving, Writing, Pc

LEMMA LoadedIsProfile ==
  ASSUME TypeOK, NEW id \in Ids
  PROVE  Loaded(id) \in Profile \cup {None}
  BY DEF TypeOK, Loaded

LEMMA ExistsInv ==
  ASSUME Inv, NEW t \in Actors, Exists(t)
  PROVE  Inv'
  <1> DEFINE c == call[t]
  <1>1. WellFormed(c) /\ c.pc = "exists" /\ active \in Ids \cup {None}
    BY DEF Inv, TypeOK, CallsOK, Exists, At
  <1>2. UNCHANGED disk /\ UNCHANGED <<saved, shared>> /\ active' = active
    BY DEF Exists, history
  <1>3. CASE Return(t)
    BY <1>1, <1>2, <1>3, QuietMove, NoCallWellFormed DEF NoCall, Writing
  <1>4. CASE c.op = "delete" /\ Proceed(t, [c EXCEPT !.pc = "remove"])
    <2>1. WellFormed([c EXCEPT !.pc = "remove"]) /\ ~Writing([c EXCEPT !.pc = "remove"])
      BY <1>1, <1>4 DEF WellFormed, CallType, Pc, Writing
    <2> QED  BY <1>1, <1>2, <1>4, <2>1, QuietMove
  <1>5. CASE c.op # "delete" /\ Proceed(t, Saving(c, c.id, c.profile))
    <2>1. c.id \in Ids /\ c.profile \in Profile
      BY <1>1, <1>5 DEF WellFormed
    <2>2. WellFormed(Saving(c, c.id, c.profile)) /\ ~Writing(Saving(c, c.id, c.profile))
      BY <1>1, <2>1, SavingWellFormed
    <2> QED  BY <1>1, <1>2, <1>5, <2>2, QuietMove
  <1> QED  BY <1>3, <1>4, <1>5 DEF Exists

LEMMA GetInv ==
  ASSUME Inv, NEW t \in Actors, Get(t)
  PROVE  Inv'
  <1> DEFINE c == call[t]
             p == Loaded(c.id)
  <1>1. /\ WellFormed(c) /\ c.pc = "get" /\ c.id \in Ids
        /\ active \in Ids \cup {None} /\ p \in Profile \cup {None}
    <2>1. WellFormed(c) /\ c.pc = "get" /\ active \in Ids \cup {None}
      BY DEF Inv, TypeOK, CallsOK, Get, At
    <2>2. c.id \in Ids
      BY <2>1 DEF WellFormed
    <2> QED  BY <2>1, <2>2, LoadedIsProfile DEF Inv
  <1>2. UNCHANGED disk /\ UNCHANGED <<saved, shared>> /\ active' = active
    BY DEF Get, history
  <1>3. c.op \in {"update", "set default"} \cup Applying
    BY <1>1 DEF WellFormed
  <1>4. CASE p = None
    <2>1. Return(t)
      BY <1>4 DEF Get
    <2> QED  BY <1>1, <1>2, <2>1, QuietMove, NoCallWellFormed DEF NoCall, Writing
  <1>5. CASE p # None /\ c.op = "update"
    <2> DEFINE q == Updated(p, c.profile)
    <2>1. q \in Profile
      BY <1>1, <1>5 DEF Updated, Profile, WellFormed, CallType
    <2>2. Proceed(t, Saving(c, c.id, q))
      BY <1>5 DEF Get, Applying
    <2> HIDE DEF q
    <2>3. WellFormed(Saving(c, c.id, q)) /\ ~Writing(Saving(c, c.id, q))
      BY <1>1, <1>5, <2>1, SavingWellFormed
    <2> QED  BY <1>1, <1>2, <2>2, <2>3, QuietMove
  <1>6. CASE p # None /\ c.op = "set default"
    <2> DEFINE d == [c EXCEPT !.pc = "list", !.profile = p,
                              !.todo = {id \in Ids : file[id] # None}]
    <2>1. Proceed(t, d)
      BY <1>6 DEF Get, Applying
    <2>2. WellFormed(d) /\ ~Writing(d)
      <3> HIDE DEF p
      <3> QED  BY <1>1, <1>6 DEF WellFormed, CallType, Pc, Writing
    <2> HIDE DEF d
    <2> QED  BY <1>1, <1>2, <2>1, <2>2, QuietMove
  <1>7. CASE p # None /\ c.op \in Applying
    <2> DEFINE d == [c EXCEPT !.pc = "set config"]
    <2>1. Proceed(t, d)
      BY <1>7 DEF Get, Applying
    <2>2. WellFormed(d) /\ ~Writing(d)
      BY <1>1, <1>7 DEF WellFormed, CallType, Pc, Writing, Applying
    <2> HIDE DEF d
    <2> QED  BY <1>1, <1>2, <2>1, <2>2, QuietMove
  <1> QED  BY <1>3, <1>4, <1>5, <1>6, <1>7

LEMMA ListInv ==
  ASSUME Inv, NEW t \in Actors, List(t)
  PROVE  Inv'
  <1> DEFINE c == call[t]
  <1>1. WellFormed(c) /\ c.pc = "list" /\ active \in Ids \cup {None}
    BY DEF Inv, TypeOK, CallsOK, List, At
  <1>2. UNCHANGED disk /\ UNCHANGED <<saved, shared>> /\ active' = active
    BY DEF List, history
  <1>3. CASE Proceed(t, [c EXCEPT !.pc = "unset"])
    <2>1. WellFormed([c EXCEPT !.pc = "unset"]) /\ ~Writing([c EXCEPT !.pc = "unset"])
      BY <1>1 DEF WellFormed, CallType, Pc, Writing
    <2> QED  BY <1>1, <1>2, <1>3, <2>1, QuietMove
  <1>4. ASSUME NEW id \in c.todo, NEW found \in SUBSET {[id |-> id, profile |-> Loaded(id)]},
               found # {} => Loaded(id) # None,
               Proceed(t, [c EXCEPT !.todo = @ \ {id}, !.defaults = @ \cup found])
        PROVE  Inv'
    <2> DEFINE d == [c EXCEPT !.todo = @ \ {id}, !.defaults = @ \cup found]
    <2>1. id \in Ids
      BY <1>1 DEF WellFormed, CallType
    <2>2. found \subseteq [id : Ids, profile : Profile]
      BY <1>4, <2>1, LoadedIsProfile DEF Inv
    <2>3. WellFormed(d) /\ ~Writing(d)
      BY <1>1, <2>2 DEF WellFormed, CallType, Writing
    <2> HIDE DEF d
    <2> QED  BY <1>1, <1>2, <1>4, <2>3, QuietMove DEF d
  <1>5. CASE \E id \in c.todo :
               LET p     == Loaded(id)
                   found == IF p # None /\ id # c.id /\ p.is_default
                            THEN {[id |-> id, profile |-> p]} ELSE {}
               IN Proceed(t, [c EXCEPT !.todo = @ \ {id}, !.defaults = @ \cup found])
    <2>1. PICK id \in c.todo :
               LET p     == Loaded(id)
                   found == IF p # None /\ id # c.id /\ p.is_default
                            THEN {[id |-> id, profile |-> p]} ELSE {}
               IN Proceed(t, [c EXCEPT !.todo = @ \ {id}, !.defaults = @ \cup found])
      BY <1>5
    <2> DEFINE found == IF Loaded(id) # None /\ id # c.id /\ Loaded(id).is_default
                        THEN {[id |-> id, profile |-> Loaded(id)]} ELSE {}
    <2>2. /\ found \in SUBSET {[id |-> id, profile |-> Loaded(id)]}
          /\ found # {} => Loaded(id) # None
      OBVIOUS
    <2>3. Proceed(t, [c EXCEPT !.todo = @ \ {id}, !.defaults = @ \cup found])
      BY <2>1
    <2> HIDE DEF found
    <2> QED  BY <2>2, <2>3, <1>4
  <1> QED  BY <1>3, <1>5 DEF List

LEMMA UnsetInv ==
  ASSUME Inv, NEW t \in Actors, Unset(t)
  PROVE  Inv'
  <1> DEFINE c == call[t]
  <1>1. WellFormed(c) /\ c.pc = "unset" /\ active \in Ids \cup {None}
    BY DEF Inv, TypeOK, CallsOK, Unset, At
  <1>2. UNCHANGED disk /\ UNCHANGED <<saved, shared>> /\ active' = active
    BY DEF Unset, history
  <1>3. c.id \in Ids /\ c.profile \in Profile /\ c.defaults \subseteq [id : Ids, profile : Profile]
    BY <1>1 DEF WellFormed, CallType
  <1>4. PICK d \in NextSaves(c) : Proceed(t, d)
    BY DEF Unset
  <1>5. WellFormed(d) /\ ~Writing(d)
    <2>1. ASSUME NEW p \in Profile, NEW b \in BOOLEAN
          PROVE  [p EXCEPT !.is_default = b] \in Profile
      BY DEF Profile
    <2>2. CASE c.defaults = {}
      <3>1. d = Saving(c, c.id, [c.profile EXCEPT !.is_default = TRUE])
        BY <1>4, <2>2 DEF NextSaves
      <3> QED  BY <1>1, <1>3, <2>1, <3>1, SavingWellFormed
    <2>3. CASE c.defaults # {}
      <3>1. PICK other \in c.defaults :
              d = Saving([c EXCEPT !.defaults = @ \ {other}], other.id,
                         [other.profile EXCEPT !.is_default = FALSE])
        BY <1>4, <2>3 DEF NextSaves
      <3>2. other.id \in Ids /\ [other.profile EXCEPT !.is_default = FALSE] \in Profile
        BY <1>3, <2>1
      <3> DEFINE e == [c EXCEPT !.defaults = @ \ {other}]
      <3>3. WellFormed(e) /\ e.pc = "unset" /\ e.id \in Ids /\ e.profile \in Profile
        BY <1>1, <1>3 DEF WellFormed, CallType
      <3> HIDE DEF e
      <3> QED  BY <3>1, <3>2, <3>3, SavingWellFormed DEF e
    <2> QED  BY <2>2, <2>3
  <1> QED  BY <1>1, <1>2, <1>4, <1>5, QuietMove

LEMMA ChooseInv ==
  ASSUME Inv, NEW t \in Actors, Choose(t)
  PROVE  Inv'
  <1> DEFINE c  == call[t]
             id == IF active # None THEN active ELSE DefaultId
             d  == [c EXCEPT !.pc = "get", !.id = id]
  <1>1. WellFormed(c) /\ c.pc = "choose" /\ active \in Ids \cup {None}
    BY DEF Inv, TypeOK, CallsOK, Choose, At
  <1>2. UNCHANGED disk /\ UNCHANGED <<saved, shared>> /\ active' = active
    BY DEF Choose, history
  <1>3. CASE Return(t)
    BY <1>1, <1>2, <1>3, QuietMove, NoCallWellFormed DEF NoCall, Writing
  <1>4. CASE id # None /\ Proceed(t, d)
    <2>1. id \in Ids
      BY <1>1, <1>4, IdsAssumption
    <2> HIDE DEF id
    <2>2. WellFormed(d) /\ ~Writing(d)
      BY <1>1, <2>1 DEF WellFormed, CallType, Pc, Writing, Applying
    <2> HIDE DEF d
    <2> QED  BY <1>1, <1>2, <1>4, <2>2, QuietMove
  <1> QED  BY <1>3, <1>4 DEF Choose

LEMMA SetConfigInv ==
  ASSUME Inv, NEW t \in Actors, SetConfig(t) \/ SetConfigFails(t)
  PROVE  Inv'
  <1> DEFINE c == call[t]
             d == [c EXCEPT !.pc = "record"]
  <1>1. WellFormed(c) /\ c.pc = "set config" /\ active \in Ids \cup {None}
    BY DEF Inv, TypeOK, CallsOK, SetConfig, SetConfigFails, At
  <1>2. UNCHANGED disk /\ UNCHANGED <<saved, shared>> /\ active' = active
    BY DEF SetConfig, SetConfigFails, history
  <1>3. CASE Return(t)
    BY <1>1, <1>2, <1>3, QuietMove, NoCallWellFormed DEF NoCall, Writing
  <1>4. CASE Proceed(t, d)
    <2>1. WellFormed(d) /\ ~Writing(d)
      BY <1>1 DEF WellFormed, CallType, Pc, Writing
    <2> HIDE DEF d
    <2> QED  BY <1>1, <1>2, <1>4, <2>1, QuietMove
  <1> QED  BY <1>3, <1>4 DEF SetConfig, SetConfigFails

LEMMA RecordInv ==
  ASSUME Inv, NEW t \in Actors, Record(t)
  PROVE  Inv'
  <1>1. WellFormed(call[t]) /\ call[t].pc = "record"
    BY DEF Inv, TypeOK, CallsOK, Record, At
  <1>2. active' \in Ids \cup {None}
    BY <1>1 DEF Record, Recorded, WellFormed
  <1>3. Return(t) /\ UNCHANGED disk /\ UNCHANGED <<saved, shared>>
    BY DEF Record, history
  <1> QED  BY <1>2, <1>3, QuietMove, NoCallWellFormed DEF NoCall, Writing

LEMMA DropInv ==
  ASSUME Inv, NEW t \in Actors, Drop(t)
  PROVE  Inv'
  <1> DEFINE d == [call[t] EXCEPT !.dropped = TRUE]
  <1>1. WellFormed(call[t]) /\ active \in Ids \cup {None}
    BY DEF Inv, TypeOK, CallsOK
  <1>2. UNCHANGED disk /\ UNCHANGED <<saved, shared>> /\ active' = active
    BY DEF Drop
  <1>3. CASE Return(t)
    BY <1>1, <1>2, <1>3, QuietMove, NoCallWellFormed DEF NoCall, Writing
  <1>4. CASE Become(t, d)
    <2>1. /\ WellFormed(d)
          /\ d.pc = call[t].pc /\ d.saving = call[t].saving /\ d.inode = call[t].inode
      BY <1>1 DEF WellFormed, CallType
    <2> HIDE DEF d
    <2>2. /\ CallsOK'
          /\ call'[t] \in {d, NoCall}
          /\ \A u \in Actors \ {t} : call'[u] = call[u]
      BY <1>4, <2>1, OneCallMoves DEF Inv, TypeOK
    <2>3. \A u \in Actors : Writing(call'[u]) =>
             /\ call'[u].pc = call[u].pc
             /\ call'[u].saving = call[u].saving
             /\ call'[u].inode = call[u].inode
      BY <2>1, <2>2 DEF NoCall, Writing
    <2> QED  BY <1>1, <1>2, <2>2, <2>3, QuietStep
  <1> QED  BY <1>3, <1>4 DEF Drop

LEMMA CrashInv ==
  ASSUME Inv, Crash
  PROVE  Inv'
  <1>1. call' = [t \in Actors |-> NoCall] /\ active' = None
    BY DEF Crash
  <1>2. UNCHANGED disk /\ UNCHANGED <<saved, shared>>
    BY DEF Crash, history
  <1>3. NoCall \in CallType
    BY NoCallWellFormed DEF WellFormed
  <1>4. CallsOK'
    BY <1>1, <1>3, NoCallWellFormed DEF CallsOK
  <1>5. \A u \in Actors : ~Writing(call'[u])
    BY <1>1 DEF NoCall, Writing
  <1> QED  BY <1>1, <1>2, <1>4, <1>5, QuietStep

\* Steps that change nothing of the store.
LEMMA SettingsChangedInv ==
  ASSUME Inv, SettingsChanged \/ UNCHANGED vars
  PROVE  Inv'
  <1>1. /\ UNCHANGED disk /\ UNCHANGED <<saved, shared>>
        /\ call' = call /\ active' = active
    BY DEF SettingsChanged, vars, disk, history
  <1>2. CallsOK' /\ active' \in Ids \cup {None}
    BY <1>1 DEF Inv, TypeOK, CallsOK
  <1> QED  BY <1>1, <1>2, QuietStep

-----------------------------------------------------------------------------
(* Steps that change the disk. *)

LEMMA RemoveInv ==
  ASSUME Inv, NEW t \in Actors, Remove(t)
  PROVE  Inv'
  <1> DEFINE id == call[t].id
  <1> USE DEF Inv
  <1>1. WellFormed(call[t]) /\ call[t].pc = "remove" /\ id \in Ids
    BY DEF TypeOK, CallsOK, Remove, At, WellFormed
  <1>2. /\ file' = [file EXCEPT ![id] = None]
        /\ saved' = [saved EXCEPT ![id] = None]
        /\ UNCHANGED <<temp, data, active, shared>>
    BY DEF Remove
  <1>3. /\ CallsOK'
        /\ call'[t] = NoCall
        /\ \A u \in Actors \ {t} : call'[u] = call[u]
    BY OneCallMoves, NoCallWellFormed DEF TypeOK, Remove
  <1>4. \A u \in Actors : Writing(call'[u]) => call'[u] = call[u] /\ u # t
    BY <1>3 DEF NoCall, Writing
  <1>5. TypeOK'
    BY <1>2, <1>3 DEF TypeOK
  <1>6. /\ \A i \in Ids : file'[i] = IF i = id THEN None ELSE file[i]
        /\ \A i \in Ids : saved'[i] = IF i = id THEN None ELSE saved[i]
    BY <1>2 DEF TypeOK
  <1>7. Disjoint'
    BY <1>2, <1>6 DEF Disjoint
  <1>8. \A u \in Actors : Writing(call[u]) => call[u].inode # None /\ call[u].saving.id \in Ids
    BY NoneIsNoInode DEF TypeOK, CallsOK, WellFormed, Writing
  <1>9. Owned'
    BY <1>2, <1>4, <1>6, <1>8 DEF Owned
  <1>10. Alone'
    BY <1>2, <1>4, <1>6, <1>8 DEF Alone
  <1>11. SavedIsThere'
    BY <1>2, <1>6 DEF SavedIsThere
  <1> QED  BY <1>5, <1>7, <1>9, <1>10, <1>11

LEMMA SaveFailsInv ==
  ASSUME Inv, NEW t \in Actors, SaveFails(t)
  PROVE  Inv'
  <1> DEFINE id == call[t].saving.id
  <1> USE DEF Inv
  <1>1. id \in Ids
    BY DEF TypeOK, CallsOK, SaveFails, WellFormed
  <1>2. /\ temp' \in {temp, [temp EXCEPT ![id] = None]}
        /\ UNCHANGED <<file, data, active, saved, shared>>
    BY DEF SaveFails, CleanUp, history
  <1>3. /\ CallsOK'
        /\ call'[t] = NoCall
        /\ \A u \in Actors \ {t} : call'[u] = call[u]
    BY OneCallMoves, NoCallWellFormed DEF TypeOK, SaveFails
  <1>4. \A u \in Actors : Writing(call'[u]) => call'[u] = call[u] /\ u # t
    BY <1>3 DEF NoCall, Writing
  <1>5. TypeOK'
    BY <1>2, <1>3 DEF TypeOK
  <1>6. \A i \in Ids : temp'[i] = temp[i] \/ temp'[i] = None
    BY <1>2 DEF TypeOK
  <1>7. Disjoint'
    BY <1>2, <1>6 DEF Disjoint
  <1>8. \A u \in Actors : Writing(call[u]) => call[u].inode # None /\ call[u].saving.id \in Ids
    BY NoneIsNoInode DEF TypeOK, CallsOK, WellFormed, Writing
  <1>9. Owned'
    BY <1>2, <1>4, <1>6, <1>8 DEF Owned
  <1>10. Alone'
    BY <1>2, <1>4, <1>6, <1>8 DEF Alone
  <1>11. SavedIsThere'
    BY <1>2 DEF SavedIsThere
  <1> QED  BY <1>5, <1>7, <1>9, <1>10, <1>11

LEMMA CreateTmpInv ==
  ASSUME Inv, NEW t \in Actors, CreateTmp(t)
  PROVE  Inv'
  <1> DEFINE c  == call[t]
             id == c.saving.id
             i  == TmpInode(id)
             d  == [c EXCEPT !.pc = "write", !.inode = i]
  <1> USE DEF Inv
  <1>1. /\ WellFormed(c) /\ c.pc = "create tmp" /\ id \in Ids /\ c.inode = None
        /\ c.saving \in [id : Ids, profile : Profile]
    BY DEF TypeOK, CallsOK, CreateTmp, At, WellFormed
  <1>2. /\ i \in Inodes
        /\ i # None
        /\ \A j \in Ids : i # file[j]
        /\ \A j \in Ids \ {id} : i # temp[j]
        /\ \A u \in Actors : Writing(call[u]) /\ call[u].saving.id # id => call[u].inode # i
    <2>1. CASE temp[id] = None
      <3>1. i = Fresh /\ Fresh \in Inodes /\ Free(Fresh)
        BY <1>1, <2>1, FreshIsFree DEF TmpInode
      <3> QED  BY <3>1, NoneIsNoInode DEF Free
    <2>2. CASE temp[id] # None
      <3>1. i = temp[id]
        BY <2>2 DEF TmpInode
      <3>2. i \in Inodes /\ i # None
        BY <1>1, <2>2, <3>1 DEF TypeOK
      <3>3. \A j \in Ids : i # file[j] /\ (j # id => i # temp[j])
        BY <1>1, <3>1, <3>2 DEF Disjoint
      <3>4. ASSUME NEW u \in Actors, Writing(call[u]), call[u].saving.id # id
            PROVE  call[u].inode # i
        BY <1>1, <3>1, <3>4 DEF Owned
      <3> QED  BY <3>2, <3>3, <3>4
    <2> QED  BY <2>1, <2>2
  <1>3. /\ data' = [data EXCEPT ![i] = Empty]
        /\ temp' = [temp EXCEPT ![id] = i]
        /\ shared' = IF Overlapping(t, id) THEN shared \cup {id} ELSE shared
        /\ Proceed(t, d)
        /\ UNCHANGED <<file, active, saved>>
    BY DEF CreateTmp
  <1> HIDE DEF i
  <1>4. /\ WellFormed(d)
        /\ d.pc = "write" /\ d.saving = c.saving /\ d.inode = i
    BY <1>1, <1>2 DEF WellFormed, CallType, Pc
  <1> HIDE DEF d
  <1>5. /\ CallsOK'
        /\ call'[t] \in {d, NoCall}
        /\ \A u \in Actors \ {t} : call'[u] = call[u]
    BY <1>3, <1>4, OneCallMoves DEF TypeOK
  <1>6. /\ \A j \in Ids : temp'[j] = IF j = id THEN i ELSE temp[j]
        /\ \A k \in Inodes : data'[k] = IF k = i THEN Empty ELSE data[k]
    BY <1>3 DEF TypeOK
  <1>7. TypeOK'
    BY <1>1, <1>2, <1>3, <1>5 DEF TypeOK
  <1>8. Disjoint'
    <2>1. ASSUME NEW j \in Ids, NEW k \in Ids, file[j] # None
          PROVE  file[j] # temp'[k] /\ (j # k => file[j] # file[k])
      BY <1>2, <1>6, <2>1 DEF Disjoint
    <2>2. ASSUME NEW j \in Ids, NEW k \in Ids, j # k, temp'[j] # None
          PROVE  temp'[j] # temp'[k]
      <3>1. CASE j = id
        BY <1>2, <1>6, <2>2, <3>1
      <3>2. CASE k = id
        BY <1>2, <1>6, <2>2, <3>2
      <3>3. CASE j # id /\ k # id
        BY <1>6, <2>2, <3>3 DEF Disjoint
      <3> QED  BY <3>1, <3>2, <3>3
    <2> QED  BY <1>3, <2>1, <2>2 DEF Disjoint
  <1>9. Writing(call'[t]) => call'[t] = d
    BY <1>5 DEF NoCall, Writing
  <1>10. \A u \in Actors : Writing(call[u]) => call[u].inode \in Inodes /\ call[u].saving.id \in Ids
    BY DEF TypeOK, CallsOK, WellFormed, Writing
  <1>11. Owned'
    <2>1. ASSUME NEW u \in Actors, Writing(call'[u]), NEW j \in Ids \ {call'[u].saving.id}
          PROVE  call'[u].inode # file'[j] /\ call'[u].inode # temp'[j]
      <3>1. CASE u = t
        <4>1. call'[u].inode = i /\ call'[u].saving.id = id
          BY <1>4, <1>9, <2>1, <3>1
        <4>2. j \in Ids \ {id}
          BY <2>1, <4>1
        <4>3. temp'[j] = temp[j] /\ file'[j] = file[j]
          BY <1>3, <1>6, <4>2
        <4> QED  BY <1>2, <4>1, <4>2, <4>3
      <3>2. CASE u # t
        <4>1. call'[u] = call[u] /\ Writing(call[u])
          BY <1>5, <2>1, <3>2
        <4>2. j \in Ids \ {call[u].saving.id}
          BY <2>1, <4>1
        <4>3. call[u].inode # file[j] /\ call[u].inode # temp[j]
          BY <4>1, <4>2 DEF Owned
        <4>4. j = id => call[u].inode # i
          BY <1>2, <4>1, <4>2
        <4> QED  BY <1>3, <1>6, <4>1, <4>2, <4>3, <4>4
      <3> QED  BY <3>1, <3>2
    <2>2. ASSUME NEW u \in Actors, Writing(call'[u]), NEW v \in Actors, Writing(call'[v]),
                 call'[v].saving.id # call'[u].saving.id
          PROVE  call'[v].inode # call'[u].inode
      <3>1. CASE u = t
        BY <1>2, <1>4, <1>5, <1>9, <2>2, <3>1
      <3>2. CASE v = t
        BY <1>2, <1>4, <1>5, <1>9, <2>2, <3>2
      <3>3. CASE u # t /\ v # t
        BY <1>5, <2>2, <3>3 DEF Owned
      <3> QED  BY <3>1, <3>2, <3>3
    <2> QED  BY <2>1, <2>2 DEF Owned
  <1>12. Alone'
    <2> SUFFICES ASSUME NEW u \in Actors, Writing(call'[u]), call'[u].saving.id \notin shared'
                 PROVE  /\ temp'[call'[u].saving.id] \in {call'[u].inode, None}
                        /\ call'[u].inode # file'[call'[u].saving.id]
                        /\ data'[call'[u].inode] = IF call'[u].pc = "write" THEN Empty
                                                   ELSE call'[u].saving.profile
                        /\ \A v \in Actors \ {u} : Writing(call'[v]) =>
                              call'[v].saving.id # call'[u].saving.id
      BY DEF Alone
    <2>1. CASE u = t
      <3>1. id \notin shared' /\ ~Overlapping(t, id)
        BY <1>3, <1>4, <1>9, <2>1
      <3>2. \A v \in Actors \ {t} : Writing(call'[v]) => call'[v].saving.id # id
        BY <1>5, <3>1 DEF Overlapping, Writing
      <3> QED  BY <1>1, <1>2, <1>3, <1>4, <1>6, <1>9, <2>1, <3>2
    <2>2. CASE u # t
      <3>1. call'[u] = call[u] /\ Writing(call[u]) /\ call[u].saving.id \notin shared
        BY <1>3, <1>5, <2>2
      <3>2. call[u].saving.id # id
        BY <1>3, <2>2, <3>1 DEF Overlapping, Writing
      <3>3. call[u].inode # i /\ call[u].inode \in Inodes /\ call[u].saving.id \in Ids
        BY <1>2, <1>10, <3>1, <3>2
      <3>4. \A v \in Actors \ {u} : Writing(call'[v]) => call'[v].saving.id # call[u].saving.id
        BY <1>4, <1>5, <1>9, <3>1, <3>2 DEF Alone
      <3> QED  BY <1>3, <1>6, <3>1, <3>2, <3>3, <3>4 DEF Alone
    <2> QED  BY <2>1, <2>2
  <1>13. SavedIsThere'
    <2>1. ASSUME NEW j \in Ids \ shared, file[j] # None
          PROVE  data'[file[j]] = data[file[j]]
      <3>1. file[j] \in Inodes /\ file[j] # i
        BY <1>2, <2>1 DEF TypeOK
      <3> QED  BY <1>6, <3>1
    <2> QED  BY <1>3, <2>1 DEF SavedIsThere
  <1> QED  BY <1>7, <1>8, <1>11, <1>12, <1>13

LEMMA WriteInv ==
  ASSUME Inv, NEW t \in Actors, Write(t)
  PROVE  Inv'
  <1> DEFINE c  == call[t]
             id == c.saving.id
             d  == [c EXCEPT !.pc = "rename"]
  <1> USE DEF Inv
  <1>1. /\ WellFormed(c) /\ c.pc = "write" /\ Writing(c) /\ id \in Ids /\ c.inode \in Inodes
        /\ c.saving.profile \in Profile
    BY DEF TypeOK, CallsOK, Write, At, WellFormed, Writing
  <1>2. PICK contents \in {c.saving.profile} \cup (IF data[c.inode] = Empty THEN {} ELSE {Torn}) :
          data' = [data EXCEPT ![c.inode] = contents]
    BY DEF Write
  <1>3. Proceed(t, d) /\ UNCHANGED <<file, temp, active, saved, shared>>
    BY DEF Write, history
  <1>4. WellFormed(d) /\ d.pc = "rename" /\ d.saving = c.saving /\ d.inode = c.inode
    BY <1>1 DEF WellFormed, CallType, Pc
  <1> HIDE DEF d
  <1>5. /\ CallsOK'
        /\ call'[t] \in {d, NoCall}
        /\ \A u \in Actors \ {t} : call'[u] = call[u]
    BY <1>3, <1>4, OneCallMoves DEF TypeOK
  <1>6. \A k \in Inodes : data'[k] = IF k = c.inode THEN contents ELSE data[k]
    BY <1>2 DEF TypeOK
  <1>7. TypeOK'
    BY <1>1, <1>2, <1>3, <1>5 DEF TypeOK
  <1>8. Disjoint'
    BY <1>3 DEF Disjoint
  <1>9. \A u \in Actors : Writing(call'[u]) =>
          /\ Writing(call[u]) /\ call'[u].saving = call[u].saving /\ call'[u].inode = call[u].inode
          /\ u = t => call'[u] = d
          /\ u # t => call'[u] = call[u]
    BY <1>1, <1>4, <1>5 DEF NoCall, Writing
  <1>10. Owned'
    BY <1>3, <1>9 DEF Owned
  <1>11. \A u \in Actors : Writing(call[u]) => call[u].inode \in Inodes /\ call[u].saving.id \in Ids
    BY DEF TypeOK, CallsOK, WellFormed, Writing
  <1>12. Alone'
    <2> SUFFICES ASSUME NEW u \in Actors, Writing(call'[u]), call'[u].saving.id \notin shared'
                 PROVE  /\ temp'[call'[u].saving.id] \in {call'[u].inode, None}
                        /\ call'[u].inode # file'[call'[u].saving.id]
                        /\ data'[call'[u].inode] = IF call'[u].pc = "write" THEN Empty
                                                   ELSE call'[u].saving.profile
                        /\ \A v \in Actors \ {u} : Writing(call'[v]) =>
                              call'[v].saving.id # call'[u].saving.id
      BY DEF Alone
    <2>1. /\ temp[call[u].saving.id] \in {call[u].inode, None}
          /\ call[u].inode # file[call[u].saving.id]
          /\ data[call[u].inode] = IF call[u].pc = "write" THEN Empty ELSE call[u].saving.profile
          /\ \A v \in Actors \ {u} : Writing(call[v]) => call[v].saving.id # call[u].saving.id
      BY <1>3, <1>9 DEF Alone
    <2>2. data'[call'[u].inode] = IF call'[u].pc = "write" THEN Empty ELSE call'[u].saving.profile
      <3>1. CASE u = t
        BY <1>1, <1>2, <1>4, <1>6, <1>9, <2>1, <3>1
      <3>2. CASE u # t
        <4>1. call[u].inode # c.inode
          BY <1>1, <1>9, <2>1, <3>2 DEF Owned
        <4> QED  BY <1>6, <1>9, <1>11, <2>1, <3>2, <4>1
      <3> QED  BY <3>1, <3>2
    <2>3. \A v \in Actors \ {u} : Writing(call'[v]) => call'[v].saving.id # call'[u].saving.id
      BY <1>9, <2>1
    <2> QED  BY <1>3, <1>9, <2>1, <2>2, <2>3
  <1>13. SavedIsThere'
    <2>1. ASSUME NEW j \in Ids \ shared, file[j] # None
          PROVE  data'[file[j]] = data[file[j]]
      <3>1. CASE j = id
        <4>1. c.inode # file[j]
          BY <1>1, <2>1, <3>1 DEF Alone
        <4> QED  BY <1>6, <2>1, <4>1 DEF TypeOK
      <3>2. CASE j # id
        <4>1. c.inode # file[j]
          BY <1>1, <2>1, <3>2 DEF Owned
        <4> QED  BY <1>6, <2>1, <4>1 DEF TypeOK
      <3> QED  BY <3>1, <3>2
    <2> QED  BY <1>3, <2>1 DEF SavedIsThere
  <1> QED  BY <1>7, <1>8, <1>10, <1>12, <1>13

LEMMA AfterSaveWellFormed ==
  ASSUME NEW c, WellFormed(c), c.pc = "rename"
  PROVE  WellFormed(AfterSave(c)) /\ ~Writing(AfterSave(c))
  <1>1. CASE c.op = "create default"
    <2> DEFINE d == [c EXCEPT !.pc = "get", !.op = "set default", !.saving = None, !.inode = None]
    <2>1. AfterSave(c) = d
      BY <1>1 DEF AfterSave
    <2>2. WellFormed(d) /\ ~Writing(d)
      BY DEF WellFormed, CallType, Pc, Writing, Mutating
    <2> QED  BY <2>1, <2>2
  <1>2. CASE c.op = "set default" /\ c.saving.id # c.id
    <2> DEFINE d == [c EXCEPT !.pc = "unset", !.saving = None, !.inode = None]
    <2>1. AfterSave(c) = d
      BY <1>2 DEF AfterSave
    <2>2. WellFormed(d) /\ ~Writing(d)
      BY <1>2 DEF WellFormed, CallType, Pc, Writing
    <2> QED  BY <2>1, <2>2
  <1>3. CASE c.op # "create default" /\ ~(c.op = "set default" /\ c.saving.id # c.id)
    <2>1. AfterSave(c) = NoCall
      BY <1>3 DEF AfterSave
    <2> QED  BY <2>1, NoCallWellFormed DEF NoCall, Writing
  <1> QED  BY <1>1, <1>2, <1>3

LEMMA RenameInv ==
  ASSUME Inv, NEW t \in Actors, Rename(t)
  PROVE  Inv'
  <1> DEFINE c  == call[t]
             id == c.saving.id
             d  == AfterSave(c)
  <1> USE DEF Inv
  <1>1. /\ WellFormed(c) /\ c.pc = "rename" /\ Writing(c) /\ id \in Ids
        /\ c.saving.profile \in Profile /\ active \in Ids \cup {None}
    BY DEF TypeOK, CallsOK, Rename, At, WellFormed, Writing
  <1>2. UNCHANGED <<data, active, shared>>
    BY DEF Rename
  <1>3. CASE temp[id] = None
    <2>1. Return(t) /\ UNCHANGED <<file, temp, saved>>
      BY <1>3 DEF Rename
    <2> QED  BY <1>1, <1>2, <2>1, QuietMove, NoCallWellFormed DEF NoCall, Writing, disk
  <1>4. CASE temp[id] # None
    <2>1. /\ file' = [file EXCEPT ![id] = temp[id]]
          /\ temp' = [temp EXCEPT ![id] = None]
          /\ saved' = [saved EXCEPT ![id] = c.saving.profile]
          /\ Proceed(t, d)
      BY <1>4 DEF Rename
    <2>2. WellFormed(d) /\ ~Writing(d)
      BY <1>1, AfterSaveWellFormed
    <2> HIDE DEF d
    <2>3. /\ CallsOK'
          /\ call'[t] \in {d, NoCall}
          /\ \A u \in Actors \ {t} : call'[u] = call[u]
      BY <2>1, <2>2, OneCallMoves DEF TypeOK
    <2>4. \A u \in Actors : Writing(call'[u]) => call'[u] = call[u] /\ u # t
      BY <2>2, <2>3 DEF NoCall, Writing
    <2>5. TypeOK'
      BY <1>1, <1>2, <2>1, <2>3 DEF TypeOK
    <2>6. \A i \in Ids :
            /\ file'[i]  = IF i = id THEN temp[id] ELSE file[i]
            /\ temp'[i]  = IF i = id THEN None ELSE temp[i]
            /\ saved'[i] = IF i = id THEN c.saving.profile ELSE saved[i]
      BY <2>1 DEF TypeOK
    <2>7. Disjoint'
      <3>1. ASSUME NEW i \in Ids, NEW j \in Ids, file'[i] # None
            PROVE  file'[i] # temp'[j] /\ (i # j => file'[i] # file'[j])
        BY <1>1, <1>4, <2>6, <3>1 DEF Disjoint
      <3>2. ASSUME NEW i \in Ids, NEW j \in Ids, i # j, temp'[i] # None
            PROVE  temp'[i] # temp'[j]
        BY <2>6, <3>2 DEF Disjoint
      <3> QED  BY <3>1, <3>2 DEF Disjoint
    <2>8. \A u \in Actors : Writing(call[u]) => call[u].inode # None /\ call[u].saving.id \in Ids
      BY NoneIsNoInode DEF TypeOK, CallsOK, WellFormed, Writing
    <2>9. Owned'
      <3>1. ASSUME NEW u \in Actors, Writing(call'[u]), NEW i \in Ids \ {call'[u].saving.id}
            PROVE  call'[u].inode # file'[i] /\ call'[u].inode # temp'[i]
        <4>1. call'[u] = call[u] /\ Writing(call[u]) /\ call[u].inode # None
          BY <2>4, <2>8, <3>1
        <4>2. call[u].inode # file[i] /\ call[u].inode # temp[i]
          BY <3>1, <4>1 DEF Owned
        <4> QED  BY <2>6, <4>1, <4>2
      <3>2. ASSUME NEW u \in Actors, Writing(call'[u]), NEW v \in Actors, Writing(call'[v]),
                   call'[v].saving.id # call'[u].saving.id
            PROVE  call'[v].inode # call'[u].inode
        BY <2>4, <3>2 DEF Owned
      <3> QED  BY <3>1, <3>2 DEF Owned
    <2>10. Alone'
      <3> SUFFICES ASSUME NEW u \in Actors, Writing(call'[u]), call'[u].saving.id \notin shared'
                   PROVE  /\ temp'[call'[u].saving.id] \in {call'[u].inode, None}
                          /\ call'[u].inode # file'[call'[u].saving.id]
                          /\ data'[call'[u].inode] = IF call'[u].pc = "write" THEN Empty
                                                     ELSE call'[u].saving.profile
                          /\ \A v \in Actors \ {u} : Writing(call'[v]) =>
                                call'[v].saving.id # call'[u].saving.id
        BY DEF Alone
      <3>1. call'[u] = call[u] /\ Writing(call[u]) /\ u # t /\ call[u].saving.id \notin shared
        BY <1>2, <2>4
      <3>2. call[u].saving.id # id /\ call[u].saving.id \in Ids
        BY <1>1, <2>8, <3>1 DEF Alone
      <3>3. \A v \in Actors \ {u} : Writing(call'[v]) => call'[v].saving.id # call[u].saving.id
        BY <2>4, <3>1 DEF Alone
      <3> QED  BY <1>2, <2>6, <3>1, <3>2, <3>3 DEF Alone
    <2>11. SavedIsThere'
      <3>1. ASSUME id \notin shared  PROVE data[temp[id]] = c.saving.profile
        BY <1>1, <1>4, <3>1 DEF Alone
      <3> QED  BY <1>2, <1>4, <2>6, <3>1 DEF SavedIsThere
    <2> QED  BY <2>5, <2>7, <2>9, <2>10, <2>11
  <1> QED  BY <1>3, <1>4

-----------------------------------------------------------------------------
(* The theorems. *)

LEMMA StepInv ==
  ASSUME Inv, [Next]_vars
  PROVE  Inv'
  <1>1. CASE \E t \in Rpcs : Request(t)
    BY <1>1, RequestInv
  <1>2. ASSUME NEW t \in Actors, Step(t)
        PROVE  Inv'
    BY <1>2, ExistsInv, RemoveInv, GetInv, ListInv, UnsetInv, CreateTmpInv, WriteInv,
       RenameInv, SaveFailsInv, ChooseInv, SetConfigInv, RecordInv, DropInv DEF Step
  <1>3. CASE Connected
    BY <1>3, ConnectedInv
  <1>4. CASE SettingsChanged \/ UNCHANGED vars
    BY <1>4, SettingsChangedInv
  <1>5. CASE Crash
    BY <1>5, CrashInv
  <1> QED  BY <1>1, <1>2, <1>3, <1>4, <1>5 DEF Next

LEMMA InvCorrect == Spec => []Inv
  BY InitInv, StepInv, PTL DEF Spec

\* However the steps of calls on the store interleave, fail, are dropped or crash, a profile of
\* which no two saves overlapped reads as it was last saved, or as deleted (profiles.rs,
\* fs_util.rs).
THEOREM SavedIsThereCorrect == Spec => []SavedIsThere
  <1>1. Inv => SavedIsThere
    BY DEF Inv
  <1> QED  BY <1>1, InvCorrect, PTL

LEMMA OnlyDeleteRemovesStep ==
  ASSUME Inv, [Next]_vars, NEW id \in Ids, file[id] # None, file'[id] = None
  PROVE  \E t \in Actors : call[t].op = "delete" /\ call[t].id = id
  <1>1. ASSUME file' = file  PROVE FALSE
    BY <1>1
  <1>2. ASSUME NEW t \in Actors, Remove(t)
        PROVE  call[t].op = "delete" /\ call[t].id = id
    <2>1. call[t].op = "delete"
      BY <1>2 DEF Inv, TypeOK, CallsOK, WellFormed, Remove, At
    <2>2. file' = [file EXCEPT ![call[t].id] = None]
      BY <1>2 DEF Remove
    <2> QED  BY <2>1, <2>2 DEF Inv, TypeOK
  <1>3. ASSUME NEW t \in Actors, Rename(t)
        PROVE  FALSE
    <2>1. CASE temp[call[t].saving.id] = None
      BY <1>1, <1>3, <2>1 DEF Rename
    <2>2. CASE temp[call[t].saving.id] # None
      <3>1. file' = [file EXCEPT ![call[t].saving.id] = temp[call[t].saving.id]]
        BY <1>3, <2>2 DEF Rename
      <3> QED  BY <2>2, <3>1 DEF Inv, TypeOK
    <2> QED  BY <2>1, <2>2
  <1>4. ASSUME NEW t \in Actors, Step(t)
        PROVE  Remove(t) \/ Rename(t) \/ file' = file
    BY <1>4 DEF Step, Exists, Get, List, Unset, CreateTmp, Write, SaveFails, CleanUp, Choose,
       SetConfig, SetConfigFails, Record, Drop, disk
  <1>5. ASSUME (\E t \in Rpcs : Request(t)) \/ Connected \/ SettingsChanged \/ Crash
               \/ UNCHANGED vars
        PROVE  file' = file
    BY <1>5 DEF Request, CreateProfile, UpdateProfile, DeleteProfile, SetDefaultProfile,
       ApplyProfile, Connected, Begin, SettingsChanged, Crash, disk, vars
  <1> QED  BY <1>1, <1>2, <1>3, <1>4, <1>5 DEF Next

\* No failed, overtaken, dropped or crashed save makes a profile disappear: only a call of
\* delete_profile removes its file (profiles.rs, fs_util.rs).
THEOREM OnlyDeleteRemovesCorrect == Spec => OnlyDeleteRemoves
  <1>1. Inv /\ [Next]_vars =>
          [\A id \in Ids : file[id] # None /\ file'[id] = None
              => \E t \in Actors : call[t].op = "delete" /\ call[t].id = id]_vars
    BY OnlyDeleteRemovesStep
  <1> QED  BY <1>1, InvCorrect, PTL DEF Spec, OnlyDeleteRemoves

-----------------------------------------------------------------------------
(* The record of the active profile. *)

Applies(c) == c.pc # "idle" /\ Kind(c.op) = "mouse"

\* As long as no two applications overlap and none is dropped on the way: the one between
\* the mouse and the record left its own settings there, or they are gone since, unless the
\* mouse is one this daemon does not know.
Applied ==
    /\ \A t, u \in Actors : Applies(call[t]) /\ Applies(call[u]) => t = u
    /\ \A t \in Actors : call[t].pc \in {"set config", "record"}
                            => Applies(call[t]) /\ ~call[t].dropped
    /\ \A t \in Actors : call[t].pc = "record" /\ sure => onMouse \in {call[t].id, None}
    /\ onMouse # None /\ sure /\ (\A t \in Actors : call[t].pc # "record")
         => active = onMouse

MouseInv == "mouse" \notin crossed => Applied

\* What a step may do to the mouse without the daemon's knowledge failing.
SureOfLess == sure' => sure /\ onMouse' \in {onMouse, None}

LEMMA Moves ==
  ASSUME NEW t, NEW c, Become(t, c) \/ Proceed(t, c) \/ Return(t)
  PROVE  \E d \in {c, NoCall} : call' = [call EXCEPT ![t] = d]
  BY DEF Become, Proceed, Return

\* A call that does not reach the mouse: it ends, or goes on as the same kind of call.
LEMMA FarFromMouse ==
  ASSUME CallsOK, MouseInv, NEW t \in Actors, NEW c, NEW d \in {c, NoCall},
         call' = [call EXCEPT ![t] = d],
         call[t].pc # "record", c.pc \notin {"set config", "record"},
         Applies(c) => Applies(call[t]),
         SureOfLess, active' = active, crossed \subseteq crossed'
  PROVE  MouseInv'
  <1> SUFFICES ASSUME Applied  PROVE Applied'
    BY DEF MouseInv
  <1>1. d.pc \notin {"set config", "record"} /\ (Applies(d) => Applies(call[t]))
    <2>1. NoCall.pc = "idle" /\ ~Applies(NoCall)
      BY DEF NoCall, Applies
    <2> QED  BY <2>1
  <1>2. call'[t] = d /\ \A u \in Actors \ {t} : call'[u] = call[u]
    BY DEF CallsOK
  <1>3. \A u, v \in Actors : Applies(call'[u]) /\ Applies(call'[v]) => u = v
    BY <1>1, <1>2 DEF Applied
  <1>4. ASSUME NEW u \in Actors, call'[u].pc \in {"set config", "record"}
        PROVE  call'[u] = call[u]
    BY <1>1, <1>2, <1>4
  <1>5. \A u \in Actors : call'[u].pc = "record" /\ sure' => onMouse' \in {call'[u].id, None}
    BY <1>4 DEF Applied, SureOfLess
  <1>6. \A u \in Actors : call'[u].pc \in {"set config", "record"}
                            => Applies(call'[u]) /\ ~call'[u].dropped
    BY <1>4 DEF Applied
  <1>7. ASSUME onMouse' # None, sure', \A u \in Actors : call'[u].pc # "record"
        PROVE  active' = onMouse'
    <2>1. \A u \in Actors : call[u].pc # "record"
      BY <1>2, <1>7
    <2> QED  BY <1>7, <2>1 DEF Applied, SureOfLess
  <1> QED  BY <1>3, <1>5, <1>6, <1>7 DEF Applied

\* Nothing moves but the settings, which become nobody's.
LEMMA SettingsChangedMouse ==
  ASSUME MouseInv, SettingsChanged \/ UNCHANGED vars
  PROVE  MouseInv'
  BY DEF MouseInv, Applied, SettingsChanged, history, vars

LEMMA CrashMouse ==
  ASSUME MouseInv, Crash
  PROVE  MouseInv'
  <1>1. \A t \in Actors : call'[t].pc = "idle"
    BY DEF Crash, NoCall
  <1>2. sure' = FALSE
    BY DEF Crash
  <1> QED  BY <1>1, <1>2 DEF MouseInv, Applied, Applies

\* A call that begins while another applies a profile is marked, if it is to apply one too.
LEMMA BeginMouse ==
  ASSUME Inv, MouseInv, NEW t \in Actors, NEW op, NEW pc \in {"exists", "get", "choose"},
         NEW id, NEW profile,
         Begin(t, op, pc, id, profile), SureOfLess
  PROVE  MouseInv'
  <1> DEFINE c == [NoCall EXCEPT !.pc = pc, !.op = op, !.id = id, !.profile = profile]
  <1>1. call' = [call EXCEPT ![t] = c] /\ active' = active /\ call[t].pc = "idle"
    BY DEF Begin, Become, At
  <1>2. CallsOK
    BY DEF Inv, TypeOK
  <1>3. crossed \subseteq crossed'
    BY DEF Begin
  <1>4. c.pc = pc /\ c.op = op
    BY DEF NoCall
  <1> HIDE DEF c
  <1>5. CASE ~Applies(c)
    BY <1>1, <1>2, <1>3, <1>4, <1>5, FarFromMouse
  <1>6. CASE Applies(c)
    <2> SUFFICES ASSUME "mouse" \notin crossed'  PROVE Applied'
      BY DEF MouseInv
    <2>1. Kind(op) = "mouse"
      BY <1>4, <1>6 DEF Applies
    <2>2. OthersAt("mouse", t) = {}
      BY <2>1 DEF Begin
    <2>3. \A u \in Actors \ {t} : ~Applies(call[u])
      BY <2>2 DEF OthersAt, Applies, At
    <2>4. call'[t] = c /\ \A u \in Actors \ {t} : call'[u] = call[u]
      BY <1>1, <1>2 DEF CallsOK
    <2>5. Applied
      BY <1>3 DEF MouseInv
    <2>6. \A u \in Actors : call[u].pc \notin {"set config", "record"}
      BY <1>1, <2>3, <2>5 DEF Applied
    <2>7. \A u \in Actors : call'[u].pc \notin {"set config", "record"}
      BY <1>4, <2>4, <2>6
    <2>8. onMouse' # None /\ sure' => active' = onMouse'
      BY <1>1, <2>5, <2>6 DEF Applied, SureOfLess
    <2>9. \A u \in Actors : Applies(call'[u]) => u = t
      BY <2>3, <2>4
    <2> QED  BY <2>7, <2>8, <2>9 DEF Applied
  <1> QED  BY <1>5, <1>6

LEMMA RequestMouse ==
  ASSUME Inv, MouseInv, (\E t \in Rpcs : Request(t)) \/ Connected
  PROVE  MouseInv'
  <1>1. \A t \in Rpcs : t \in Actors /\ Handler \in Actors
    BY DEF Actors
  <1>2. ASSUME NEW t \in Rpcs, Request(t)
        PROVE  MouseInv'
    <2>1. MouseIsLeft => SureOfLess
      BY DEF MouseIsLeft, SureOfLess
    <2>2. ASSUME NEW op, NEW pc \in {"exists", "get"}, NEW id, NEW profile,
                 Begin(t, op, pc, id, profile), MouseIsLeft
          PROVE  MouseInv'
      BY <1>1, <2>1, <2>2, BeginMouse
    <2> QED  BY <1>2, <2>2 DEF Request, CreateProfile, UpdateProfile, DeleteProfile,
                               SetDefaultProfile, ApplyProfile
  <1>3. CASE Connected
    <2>1. Handler \in Actors
      BY DEF Actors
    <2>2. SureOfLess /\ Begin(Handler, "auto", "choose", None, None)
      BY <1>3 DEF Connected, SureOfLess
    <2> QED  BY <2>1, <2>2, BeginMouse
  <1> QED  BY <1>2, <1>3

\* The steps of the store never touch the mouse; get hands the profile over.
LEMMA StoreStepMouse ==
  ASSUME Inv, MouseInv, NEW t \in Actors,
         \/ Exists(t) \/ Remove(t) \/ List(t) \/ Unset(t) \/ CreateTmp(t) \/ Write(t)
         \/ Rename(t) \/ SaveFails(t) \/ Choose(t)
  PROVE  MouseInv'
  <1> DEFINE c == call[t]
  <1>1. CallsOK /\ c \in CallType
    BY DEF Inv, TypeOK, CallsOK
  <1>2. /\ UNCHANGED <<onMouse, active, crossed, sure>>
        /\ c.pc \notin {"idle", "set config", "record"}
    BY DEF Exists, Remove, List, Unset, CreateTmp, Write, Rename, SaveFails, Choose, history, At
  <1>0. SureOfLess
    BY <1>2 DEF SureOfLess
  <1>3. ASSUME NEW d, d.pc \notin {"set config", "record"},
               Kind(d.op) = "mouse" => Kind(c.op) = "mouse",
               Become(t, d) \/ Proceed(t, d) \/ Return(t)
        PROVE  MouseInv'
    <2>1. PICK e \in {d, NoCall} : call' = [call EXCEPT ![t] = e]
      BY <1>3, Moves
    <2>2. Applies(d) => Applies(c)
      BY <1>2, <1>3 DEF Applies
    <2> QED  BY <1>0, <1>1, <1>2, <1>3, <2>1, <2>2, FarFromMouse
  <1>4. ASSUME Return(t)
        PROVE  MouseInv'
    <2>1. NoCall.pc = "idle" /\ Kind(c.op) \in {"mouse", "store"}
      BY DEF NoCall, Kind
    <2>2. PICK e \in {NoCall, NoCall} : call' = [call EXCEPT ![t] = e]
      BY <1>4, Moves
    <2>3. ~Applies(NoCall)
      BY <2>1 DEF Applies
    <2> QED  BY <1>0, <1>1, <1>2, <2>1, <2>2, <2>3, FarFromMouse
  <1>5. CASE Exists(t)
    <2>1. \/ Return(t)
          \/ Proceed(t, [c EXCEPT !.pc = "remove"])
          \/ Proceed(t, Saving(c, c.id, c.profile))
      BY <1>5 DEF Exists
    <2>2. [c EXCEPT !.pc = "remove"].pc = "remove" /\ [c EXCEPT !.pc = "remove"].op = c.op
      BY <1>1 DEF CallType
    <2>3. Saving(c, c.id, c.profile).pc = "create tmp" /\ Saving(c, c.id, c.profile).op = c.op
      BY <1>1 DEF CallType, Saving
    <2> QED  BY <1>3, <1>4, <2>1, <2>2, <2>3
  <1>6. CASE Remove(t) \/ SaveFails(t)
    BY <1>4, <1>6 DEF Remove, SaveFails
  <1>7. CASE List(t)
    <2>1. \/ Proceed(t, [c EXCEPT !.pc = "unset"])
          \/ \E todo, defaults : Proceed(t, [c EXCEPT !.todo = todo, !.defaults = defaults])
      BY <1>7 DEF List
    <2>2. [c EXCEPT !.pc = "unset"].pc = "unset" /\ [c EXCEPT !.pc = "unset"].op = c.op
      BY <1>1 DEF CallType
    <2>3. ASSUME NEW todo, NEW defaults
          PROVE  /\ [c EXCEPT !.todo = todo, !.defaults = defaults].pc = c.pc
                 /\ [c EXCEPT !.todo = todo, !.defaults = defaults].op = c.op
      BY <1>1 DEF CallType
    <2>4. ASSUME NEW todo, NEW defaults,
                 Proceed(t, [c EXCEPT !.todo = todo, !.defaults = defaults])
          PROVE  MouseInv'
      <3> DEFINE d == [c EXCEPT !.todo = todo, !.defaults = defaults]
      <3>1. d.pc = c.pc /\ d.op = c.op /\ Proceed(t, d)
        BY <2>3, <2>4
      <3> HIDE DEF d
      <3> QED  BY <1>2, <1>3, <3>1
    <2> QED  BY <1>3, <2>1, <2>2, <2>4
  <1>8. CASE Unset(t)
    <2>1. PICK d \in NextSaves(c) : Proceed(t, d)
      BY <1>8 DEF Unset
    <2>2. d.pc = "create tmp" /\ d.op = c.op
      BY <1>1, <2>1 DEF NextSaves, Saving, CallType
    <2> QED  BY <1>3, <2>1, <2>2
  <1>9. CASE CreateTmp(t)
    <2>1. PICK i : Proceed(t, [c EXCEPT !.pc = "write", !.inode = i])
      BY <1>9 DEF CreateTmp
    <2>2. /\ [c EXCEPT !.pc = "write", !.inode = i].pc = "write"
          /\ [c EXCEPT !.pc = "write", !.inode = i].op = c.op
      BY <1>1 DEF CallType
    <2> QED  BY <1>3, <2>1, <2>2
  <1>10. CASE Write(t)
    <2>1. Proceed(t, [c EXCEPT !.pc = "rename"])
      BY <1>10 DEF Write
    <2>2. [c EXCEPT !.pc = "rename"].pc = "rename" /\ [c EXCEPT !.pc = "rename"].op = c.op
      BY <1>1 DEF CallType
    <2> QED  BY <1>3, <2>1, <2>2
  <1>11. CASE Rename(t)
    <2>1. Return(t) \/ Proceed(t, AfterSave(c))
      BY <1>11 DEF Rename
    <2>2. AfterSave(c) = NoCall \/ (/\ AfterSave(c).pc \in {"get", "unset"}
                                    /\ AfterSave(c).op = "set default" \/ AfterSave(c).op = c.op)
      BY <1>1 DEF AfterSave, CallType
    <2>3. Kind("set default") = "store"
      BY DEF Kind, Mutating
    <2>4. CASE AfterSave(c) = NoCall
      BY <1>4, <2>1, <2>4 DEF Proceed, Return
    <2> QED  BY <1>3, <1>4, <2>1, <2>2, <2>3, <2>4
  <1>12. CASE Choose(t)
    <2>1. Return(t) \/ \E id : Proceed(t, [c EXCEPT !.pc = "get", !.id = id])
      BY <1>12 DEF Choose
    <2>2. ASSUME NEW id, Proceed(t, [c EXCEPT !.pc = "get", !.id = id])
          PROVE  MouseInv'
      <3>1. /\ [c EXCEPT !.pc = "get", !.id = id].pc = "get"
            /\ [c EXCEPT !.pc = "get", !.id = id].op = c.op
        BY <1>1 DEF CallType
      <3> QED  BY <1>3, <2>2, <3>1
    <2> QED  BY <1>4, <2>1, <2>2
  <1> QED  BY <1>5, <1>6, <1>7, <1>8, <1>9, <1>10, <1>11, <1>12

LEMMA GetMouse ==
  ASSUME Inv, MouseInv, NEW t \in Actors, Get(t)
  PROVE  MouseInv'
  <1> DEFINE c == call[t]
  <1>1. CallsOK /\ c \in CallType /\ c.pc = "get" /\ WellFormed(c)
    BY DEF Inv, TypeOK, CallsOK, Get, At
  <1>2. UNCHANGED <<onMouse, active, crossed, sure>>
    BY DEF Get, history
  <1>0. SureOfLess
    BY <1>2 DEF SureOfLess
  <1>3. PICK d : /\ call' = [call EXCEPT ![t] = d]
                 /\ \/ d = NoCall
                    \/ d.pc \in {"create tmp", "list"} /\ d.op = c.op
                    \/ c.op \in Applying /\ ~c.dropped /\ d = [c EXCEPT !.pc = "set config"]
    <2>1. c.op \in {"update", "set default"} \cup Applying
      BY <1>1 DEF WellFormed
    <2>2. CASE Loaded(c.id) = None
      BY <2>2 DEF Get, Return, Become
    <2>3. CASE Loaded(c.id) # None /\ c.op = "update"
      <3> DEFINE d == Saving(c, c.id, Updated(Loaded(c.id), c.profile))
      <3>1. d.pc = "create tmp" /\ d.op = c.op
        BY <1>1 DEF Saving, CallType
      <3>2. Proceed(t, d)
        BY <2>3 DEF Get, Applying
      <3> HIDE DEF d
      <3>3. \E e \in {d, NoCall} : call' = [call EXCEPT ![t] = e]
        BY <3>2, Moves
      <3> QED  BY <3>1, <3>3
    <2>4. CASE Loaded(c.id) # None /\ c.op = "set default"
      <3> DEFINE d == [c EXCEPT !.pc = "list", !.profile = Loaded(c.id),
                                !.todo = {id \in Ids : file[id] # None}]
      <3>1. d.pc = "list" /\ d.op = c.op
        BY <1>1 DEF CallType
      <3>2. Proceed(t, d)
        BY <2>4 DEF Get, Applying
      <3> HIDE DEF d
      <3>3. \E e \in {d, NoCall} : call' = [call EXCEPT ![t] = e]
        BY <3>2, Moves
      <3> QED  BY <3>1, <3>3
    <2>5. CASE Loaded(c.id) # None /\ c.op \in Applying
      <3>1. Proceed(t, [c EXCEPT !.pc = "set config"])
        BY <2>5 DEF Get, Applying
      <3> QED  BY <2>5, <3>1 DEF Proceed, Become
    <2> QED  BY <2>1, <2>2, <2>3, <2>4, <2>5
  <1>4. CASE d = NoCall
    <2>1. ~Applies(NoCall) /\ NoCall.pc = "idle"
      BY DEF Applies, NoCall
    <2> QED  BY <1>0, <1>1, <1>2, <1>3, <1>4, <2>1, FarFromMouse
  <1>5. CASE d.pc \in {"create tmp", "list"} /\ d.op = c.op
    <2>1. Applies(d) => Applies(c)
      BY <1>1, <1>5 DEF Applies
    <2> QED  BY <1>0, <1>1, <1>2, <1>3, <1>5, <2>1, FarFromMouse
  <1>6. CASE c.op \in Applying /\ ~c.dropped /\ d = [c EXCEPT !.pc = "set config"]
    <2> SUFFICES ASSUME Applied  PROVE Applied'
      BY <1>2 DEF MouseInv
    <2>1. Applies(c)
      BY <1>1, <1>6 DEF Applies, Kind, Applying, Mutating
    <2>2. d.pc = "set config" /\ d.op = c.op /\ ~d.dropped /\ Applies(d)
      BY <1>1, <1>6, <2>1 DEF CallType, Applies
    <2>3. call'[t] = d /\ \A u \in Actors \ {t} : call'[u] = call[u]
      BY <1>1, <1>3 DEF CallsOK
    <2> HIDE DEF c
    <2>4. \A u, v \in Actors : Applies(call'[u]) /\ Applies(call'[v]) => u = v
      BY <2>1, <2>3 DEF Applied, c
    <2>5. \A u \in Actors : call'[u].pc \in {"set config", "record"}
                              => Applies(call'[u]) /\ ~call'[u].dropped
      BY <2>2, <2>3 DEF Applied
    <2>6. \A u \in Actors : call'[u].pc = "record" <=> call[u].pc = "record"
      BY <1>1, <2>2, <2>3 DEF c
    <2>7. \A u \in Actors : call'[u].pc = "record" /\ sure' => onMouse' \in {call'[u].id, None}
      BY <1>2, <2>2, <2>3 DEF Applied
    <2>8. onMouse' # None /\ sure' /\ (\A u \in Actors : call'[u].pc # "record")
            => active' = onMouse'
      BY <1>2, <2>6 DEF Applied
    <2> QED  BY <2>4, <2>5, <2>7, <2>8 DEF Applied
  <1> QED  BY <1>3, <1>4, <1>5, <1>6

LEMMA SetConfigMouse ==
  ASSUME Inv, MouseInv, NEW t \in Actors, SetConfig(t)
  PROVE  MouseInv'
  <1> DEFINE c == call[t]
             d == [c EXCEPT !.pc = "record"]
  <1>1. CallsOK /\ c \in CallType /\ c.pc = "set config"
    BY DEF Inv, TypeOK, CallsOK, SetConfig, At
  <1>2. crossed' = crossed /\ onMouse' = c.id
    BY DEF SetConfig
  <1> SUFFICES ASSUME Applied  PROVE Applied'
    BY <1>2 DEF MouseInv
  <1>3. Applies(c) /\ ~c.dropped
    BY <1>1 DEF Applied
  <1>4. call' = [call EXCEPT ![t] = d]
    BY <1>3 DEF SetConfig, Proceed, Become
  <1>5. d.pc = "record" /\ d.id = c.id /\ ~d.dropped /\ Applies(d)
    BY <1>1, <1>3 DEF CallType, Applies
  <1> HIDE DEF d
  <1>6. call'[t] = d /\ \A u \in Actors \ {t} : call'[u] = call[u]
    BY <1>1, <1>4 DEF CallsOK
  <1>7. \A u \in Actors \ {t} : ~Applies(call[u]) /\ call[u].pc \notin {"set config", "record"}
    BY <1>3 DEF Applied
  <1> QED  BY <1>2, <1>5, <1>6, <1>7 DEF Applied

LEMMA SetConfigFailsMouse ==
  ASSUME Inv, MouseInv, NEW t \in Actors, SetConfigFails(t)
  PROVE  MouseInv'
  <1>1. CallsOK /\ call[t].pc = "set config"
    BY DEF Inv, TypeOK, SetConfigFails, At
  <1>2. /\ call' = [call EXCEPT ![t] = NoCall]
        /\ crossed' = crossed /\ active' = active /\ SureOfLess
    BY DEF SetConfigFails, Return, Become, SureOfLess
  <1>3. ~Applies(NoCall) /\ NoCall.pc = "idle"
    BY DEF Applies, NoCall
  <1> QED  BY <1>1, <1>2, <1>3, FarFromMouse

LEMMA RecordMouse ==
  ASSUME Inv, MouseInv, NEW t \in Actors, Record(t)
  PROVE  MouseInv'
  <1> DEFINE c == call[t]
  <1>1. CallsOK /\ c.pc = "record"
    BY DEF Inv, TypeOK, Record, At
  <1>2. /\ call' = [call EXCEPT ![t] = NoCall]
        /\ crossed' = crossed /\ onMouse' = onMouse /\ sure' = sure /\ active' = c.id
    BY DEF Record, Recorded, history, Return, Become
  <1> SUFFICES ASSUME Applied  PROVE Applied'
    BY <1>2 DEF MouseInv
  <1>3. Applies(c) /\ (sure => onMouse \in {c.id, None})
    BY <1>1 DEF Applied
  <1>4. call'[t].pc = "idle" /\ \A u \in Actors \ {t} : call'[u] = call[u]
    BY <1>1, <1>2 DEF CallsOK, NoCall
  <1>5. \A u \in Actors \ {t} : ~Applies(call[u]) /\ call[u].pc \notin {"set config", "record"}
    BY <1>3 DEF Applied
  <1>6. \A u \in Actors : ~Applies(call'[u]) /\ call'[u].pc \notin {"set config", "record"}
    BY <1>4, <1>5 DEF Applies
  <1>7. onMouse' # None /\ sure' => active' = onMouse'
    BY <1>2, <1>3
  <1> QED  BY <1>6, <1>7 DEF Applied

\* A call dropped with the mouse in hand is marked; before that it never reaches it.
LEMMA DropMouse ==
  ASSUME Inv, MouseInv, NEW t \in Actors, Drop(t)
  PROVE  MouseInv'
  <1> DEFINE c == call[t]
             d == [c EXCEPT !.dropped = TRUE]
  <1>1. CallsOK /\ c \in CallType /\ c.pc # "idle"
    BY DEF Inv, TypeOK, CallsOK, Drop, At
  <1>2. /\ crossed' = IF c.pc \in {"set config", "record"} THEN crossed \cup {"mouse"} ELSE crossed
        /\ onMouse' = onMouse /\ sure' = sure /\ active' = active
        /\ \E e \in {d, NoCall} : call' = [call EXCEPT ![t] = e]
    BY DEF Drop, At, Become, Return
  <1>3. CASE c.pc \in {"set config", "record"}
    BY <1>2, <1>3 DEF MouseInv
  <1>4. CASE c.pc \notin {"set config", "record"}
    <2>1. d.pc = c.pc /\ d.op = c.op
      BY <1>1 DEF CallType
    <2> HIDE DEF d
    <2>2. Applies(d) => Applies(c)
      BY <2>1 DEF Applies
    <2>3. PICK e \in {d, NoCall} : call' = [call EXCEPT ![t] = e]
      BY <1>2
    <2>4. crossed' = crossed
      BY <1>2, <1>4
    <2>5. SureOfLess
      BY <1>2 DEF SureOfLess
    <2> QED  BY <1>1, <1>2, <1>4, <2>1, <2>2, <2>3, <2>4, <2>5, FarFromMouse
  <1> QED  BY <1>3, <1>4

LEMMA MouseStep ==
  ASSUME Inv, MouseInv, [Next]_vars
  PROVE  MouseInv'
  <1>1. ASSUME NEW t \in Actors, Step(t)
        PROVE  MouseInv'
    BY <1>1, StoreStepMouse, GetMouse, SetConfigMouse, SetConfigFailsMouse, RecordMouse,
       DropMouse DEF Step
  <1> QED  BY <1>1, RequestMouse, SettingsChangedMouse, CrashMouse DEF Next

\* As long as applications of profiles do not overlap and none is dropped on the way, the
\* record of the active profile names the profile whose settings the mouse has, except
\* between the two steps of one call (apply_profile, auto_apply_profile in server.rs):
\* whatever the calls on the store, failed applications, reconnections and restarts in
\* between, of every mouse whose last application this daemon was told of.
THEOREM RecordNamesMouseCorrect == Spec => []RecordNamesMouse
  <1>1. Init => MouseInv
    <2> SUFFICES ASSUME Init  PROVE Applied
      BY DEF MouseInv
    <2>1. sure = FALSE /\ \A t \in Actors : call[t].pc = "idle"
      BY DEF Init, NoCall
    <2> QED  BY <2>1 DEF Applied, Applies
  <1>2. MouseInv => RecordNamesMouse
    BY DEF MouseInv, Applied, RecordNamesMouse, At
  <1> QED  BY <1>1, <1>2, MouseStep, InvCorrect, PTL DEF Spec

-----------------------------------------------------------------------------
(* The default profile. *)

Stores(c) == c.pc # "idle" /\ Kind(c.op) = "store"

IsDefault(profiles, i) == profiles[i] # None /\ profiles[i].is_default
OneDefault(profiles)   == \A i, j \in Ids : IsDefault(profiles, i) /\ IsDefault(profiles, j) => i = j

\* set_default is going to save profile i as one that is not the default.
Listed(c, i) == \E other \in c.defaults : other.id = i

\* What a call knows of the defaults, if it is the only one that changes the store: a
\* profile is saved as the default when no other is, and set_default has every other one
\* on its list, or still ahead of it, until then.
KnowsDefaults(c, profiles) ==
    /\ c.pc \in {"exists", "remove", "list", "unset", "create tmp", "write", "rename"}
         => c.op \in Mutating
    /\ c.pc \in {"list", "unset"} => c.op = "set default"
    /\ c.pc = "exists" /\ c.op # "delete" => ~c.profile.is_default
    /\ c.pc = "list" =>
         \A i \in Ids \ {c.id} : IsDefault(profiles, i) => i \in c.todo \/ Listed(c, i)
    /\ c.pc = "unset" => \A i \in Ids \ {c.id} : IsDefault(profiles, i) => Listed(c, i)
    /\ c.pc \in {"create tmp", "write", "rename"} =>
         /\ c.saving.profile.is_default => \A i \in Ids \ {c.saving.id} : ~IsDefault(profiles, i)
         /\ c.op = "set default" /\ c.saving.id # c.id =>
              /\ ~c.saving.profile.is_default
              /\ \A i \in Ids \ {c.id, c.saving.id} : IsDefault(profiles, i) => Listed(c, i)

Orderly ==
    /\ \A t, u \in Actors : Stores(call[t]) /\ Stores(call[u]) => t = u
    /\ shared = {}
    /\ OneDefault(saved)
    /\ \A t \in Actors : KnowsDefaults(call[t], saved)

DefaultInv == "store" \notin crossed => Orderly

\* Without overlapping saves, what is read of a profile is what was saved as it.
LEMMA LoadedIsSaved ==
  ASSUME Inv, shared = {}, NEW i \in Ids
  PROVE  /\ Loaded(i) = saved[i]
         /\ saved[i] # None => file[i] # None
  <1>1. (IF file[i] = None THEN None ELSE data[file[i]]) = saved[i]
    BY DEF Inv, SavedIsThere
  <1>2. saved[i] \in Profile \cup {None}
    BY DEF Inv, TypeOK
  <1>3. Empty \notin Profile /\ Torn \notin Profile
    BY ContentsAssumption DEF Profile
  <1> QED  BY <1>1, <1>2, <1>3 DEF Loaded

\* A call that is not on the store has nothing to know, and one in another place neither.
LEMMA Bystander ==
  ASSUME NEW c, NEW profiles, NEW others, KnowsDefaults(c, profiles), ~Stores(c)
  PROVE  KnowsDefaults(c, others)
  <1>1. c.pc \notin {"exists", "remove", "list", "unset", "create tmp", "write", "rename"}
    BY DEF KnowsDefaults, Stores, Kind
  <1> QED  BY <1>1 DEF KnowsDefaults

LEMMA Elsewhere ==
  ASSUME NEW c, NEW profiles,
         c.pc \notin {"exists", "remove", "list", "unset", "create tmp", "write", "rename"}
  PROVE  KnowsDefaults(c, profiles)
  BY DEF KnowsDefaults

LEMMA NoCallKnows ==
  ASSUME NEW profiles
  PROVE  KnowsDefaults(NoCall, profiles) /\ ~Stores(NoCall)
  <1>1. NoCall.pc = "idle"
    BY DEF NoCall
  <1>2. KnowsDefaults(NoCall, profiles)
    BY <1>1, Elsewhere
  <1> QED  BY <1>1, <1>2 DEF Stores

\* A call moves on and leaves what is saved alone.
LEMMA StoreMove ==
  ASSUME Inv, Orderly, NEW t \in Actors, NEW c,
         Become(t, c) \/ Proceed(t, c) \/ Return(t),
         Stores(c) => Stores(call[t]), KnowsDefaults(c, saved),
         saved' = saved, shared' = {}
  PROVE  Orderly'
  <1>1. PICK d \in {c, NoCall} : call' = [call EXCEPT ![t] = d]
    BY Moves
  <1>2. (Stores(d) => Stores(call[t])) /\ KnowsDefaults(d, saved)
    BY NoCallKnows
  <1>3. call'[t] = d /\ \A u \in Actors \ {t} : call'[u] = call[u]
    BY <1>1 DEF Inv, TypeOK, CallsOK
  <1>4. \A u \in Actors : KnowsDefaults(call'[u], saved')
    BY <1>2, <1>3 DEF Orderly
  <1>5. \A u, v \in Actors : Stores(call'[u]) /\ Stores(call'[v]) => u = v
    BY <1>2, <1>3 DEF Orderly
  <1> QED  BY <1>4, <1>5 DEF Orderly

\* A call changes what is saved: nobody else is on the store.
LEMMA SavedMove ==
  ASSUME Inv, Orderly, NEW t \in Actors, NEW c, Proceed(t, c) \/ Return(t),
         Stores(call[t]), KnowsDefaults(c, saved'), OneDefault(saved'), shared' = shared
  PROVE  Orderly'
  <1>1. PICK d \in {c, NoCall} : call' = [call EXCEPT ![t] = d]
    BY Moves
  <1>2. KnowsDefaults(d, saved')
    BY NoCallKnows
  <1>3. call'[t] = d /\ \A u \in Actors \ {t} : call'[u] = call[u]
    BY <1>1 DEF Inv, TypeOK, CallsOK
  <1>4. \A u \in Actors \ {t} : ~Stores(call[u])
    BY DEF Orderly
  <1>5. \A u \in Actors : KnowsDefaults(call'[u], saved')
    <2>1. ASSUME NEW u \in Actors \ {t}
          PROVE  KnowsDefaults(call[u], saved')
      BY <1>4, Bystander DEF Orderly
    <2> QED  BY <1>2, <1>3, <2>1
  <1>6. \A u, v \in Actors : Stores(call'[u]) /\ Stores(call'[v]) => u = v
    BY <1>3, <1>4
  <1> QED  BY <1>5, <1>6 DEF Orderly

LEMMA BeginDefault ==
  ASSUME Inv, DefaultInv, NEW t \in Actors, NEW op, NEW pc \in {"exists", "get", "choose"},
         NEW id, NEW profile,
         pc = "exists" => op \in Mutating /\ (op # "delete" => ~profile.is_default),
         Begin(t, op, pc, id, profile)
  PROVE  DefaultInv'
  <1> DEFINE c == [NoCall EXCEPT !.pc = pc, !.op = op, !.id = id, !.profile = profile]
  <1> SUFFICES ASSUME "store" \notin crossed'  PROVE Orderly'
    BY DEF DefaultInv
  <1>1. Orderly /\ UNCHANGED <<saved, shared>> /\ Become(t, c)
    BY DEF Begin, DefaultInv
  <1>2. c.pc = pc /\ c.op = op /\ c.profile = profile
    BY DEF NoCall
  <1> HIDE DEF c
  <1>3. KnowsDefaults(c, saved)
    BY <1>2 DEF KnowsDefaults
  <1>4. call'[t] = c /\ \A u \in Actors \ {t} : call'[u] = call[u]
    BY <1>1 DEF Inv, TypeOK, CallsOK, Become
  <1>5. Stores(c) => \A u \in Actors \ {t} : ~Stores(call[u])
    <2> SUFFICES ASSUME Stores(c)  PROVE \A u \in Actors \ {t} : ~Stores(call[u])
      OBVIOUS
    <2>1. Kind(op) = "store"
      BY <1>2 DEF Stores
    <2>2. OthersAt("store", t) = {}
      BY <2>1 DEF Begin
    <2> QED  BY <2>2 DEF OthersAt, Stores, At
  <1>6. \A u, v \in Actors : Stores(call'[u]) /\ Stores(call'[v]) => u = v
    BY <1>1, <1>4, <1>5 DEF Orderly
  <1>7. \A u \in Actors : KnowsDefaults(call'[u], saved')
    BY <1>1, <1>3, <1>4 DEF Orderly
  <1> QED  BY <1>1, <1>6, <1>7 DEF Orderly

LEMMA RequestDefault ==
  ASSUME Inv, DefaultInv, (\E t \in Rpcs : Request(t)) \/ Connected
  PROVE  DefaultInv'
  <1>1. Handler \in Actors /\ \A t \in Rpcs : t \in Actors
    BY DEF Actors
  <1>2. \A config \in Configs : ~New(config).is_default
    BY DEF New
  <1>3. ASSUME NEW t \in Rpcs, NEW id \in Ids, NEW config \in Configs,
               NEW set_as_default \in BOOLEAN, CreateProfile(t, id, config, set_as_default)
        PROVE  DefaultInv'
    <2> DEFINE op == IF set_as_default THEN "create default" ELSE "create"
    <2>1. op \in Mutating /\ Begin(t, op, "exists", id, New(config))
      BY <1>3 DEF CreateProfile, Mutating
    <2> HIDE DEF op
    <2> QED  BY <1>1, <1>2, <2>1, BeginDefault
  <1>4. ASSUME NEW t \in Rpcs, NEW id \in Ids, DeleteProfile(t, id)
        PROVE  DefaultInv'
    <2>1. "delete" \in Mutating /\ Begin(t, "delete", "exists", id, None)
      BY <1>4 DEF DeleteProfile, Mutating
    <2> QED  BY <1>1, <2>1, BeginDefault
  <1>5. ASSUME NEW t \in Actors, NEW op, NEW pc \in {"get", "choose"}, NEW id, NEW profile,
               Begin(t, op, pc, id, profile)
        PROVE  DefaultInv'
    BY <1>5, BeginDefault
  <1> QED  BY <1>1, <1>3, <1>4, <1>5
             DEF Request, UpdateProfile, SetDefaultProfile, ApplyProfile, Connected

LEMMA ExistsDefault ==
  ASSUME Inv, Orderly, NEW t \in Actors, Exists(t)
  PROVE  Orderly'
  <1> DEFINE c == call[t]
  <1>1. c \in CallType /\ c.pc = "exists" /\ KnowsDefaults(c, saved)
    BY DEF Inv, TypeOK, CallsOK, Orderly, Exists, At
  <1>2. c.op \in Mutating /\ Stores(c) /\ (c.op # "delete" => ~c.profile.is_default)
    BY <1>1 DEF KnowsDefaults, Stores, Kind
  <1>3. saved' = saved /\ shared' = {}
    BY DEF Exists, history, Orderly
  <1>4. CASE Return(t)
    BY <1>3, <1>4, StoreMove, NoCallKnows
  <1>5. CASE Proceed(t, [c EXCEPT !.pc = "remove"])
    <2>1. [c EXCEPT !.pc = "remove"].pc = "remove" /\ [c EXCEPT !.pc = "remove"].op = c.op
      BY <1>1 DEF CallType
    <2>2. KnowsDefaults([c EXCEPT !.pc = "remove"], saved)
      BY <1>2, <2>1 DEF KnowsDefaults
    <2> QED  BY <1>2, <1>3, <1>5, <2>2, StoreMove
  <1>6. CASE c.op # "delete" /\ Proceed(t, Saving(c, c.id, c.profile))
    <2> DEFINE d == Saving(c, c.id, c.profile)
    <2>1. /\ d.pc = "create tmp" /\ d.op = c.op /\ d.id = c.id
          /\ d.saving.id = c.id /\ d.saving.profile = c.profile
      BY <1>1 DEF CallType, Saving
    <2> HIDE DEF d
    <2>2. KnowsDefaults(d, saved)
      BY <1>2, <1>6, <2>1 DEF KnowsDefaults
    <2> QED  BY <1>2, <1>3, <1>6, <2>2, StoreMove DEF d
  <1> QED  BY <1>4, <1>5, <1>6 DEF Exists

LEMMA RemoveDefault ==
  ASSUME Inv, Orderly, NEW t \in Actors, Remove(t)
  PROVE  Orderly'
  <1>1. Stores(call[t])
    BY DEF Orderly, KnowsDefaults, Stores, Kind, Remove, At
  <1>2. Return(t) /\ shared' = shared /\ saved' = [saved EXCEPT ![call[t].id] = None]
    BY DEF Remove
  <1>3. OneDefault(saved')
    BY <1>2 DEF Orderly, OneDefault, IsDefault, Inv, TypeOK
  <1> QED  BY <1>1, <1>2, <1>3, SavedMove, NoCallKnows

LEMMA GetDefault ==
  ASSUME Inv, Orderly, NEW t \in Actors, Get(t)
  PROVE  Orderly'
  <1> DEFINE c == call[t]
             p == Loaded(c.id)
  <1>1. c \in CallType /\ c.pc = "get" /\ WellFormed(c) /\ c.id \in Ids
    <2>1. c \in CallType /\ c.pc = "get" /\ WellFormed(c)
      BY DEF Inv, TypeOK, CallsOK, Get, At
    <2> QED  BY <2>1 DEF WellFormed
  <1>2. saved' = saved /\ shared' = {}
    BY DEF Get, history, Orderly
  <1>3. /\ p = saved[c.id]
        /\ \A i \in Ids : saved[i] # None => file[i] # None
    BY <1>1, LoadedIsSaved DEF Orderly
  <1>4. c.op \in {"update", "set default"} \cup Applying
    BY <1>1 DEF WellFormed
  <1>5. CASE p = None
    BY <1>2, <1>5, StoreMove, NoCallKnows DEF Get
  <1>6. CASE p # None /\ c.op = "update"
    <2> DEFINE d == Saving(c, c.id, Updated(p, c.profile))
    <2>1. Proceed(t, d)
      BY <1>6 DEF Get, Applying
    <2>2. /\ d.pc = "create tmp" /\ d.op = "update" /\ d.saving.id = c.id
          /\ d.saving.profile = Updated(p, c.profile)
      BY <1>1, <1>6 DEF CallType, Saving
    <2>3. Updated(p, c.profile).is_default = p.is_default
      BY <1>1 DEF Updated, CallType, Profile
    <2>4. p.is_default => \A i \in Ids \ {c.id} : ~IsDefault(saved, i)
      BY <1>1, <1>3, <1>6 DEF Orderly, OneDefault, IsDefault
    <2>5. Stores(c)
      BY <1>1, <1>6 DEF Stores, Kind, Mutating
    <2> HIDE DEF d
    <2>6. KnowsDefaults(d, saved)
      BY <2>2, <2>3, <2>4 DEF KnowsDefaults, Mutating
    <2> QED  BY <1>2, <2>1, <2>5, <2>6, StoreMove
  <1>7. CASE p # None /\ c.op = "set default"
    <2> DEFINE d == [c EXCEPT !.pc = "list", !.profile = p,
                              !.todo = {id \in Ids : file[id] # None}]
    <2>1. Proceed(t, d)
      BY <1>7 DEF Get, Applying
    <2>2. /\ d.pc = "list" /\ d.op = "set default"
          /\ d.todo = {id \in Ids : file[id] # None}
      BY <1>1, <1>7 DEF CallType
    <2>3. Stores(c)
      BY <1>1, <1>7 DEF Stores, Kind, Mutating
    <2> HIDE DEF d
    <2>4. KnowsDefaults(d, saved)
      BY <1>3, <2>2 DEF KnowsDefaults, IsDefault, Mutating
    <2> QED  BY <1>2, <2>1, <2>3, <2>4, StoreMove
  <1>8. CASE p # None /\ c.op \in Applying
    <2> DEFINE d == [c EXCEPT !.pc = "set config"]
    <2>1. Proceed(t, d)
      BY <1>8 DEF Get, Applying
    <2>2. d.pc = "set config" /\ d.op = c.op
      BY <1>1 DEF CallType
    <2> HIDE DEF d
    <2>3. ~Stores(d)
      BY <1>8, <2>2 DEF Stores, Kind, Mutating, Applying
    <2>4. KnowsDefaults(d, saved)
      BY <2>2, Elsewhere
    <2> QED  BY <1>2, <2>1, <2>3, <2>4, StoreMove
  <1> QED  BY <1>4, <1>5, <1>6, <1>7, <1>8

LEMMA ListDefault ==
  ASSUME Inv, Orderly, NEW t \in Actors, List(t)
  PROVE  Orderly'
  <1> DEFINE c == call[t]
  <1>1. c \in CallType /\ c.pc = "list" /\ KnowsDefaults(c, saved)
    BY DEF Inv, TypeOK, CallsOK, Orderly, List, At
  <1>2. c.op = "set default" /\ Stores(c)
    BY <1>1 DEF KnowsDefaults, Stores, Kind, Mutating
  <1>3. saved' = saved /\ shared' = {}
    BY DEF List, history, Orderly
  <1>4. \A i \in Ids \ {c.id} : IsDefault(saved, i) => i \in c.todo \/ Listed(c, i)
    BY <1>1 DEF KnowsDefaults
  <1>5. CASE c.todo = {} /\ Proceed(t, [c EXCEPT !.pc = "unset"])
    <2> DEFINE d == [c EXCEPT !.pc = "unset"]
    <2>1. d.pc = "unset" /\ d.op = "set default" /\ d.id = c.id /\ d.defaults = c.defaults
      BY <1>1, <1>2 DEF CallType
    <2> HIDE DEF d
    <2>2. KnowsDefaults(d, saved)
      BY <1>4, <1>5, <2>1 DEF KnowsDefaults, Listed, Mutating
    <2> QED  BY <1>2, <1>3, <1>5, <2>2, StoreMove DEF d
  <1>6. ASSUME NEW id \in c.todo, NEW found,
               found = IF Loaded(id) # None /\ id # c.id /\ Loaded(id).is_default
                       THEN {[id |-> id, profile |-> Loaded(id)]} ELSE {},
               Proceed(t, [c EXCEPT !.todo = @ \ {id}, !.defaults = @ \cup found])
        PROVE  Orderly'
    <2> DEFINE d == [c EXCEPT !.todo = @ \ {id}, !.defaults = @ \cup found]
    <2>1. /\ d.pc = "list" /\ d.op = "set default" /\ d.id = c.id
          /\ d.todo = c.todo \ {id} /\ d.defaults = c.defaults \cup found
      BY <1>1, <1>2 DEF CallType
    <2>2. id \in Ids
      BY <1>1 DEF CallType
    <2>3. Loaded(id) = saved[id]
      BY <2>2, LoadedIsSaved DEF Orderly
    <2> HIDE DEF d
    <2>4. ASSUME NEW i \in Ids \ {d.id}, IsDefault(saved, i)
          PROVE  i \in d.todo \/ Listed(d, i)
      <3>1. CASE i = id
        <4>1. [id |-> id, profile |-> Loaded(id)] \in d.defaults
          BY <1>6, <2>1, <2>3, <2>4, <3>1 DEF IsDefault
        <4> QED  BY <3>1, <4>1 DEF Listed
      <3>2. CASE i # id
        BY <1>4, <2>1, <2>4, <3>2 DEF Listed
      <3> QED  BY <3>1, <3>2
    <2>5. KnowsDefaults(d, saved)
      BY <2>1, <2>4 DEF KnowsDefaults, Mutating
    <2> QED  BY <1>2, <1>3, <1>6, <2>5, StoreMove DEF d
  <1>7. CASE \E id \in c.todo :
               LET p     == Loaded(id)
                   found == IF p # None /\ id # c.id /\ p.is_default
                            THEN {[id |-> id, profile |-> p]} ELSE {}
               IN Proceed(t, [c EXCEPT !.todo = @ \ {id}, !.defaults = @ \cup found])
    BY <1>6, <1>7
  <1> QED  BY <1>5, <1>7 DEF List

LEMMA UnsetDefault ==
  ASSUME Inv, Orderly, NEW t \in Actors, Unset(t)
  PROVE  Orderly'
  <1> DEFINE c == call[t]
  <1>1. /\ c \in CallType /\ c.pc = "unset" /\ c.profile \in Profile
        /\ c.defaults \subseteq [id : Ids, profile : Profile]
    <2>1. c \in CallType /\ c.pc = "unset" /\ WellFormed(c)
      BY DEF Inv, TypeOK, CallsOK, Unset, At
    <2> QED  BY <2>1 DEF WellFormed, CallType
  <1>2. /\ c.op = "set default" /\ Stores(c)
        /\ \A i \in Ids \ {c.id} : IsDefault(saved, i) => Listed(c, i)
    BY <1>1 DEF Orderly, KnowsDefaults, Stores, Kind, Mutating
  <1>3. saved' = saved /\ shared' = {}
    BY DEF Unset, history, Orderly
  <1>4. PICK d \in NextSaves(c) : Proceed(t, d)
    BY DEF Unset
  <1>5. CASE c.defaults = {}
    <2>1. d = Saving(c, c.id, [c.profile EXCEPT !.is_default = TRUE])
      BY <1>4, <1>5 DEF NextSaves
    <2>2. d.pc = "create tmp" /\ d.op = "set default" /\ d.id = c.id /\ d.saving.id = c.id
      BY <1>1, <1>2, <2>1 DEF Saving, CallType
    <2>3. \A i \in Ids \ {c.id} : ~IsDefault(saved, i)
      BY <1>2, <1>5 DEF Listed
    <2>4. KnowsDefaults(d, saved)
      BY <2>2, <2>3 DEF KnowsDefaults, Mutating
    <2> QED  BY <1>2, <1>3, <1>4, <2>4, StoreMove
  <1>6. CASE c.defaults # {}
    <2>1. PICK other \in c.defaults :
            d = Saving([c EXCEPT !.defaults = @ \ {other}], other.id,
                       [other.profile EXCEPT !.is_default = FALSE])
      BY <1>4, <1>6 DEF NextSaves
    <2>2. /\ d.pc = "create tmp" /\ d.op = "set default" /\ d.id = c.id
          /\ d.defaults = c.defaults \ {other} /\ d.saving.id = other.id
          /\ d.saving.profile = [other.profile EXCEPT !.is_default = FALSE]
      BY <1>1, <1>2, <2>1 DEF Saving, CallType
    <2>3. d.saving.profile.is_default = FALSE
      BY <1>1, <2>1, <2>2 DEF Profile
    <2>4. \A i \in Ids \ {d.id, d.saving.id} : IsDefault(saved, i) => Listed(d, i)
      BY <1>2, <2>2 DEF Listed
    <2>5. KnowsDefaults(d, saved)
      BY <2>2, <2>3, <2>4 DEF KnowsDefaults, Mutating
    <2> QED  BY <1>2, <1>3, <1>4, <2>5, StoreMove
  <1> QED  BY <1>5, <1>6

\* A save goes on, with what it saves: nobody else is there to share its file with.
LEMMA SaveStepDefault ==
  ASSUME Inv, Orderly, NEW t \in Actors, CreateTmp(t) \/ Write(t)
  PROVE  Orderly'
  <1> DEFINE c == call[t]
  <1>1. c \in CallType /\ c.pc \in {"create tmp", "write"} /\ KnowsDefaults(c, saved)
    BY DEF Inv, TypeOK, CallsOK, Orderly, CreateTmp, Write, At
  <1>2. Stores(c)
    BY <1>1 DEF KnowsDefaults, Stores, Kind
  <1>3. \A u \in Actors \ {t} : call[u].pc \notin {"write", "rename"}
    BY <1>2 DEF Orderly, KnowsDefaults, Stores, Kind
  <1>4. saved' = saved /\ shared' = {}
    <2>1. ~Overlapping(t, c.saving.id)
      BY <1>3 DEF Overlapping
    <2> QED  BY <2>1 DEF CreateTmp, Write, history, Orderly
  <1>5. PICK pc \in {"write", "rename"} :
          \E i : Proceed(t, [c EXCEPT !.pc = pc, !.inode = i])
    <2>1. CASE CreateTmp(t)
      BY <2>1 DEF CreateTmp
    <2>2. CASE Write(t)
      <3>1. [c EXCEPT !.pc = "rename"] = [c EXCEPT !.pc = "rename", !.inode = c.inode]
        BY <1>1 DEF CallType
      <3> QED  BY <2>2, <3>1 DEF Write
    <2> QED  BY <2>1, <2>2
  <1>6. PICK i : Proceed(t, [c EXCEPT !.pc = pc, !.inode = i])
    BY <1>5
  <1> DEFINE d == [c EXCEPT !.pc = pc, !.inode = i]
  <1>7. /\ d.pc = pc /\ d.op = c.op /\ d.id = c.id /\ d.saving = c.saving
        /\ d.defaults = c.defaults
    BY <1>1 DEF CallType
  <1> HIDE DEF d
  <1>8. KnowsDefaults(d, saved)
    BY <1>1, <1>7 DEF KnowsDefaults, Listed
  <1> QED  BY <1>2, <1>4, <1>6, <1>8, StoreMove DEF d

LEMMA RenameDefault ==
  ASSUME Inv, Orderly, NEW t \in Actors, Rename(t)
  PROVE  Orderly'
  <1> DEFINE c  == call[t]
             id == c.saving.id
             d  == AfterSave(c)
  <1>1. c \in CallType /\ c.pc = "rename" /\ KnowsDefaults(c, saved) /\ id \in Ids
    <2>1. c \in CallType /\ c.pc = "rename" /\ KnowsDefaults(c, saved) /\ WellFormed(c)
      BY DEF Inv, TypeOK, CallsOK, Orderly, Rename, At
    <2> QED  BY <2>1 DEF WellFormed
  <1>2. Stores(c) /\ shared' = shared /\ shared = {}
    BY <1>1 DEF KnowsDefaults, Stores, Kind, Rename, Orderly
  <1>3. CASE temp[id] = None
    <2>1. Return(t) /\ saved' = saved
      BY <1>3 DEF Rename
    <2> QED  BY <1>2, <2>1, StoreMove, NoCallKnows
  <1>4. CASE temp[id] # None
    <2>1. Proceed(t, d) /\ saved' = [saved EXCEPT ![id] = c.saving.profile]
      BY <1>4 DEF Rename
    <2>2. \A i \in Ids : saved'[i] = IF i = id THEN c.saving.profile ELSE saved[i]
      BY <1>1, <2>1 DEF Inv, TypeOK
    <2>3. /\ \A i \in Ids \ {id} : IsDefault(saved', i) <=> IsDefault(saved, i)
          /\ IsDefault(saved', id) => c.saving.profile.is_default
      BY <1>1, <2>2 DEF IsDefault
    <2>4. c.saving.profile.is_default => \A i \in Ids \ {id} : ~IsDefault(saved, i)
      BY <1>1 DEF KnowsDefaults
    <2>5. OneDefault(saved')
      BY <2>3, <2>4 DEF Orderly, OneDefault
    <2>6. KnowsDefaults(d, saved')
      <3>1. CASE c.op = "create default"
        <4>1. d.pc = "get"
          BY <1>1, <3>1 DEF AfterSave, CallType
        <4> QED  BY <4>1, Elsewhere
      <3>2. CASE c.op = "set default" /\ id # c.id
        <4>1. d = [c EXCEPT !.pc = "unset", !.saving = None, !.inode = None]
          BY <3>2 DEF AfterSave
        <4>2. d.pc = "unset" /\ d.op = "set default" /\ d.id = c.id /\ d.defaults = c.defaults
          BY <1>1, <3>2, <4>1 DEF CallType
        <4>3. /\ ~c.saving.profile.is_default
              /\ \A i \in Ids \ {c.id, id} : IsDefault(saved, i) => Listed(c, i)
          BY <1>1, <3>2 DEF KnowsDefaults
        <4> HIDE DEF d
        <4>4. \A i \in Ids \ {d.id} : IsDefault(saved', i) => Listed(d, i)
          BY <2>3, <4>2, <4>3 DEF Listed
        <4> QED  BY <4>2, <4>4 DEF KnowsDefaults, Mutating
      <3>3. CASE c.op # "create default" /\ ~(c.op = "set default" /\ id # c.id)
        <4>1. d = NoCall
          BY <3>3 DEF AfterSave
        <4> QED  BY <4>1, NoCallKnows
      <3> QED  BY <3>1, <3>2, <3>3
    <2> HIDE DEF d
    <2> QED  BY <1>2, <2>1, <2>5, <2>6, SavedMove
  <1> QED  BY <1>3, <1>4

\* Steps that neither save nor read a profile for the store.
LEMMA OtherStepDefault ==
  ASSUME Inv, Orderly, NEW t \in Actors,
         SaveFails(t) \/ Choose(t) \/ SetConfig(t) \/ SetConfigFails(t) \/ Record(t)
  PROVE  Orderly'
  <1> DEFINE c == call[t]
  <1>1. c \in CallType /\ c.pc # "idle"
    BY DEF Inv, TypeOK, CallsOK, SaveFails, Choose, SetConfig, SetConfigFails, Record, At
  <1>2. saved' = saved /\ shared' = {}
    BY DEF SaveFails, Choose, SetConfig, SetConfigFails, Record, history, Orderly
  <1>3. CASE Return(t)
    BY <1>2, <1>3, StoreMove, NoCallKnows
  <1>4. ASSUME NEW d, d.pc \in {"get", "record"}, d.op = c.op, Proceed(t, d)
        PROVE  Orderly'
    <2>1. KnowsDefaults(d, saved)
      BY <1>4, Elsewhere
    <2>2. Stores(d) => Stores(c)
      BY <1>1, <1>4 DEF Stores
    <2> QED  BY <1>2, <1>4, <2>1, <2>2, StoreMove
  <1>5. CASE Choose(t)
    <2>1. Return(t) \/ \E id : Proceed(t, [c EXCEPT !.pc = "get", !.id = id])
      BY <1>5 DEF Choose
    <2>2. ASSUME NEW id, Proceed(t, [c EXCEPT !.pc = "get", !.id = id])
          PROVE  Orderly'
      <3> DEFINE d == [c EXCEPT !.pc = "get", !.id = id]
      <3>1. d.pc = "get" /\ d.op = c.op /\ Proceed(t, d)
        BY <1>1, <2>2 DEF CallType
      <3> HIDE DEF d
      <3> QED  BY <1>4, <3>1
    <2> QED  BY <1>3, <2>1, <2>2
  <1>6. CASE SetConfig(t)
    <2> DEFINE d == [c EXCEPT !.pc = "record"]
    <2>1. d.pc = "record" /\ d.op = c.op /\ Proceed(t, d)
      BY <1>1, <1>6 DEF CallType, SetConfig
    <2> HIDE DEF d
    <2> QED  BY <1>4, <2>1
  <1> QED  BY <1>3, <1>5, <1>6 DEF SaveFails, SetConfigFails, Record

LEMMA DropDefault ==
  ASSUME Inv, Orderly, NEW t \in Actors, Drop(t)
  PROVE  Orderly'
  <1> DEFINE c == call[t]
             d == [c EXCEPT !.dropped = TRUE]
  <1>1. c \in CallType /\ KnowsDefaults(c, saved)
    BY DEF Inv, TypeOK, CallsOK, Orderly
  <1>2. saved' = saved /\ shared' = {} /\ (Become(t, d) \/ Return(t))
    BY DEF Drop, Orderly
  <1>3. /\ d.pc = c.pc /\ d.op = c.op /\ d.id = c.id /\ d.profile = c.profile
        /\ d.todo = c.todo /\ d.defaults = c.defaults /\ d.saving = c.saving
    BY <1>1 DEF CallType
  <1> HIDE DEF d
  <1>4. KnowsDefaults(d, saved) /\ (Stores(d) => Stores(c))
    BY <1>1, <1>3 DEF KnowsDefaults, Listed, Stores
  <1> QED  BY <1>2, <1>4, StoreMove

LEMMA RestDefault ==
  ASSUME DefaultInv, SettingsChanged \/ Crash \/ UNCHANGED vars
  PROVE  DefaultInv'
  <1>1. CASE Crash
    <2>1. \A t \in Actors : call'[t] = NoCall
      BY <1>1 DEF Crash
    <2>2. UNCHANGED <<saved, shared, crossed>>
      BY <1>1 DEF Crash, history
    <2> QED  BY <2>1, <2>2, NoCallKnows DEF DefaultInv, Orderly
  <1>2. CASE SettingsChanged \/ UNCHANGED vars
    BY <1>2 DEF SettingsChanged, history, vars, DefaultInv, Orderly
  <1> QED  BY <1>1, <1>2

LEMMA DefaultStep ==
  ASSUME Inv, DefaultInv, [Next]_vars
  PROVE  DefaultInv'
  <1>1. ASSUME NEW t \in Actors, Step(t)
        PROVE  DefaultInv'
    <2>1. crossed \subseteq crossed'
      BY <1>1 DEF Step, Exists, Remove, Get, List, Unset, CreateTmp, Write, Rename, SaveFails,
         Choose, SetConfig, SetConfigFails, Record, Drop, history
    <2>2. Orderly => Orderly'
      BY <1>1, ExistsDefault, RemoveDefault, GetDefault, ListDefault, UnsetDefault,
         SaveStepDefault, RenameDefault, OtherStepDefault, DropDefault DEF Step
    <2> QED  BY <2>1, <2>2 DEF DefaultInv
  <1> QED  BY <1>1, RequestDefault, RestDefault DEF Next

LEMMA DefaultInit == Init => DefaultInv
  <1> SUFFICES ASSUME Init  PROVE Orderly
    BY DEF DefaultInv
  <1>1. OneDefault(saved)
    <2> DEFINE Defaults == {id \in Ids : saved[id] # None /\ saved[id].is_default}
    <2>1. Cardinality(Defaults) <= 1
      BY DEF Init, Found
    <2> SUFFICES ASSUME NEW i \in Ids, NEW j \in Ids, IsDefault(saved, i), IsDefault(saved, j),
                        i # j
                 PROVE  FALSE
      BY DEF OneDefault
    <2>2. {i, j} \subseteq Defaults
      BY DEF IsDefault
    <2>3. IsFiniteSet(Defaults)
      BY FS_Subset, FiniteAssumption
    <2> HIDE DEF Defaults
    <2>4. IsFiniteSet({i}) /\ Cardinality({i}) = 1
      BY FS_Singleton
    <2>5. Cardinality({i} \cup {j}) = 2
      BY <2>4, FS_AddElement
    <2>6. {i} \cup {j} = {i, j}
      OBVIOUS
    <2>7. Cardinality({i, j}) <= Cardinality(Defaults)
      BY <2>2, <2>3, FS_Subset
    <2>8. Cardinality(Defaults) \in Nat
      BY <2>3, FS_CardinalityType
    <2> QED  BY <2>1, <2>5, <2>6, <2>7, <2>8
  <1>2. \A t \in Actors : call[t] = NoCall
    BY DEF Init
  <1>3. shared = {}
    BY DEF Init
  <1> QED  BY <1>1, <1>2, <1>3, NoCallKnows DEF Orderly

\* As long as changes of the store do not overlap, no two profiles are the default, at every
\* moment: between the saves of set_default, after a save that failed, a call that was
\* dropped and a crash, whatever applications read meanwhile (profiles.rs).
THEOREM AtMostOneDefaultCorrect == Spec => []AtMostOneDefault
  <1>1. Inv /\ DefaultInv => AtMostOneDefault
    <2> SUFFICES ASSUME Inv, Orderly, NEW i \in Ids, NEW j \in Ids, i # j,
                        Loaded(i) # None, Loaded(j) # None
                 PROVE  ~(Loaded(i).is_default /\ Loaded(j).is_default)
      BY DEF DefaultInv, AtMostOneDefault
    <2>1. Loaded(i) = saved[i] /\ Loaded(j) = saved[j]
      BY LoadedIsSaved DEF Orderly
    <2> QED  BY <2>1 DEF Orderly, OneDefault, IsDefault
  <1> QED  BY <1>1, DefaultInit, DefaultStep, InvCorrect, PTL DEF Spec

=============================================================================
