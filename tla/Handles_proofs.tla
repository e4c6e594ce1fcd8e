---------------------------- MODULE Handles_proofs ----------------------------
(***************************************************************************)
(* What the objects of the binding hold is never lost, and only the        *)
(* destructor of an object whose initialiser failed gives back what is not *)
(* its own: for any objects, any memory and any number of descriptors.     *)
(***************************************************************************)
EXTENDS Handles, WellFoundedInduction, TLAPS

\* Only initialised objects hold memory, and of those only counters hold files.
HoldersAreLive ==
    /\ \A r \in Regions : owner[r] \in Objects => made[owner[r]] = "live"
    /\ \A d \in Fds : open[d] \in Objects => open[d] \in Counters /\ made[open[d]] = "live"

\* As long as no destructor of a doubtful object has taken it, an initialised
\* object has what its fields say.
LiveHold ==
    ~robbery =>
        /\ \A o \in Objects : made[o] = "live" => owner[data[o]] = o
        /\ \A c \in Counters : made[c] = "live" /\ fd[c] # -1 => open[fd[c]] = c

\* An SDM refers to initialised objects.
ReferencesAreLive == \A p \in sdms : made[p[1]] = "live" /\ made[p[2]] = "live"

\* The inductive invariant.
IInv ==
    /\ TypeOK
    /\ NothingIsLost
    /\ HoldersAreLive
    /\ LiveHold
    /\ ReferencesAreLive

-----------------------------------------------------------------------------
\* The descriptor that open returns is one that was free.
LEMMA LowestFdIsFree ==
    ASSUME FreeFds # {}
    PROVE  LowestFd \in FreeFds
<1>1. FreeFds \subseteq Nat
  BY MaxFdAssumption DEF FreeFds, Fds
<1>2. PICK d \in FreeFds : \A e \in FreeFds : ~ (<<e, d>> \in OpToRel(<, Nat))
  BY <1>1, WFMin, NatLessThanWellFounded, Zenon
<1>3. \A e \in FreeFds : ~ (e < d)
  BY <1>1, <1>2 DEF OpToRel
<1>4. \A e \in FreeFds : d <= e
  BY <1>1, <1>3
<1> QED
  BY <1>4 DEF LowestFd, Min

-----------------------------------------------------------------------------
(* The three shapes that the actions of objects have.                       *)

\* An object is made and its initialiser fails: others keep their fields, and
\* at most a free descriptor is lost.
FailsKeeping(o) ==
    /\ Fails(o)
    /\ data' \in [Objects -> Regions \cup {Null}]
    /\ \A x \in Objects \ {o} : data'[x] = data[x]
    /\ fd' \in [Counters -> -1 .. MaxFd]
    /\ \A c \in Counters \ {o} : fd'[c] = fd[c]
    /\ owner' = owner
    /\ open' \in [Fds -> Objects \cup {Program, Nobody, Lost}]
    /\ \A d \in Fds : open'[d] = open[d] \/ (open[d] = Nobody /\ open'[d] = Lost)

\* An object is initialised: region r was free and is the object's.
GetsKeeping(o, r) ==
    /\ Making(o)
    /\ Gets(o, r)
    /\ fd' \in [Counters -> -1 .. MaxFd]
    /\ \A c \in Counters \ {o} : fd'[c] = fd[c]
    /\ o \in AddressSpaces => r \in Heap
    /\ o \in Counters => r \in IF fd'[o] = -1 THEN Heap ELSE Maps
    /\ open' \in [Fds -> Objects \cup {Program, Nobody, Lost}]
    /\ \A d \in Fds : \/ open'[d] = open[d]
                      \/ o \in Counters /\ d = fd'[o] /\ open[d] = Nobody /\ open'[d] = o
    /\ o \in Counters /\ fd'[o] # -1 => open'[fd'[o]] = o

\* An object is deleted: what its fields name is nobody's.
DeletesKeeping(o) ==
    /\ Deleting(o)
    /\ owner' = [x \in Regions |-> IF x = data[o] THEN Nobody ELSE owner[x]]
    /\ fd' \in [Counters -> -1 .. MaxFd]
    /\ \A c \in Counters \ {o} : fd'[c] = fd[c]
    /\ o \in Counters => fd'[o] = 0
    /\ open' \in [Fds -> Objects \cup {Program, Nobody, Lost}]
    /\ \A d \in Fds : \/ open'[d] = open[d]
                      \/ o \in Counters /\ d = fd[o] /\ open'[d] = Nobody
    /\ o \in Counters /\ fd[o] # -1 => open'[fd[o]] = Nobody
    /\ alive' \in BOOLEAN
    /\ ~alive' => data[o] \in Regions /\ owner[data[o]] = Nobody

LEMMA FailureKeeps ==
    ASSUME IInv, NEW o \in Objects, FailsKeeping(o)
    PROVE  IInv'
<1> USE NamesAssumption
<1>1. made[o] = "none" /\ made' = [made EXCEPT ![o] = "failed"]
      /\ made \in [Objects -> {"none", "live", "failed"}]
      /\ UNCHANGED <<owner, sdms, alive, robbery>>
  BY DEF IInv, TypeOK, FailsKeeping, Fails, Making
<1>2. TypeOK'
  BY <1>1 DEF IInv, TypeOK, FailsKeeping, Objects
<1>3. HoldersAreLive'
  BY <1>1 DEF IInv, HoldersAreLive, TypeOK, FailsKeeping
<1>4. NothingIsLost'
  <2>1. ASSUME NEW r \in Regions, owner'[r] \in Objects
        PROVE  data'[owner'[r]] = r
    BY <1>1, <2>1 DEF IInv, NothingIsLost, HoldersAreLive, FailsKeeping
  <2>2. ASSUME NEW d \in Fds, open'[d] \in Objects
        PROVE  fd'[open'[d]] = d
    BY <1>1, <2>2 DEF IInv, NothingIsLost, HoldersAreLive, FailsKeeping, TypeOK
  <2> QED
    BY <2>1, <2>2 DEF NothingIsLost
<1>5. LiveHold'
  <2>1. ASSUME ~robbery', NEW x \in Objects, made'[x] = "live"
        PROVE  owner'[data'[x]] = x
    BY <1>1, <2>1 DEF IInv, LiveHold, FailsKeeping
  <2>2. ASSUME ~robbery', NEW c \in Counters, made'[c] = "live", fd'[c] # -1
        PROVE  open'[fd'[c]] = c
    BY <1>1, <2>2 DEF IInv, LiveHold, FailsKeeping, Objects, Fds, TypeOK
  <2> QED
    BY <2>1, <2>2 DEF LiveHold
<1>6. ReferencesAreLive'
  BY <1>1 DEF IInv, ReferencesAreLive, TypeOK, Objects
<1> QED
  BY <1>2, <1>3, <1>4, <1>5, <1>6 DEF IInv

LEMMA InitialisationKeeps ==
    ASSUME IInv, NEW o \in Objects, NEW r \in Regions, GetsKeeping(o, r)
    PROVE  IInv'
<1> USE NamesAssumption
<1>1. /\ made[o] = "none" /\ data[o] = Null /\ r # Null
      /\ made' = [made EXCEPT ![o] = "live"]
      /\ data' = [data EXCEPT ![o] = r]
      /\ owner' = [owner EXCEPT ![r] = o]
      /\ owner[r] = Nobody
      /\ UNCHANGED <<sdms, alive, robbery>>
  BY DEF IInv, TypeOK, GetsKeeping, Gets, Making
<1>2. /\ made \in [Objects -> {"none", "live", "failed"}]
      /\ data \in [Objects -> Regions \cup {Null}]
      /\ owner \in [Regions -> Objects \cup {Program, Nobody}]
      /\ fd \in [Counters -> -1 .. MaxFd]
  BY DEF IInv, TypeOK
<1>3. TypeOK'
  BY <1>1 DEF IInv, TypeOK, GetsKeeping, Objects
<1>4. HoldersAreLive'
  BY <1>1, <1>2 DEF IInv, HoldersAreLive, GetsKeeping
<1>5. NothingIsLost'
  <2>1. ASSUME NEW q \in Regions, owner'[q] \in Objects
        PROVE  data'[owner'[q]] = q
    BY <1>1, <1>2, <2>1 DEF IInv, NothingIsLost, HoldersAreLive
  <2>2. ASSUME NEW d \in Fds, open'[d] \in Objects
        PROVE  fd'[open'[d]] = d
    <3>1. CASE open'[d] = open[d]
      BY <1>1, <1>2, <2>2, <3>1 DEF IInv, NothingIsLost, HoldersAreLive, GetsKeeping
    <3>2. CASE o \in Counters /\ d = fd'[o] /\ open'[d] = o
      BY <3>2
    <3> QED
      BY <3>1, <3>2 DEF GetsKeeping
  <2> QED
    BY <2>1, <2>2 DEF NothingIsLost
<1>6. LiveHold'
  <2>1. ASSUME ~robbery', NEW x \in Objects, made'[x] = "live"
        PROVE  owner'[data'[x]] = x
    BY <1>1, <1>2, <2>1 DEF IInv, LiveHold
  <2>2. ASSUME ~robbery', NEW c \in Counters, made'[c] = "live", fd'[c] # -1
        PROVE  open'[fd'[c]] = c
    <3>1. CASE c = o
      BY <2>2, <3>1 DEF GetsKeeping
    <3>2. CASE c # o
      <4>1. /\ fd'[c] = fd[c] /\ fd[c] \in Fds
            /\ open[fd[c]] = c
        BY <1>1, <1>2, <2>2, <3>2 DEF IInv, LiveHold, GetsKeeping, Objects, Fds
      <4> QED
        BY <4>1 DEF GetsKeeping, Objects
    <3> QED
      BY <3>1, <3>2
  <2> QED
    BY <2>1, <2>2 DEF LiveHold
<1>7. ReferencesAreLive'
  BY <1>1, <1>2 DEF IInv, ReferencesAreLive, TypeOK, Objects
<1> QED
  BY <1>3, <1>4, <1>5, <1>6, <1>7 DEF IInv

LEMMA DeletionKeeps ==
    ASSUME IInv, NEW o \in Objects, DeletesKeeping(o)
    PROVE  IInv'
<1> USE NamesAssumption
<1>1. /\ made' = [made EXCEPT ![o] = "none"]
      /\ data' = [data EXCEPT ![o] = Null]
      /\ robbery' = (robbery \/ (Doubtful(o) /\ <<owner', open'>> # <<owner, open>>))
      /\ made[o] # "none"
      /\ ~Referenced(o)
      /\ UNCHANGED sdms
  BY DEF DeletesKeeping, Deleting
<1>2. /\ made \in [Objects -> {"none", "live", "failed"}]
      /\ data \in [Objects -> Regions \cup {Null}]
      /\ owner \in [Regions -> Objects \cup {Program, Nobody}]
      /\ open \in [Fds -> Objects \cup {Program, Nobody, Lost}]
      /\ fd \in [Counters -> -1 .. MaxFd]
      /\ robbery \in BOOLEAN
  BY DEF IInv, TypeOK
<1>3. TypeOK'
  <2>1. /\ owner' \in [Regions -> Objects \cup {Program, Nobody}]
        /\ robbery' \in BOOLEAN
    BY <1>1, <1>2 DEF DeletesKeeping
  <2> QED
    BY <1>1, <2>1 DEF IInv, TypeOK, DeletesKeeping, Objects
<1>4. HoldersAreLive'
  <2>1. ASSUME NEW r \in Regions, owner'[r] \in Objects
        PROVE  made'[owner'[r]] = "live"
    BY <1>1, <1>2, <2>1 DEF IInv, HoldersAreLive, NothingIsLost, DeletesKeeping
  <2>2. ASSUME NEW d \in Fds, open'[d] \in Objects
        PROVE  open'[d] \in Counters /\ made'[open'[d]] = "live"
    <3>1. open'[d] = open[d]
      BY <2>2 DEF DeletesKeeping
    <3>2. open[d] # o
      BY <2>2, <3>1, <1>2 DEF IInv, HoldersAreLive, NothingIsLost, DeletesKeeping, Fds
    <3> QED
      BY <1>1, <1>2, <2>2, <3>1, <3>2 DEF IInv, HoldersAreLive
  <2> QED
    BY <2>1, <2>2 DEF HoldersAreLive
<1>5. NothingIsLost'
  <2>1. ASSUME NEW r \in Regions, owner'[r] \in Objects
        PROVE  data'[owner'[r]] = r
    BY <1>1, <1>2, <2>1 DEF IInv, NothingIsLost, DeletesKeeping
  <2>2. ASSUME NEW d \in Fds, open'[d] \in Objects
        PROVE  fd'[open'[d]] = d
    <3>1. open'[d] = open[d] /\ open[d] \in Counters /\ fd[open[d]] = d
      BY <2>2 DEF DeletesKeeping, IInv, NothingIsLost, HoldersAreLive
    <3>2. open[d] # o
      BY <2>2, <3>1 DEF DeletesKeeping, Fds
    <3> QED
      BY <3>1, <3>2 DEF DeletesKeeping
  <2> QED
    BY <2>1, <2>2 DEF NothingIsLost
<1>6. LiveHold'
  <2> SUFFICES ASSUME ~robbery' PROVE LiveHold'
    BY DEF LiveHold
  <2>1. ~robbery /\ (Doubtful(o) => owner' = owner /\ open' = open)
    BY <1>1
  <2>2. ASSUME NEW x \in Objects, made'[x] = "live"
        PROVE  owner'[data'[x]] = x
    <3>1. /\ x # o /\ made[x] = "live"
          /\ data'[x] = data[x] /\ owner[data[x]] = x /\ data[x] \in Regions
      BY <1>1, <1>2, <2>1, <2>2 DEF IInv, LiveHold, TypeOK, Regions, Objects
    <3>2. data[x] = data[o] => Doubtful(o)
      BY <1>1, <1>2, <2>1, <3>1 DEF IInv, LiveHold, Doubtful
    <3> QED
      BY <2>1, <3>1, <3>2 DEF DeletesKeeping
  <2>3. ASSUME NEW c \in Counters, made'[c] = "live", fd'[c] # -1
        PROVE  open'[fd'[c]] = c
    <3>1. /\ c # o /\ made[c] = "live"
          /\ fd'[c] = fd[c] /\ open[fd[c]] = c /\ fd[c] \in Fds
      BY <1>1, <1>2, <2>1, <2>3 DEF IInv, LiveHold, Objects, Fds, DeletesKeeping
    <3>2. o \in Counters /\ fd[c] = fd[o] => Doubtful(o)
      BY <1>1, <1>2, <2>1, <3>1 DEF IInv, LiveHold, Doubtful, Fds
    <3> QED
      BY <2>1, <3>1, <3>2 DEF DeletesKeeping, Objects
  <2> QED
    BY <2>2, <2>3 DEF LiveHold
<1>7. ReferencesAreLive'
  BY <1>1, <1>2 DEF IInv, ReferencesAreLive, Referenced, TypeOK, Objects
<1> QED
  BY <1>3, <1>4, <1>5, <1>6, <1>7 DEF IInv

-----------------------------------------------------------------------------
LEMMA InitHolds == Init => IInv
<1> SUFFICES ASSUME Init PROVE IInv
  OBVIOUS
<1> USE NamesAssumption, MaxFdAssumption
<1>1. /\ made \in [Objects -> {"none", "live", "failed"}]
      /\ data \in [Objects -> Regions \cup {Null}]
      /\ fd \in [Counters -> -1 .. MaxFd]
      /\ owner \in [Regions -> Objects \cup {Program, Nobody}]
      /\ open \in [Fds -> Objects \cup {Program, Nobody, Lost}]
  BY DEF Init, Fds
<1>2. sdms = {} /\ alive = TRUE /\ robbery = FALSE
  BY DEF Init
<1>3. /\ \A o \in Objects : made[o] = "none" /\ data[o] = Null
      /\ \A c \in Counters : fd[c] = 0
      /\ \A r \in Regions : owner[r] = Nobody
      /\ \A d \in Fds : open[d] \in {Program, Nobody}
  BY DEF Init
<1>4. TypeOK
  BY <1>1, <1>2, <1>3 DEF TypeOK, Objects
<1>5. NothingIsLost /\ HoldersAreLive
  BY <1>3 DEF NothingIsLost, HoldersAreLive
<1>6. LiveHold
  BY <1>3 DEF LiveHold, Objects
<1> QED
  BY <1>2, <1>4, <1>5, <1>6 DEF IInv, ReferencesAreLive

\* A step that loses a free descriptor, and no more.
LEMMA LeakKeeps ==
    ASSUME IInv, Leaks, UNCHANGED <<made, data, fd, owner, sdms, alive, robbery>>
    PROVE  IInv'
<1> USE NamesAssumption
<1>1. LowestFd \in Fds /\ open[LowestFd] = Nobody /\ open' = [open EXCEPT ![LowestFd] = Lost]
  BY LowestFdIsFree DEF Leaks, FreeFds
<1>2. TypeOK'
  BY <1>1 DEF IInv, TypeOK
<1>3. \A d \in Fds : open'[d] = open[d] \/ (open[d] = Nobody /\ open'[d] = Lost)
  BY <1>1 DEF IInv, TypeOK
<1>4. HoldersAreLive' /\ NothingIsLost'
  BY <1>3 DEF IInv, HoldersAreLive, NothingIsLost
<1>5. LiveHold'
  BY <1>3 DEF IInv, LiveHold, TypeOK, Fds, Objects
<1> QED
  BY <1>2, <1>4, <1>5 DEF IInv, ReferencesAreLive

\* Each way an initialiser can fail has the shape of a failure.
LEMMA FailuresKeep ==
    ASSUME IInv, NEW o \in Objects,
           \/ NoInitializer(o)
           \/ o \in AddressSpaces /\ (\/ as_init_Fails(o) \/ as_init_FailsLate(o)
                                      \/ as_init_from_b64_file_Refuses(o))
           \/ o \in Counters /\ (\/ counter_init_Fails(o) \/ counter_init_file_NoMeta(o)
                                 \/ counter_init_file_NoBin(o) \/ counter_init_file_NoMemory(o))
    PROVE  IInv'
<1> USE NamesAssumption, MaxFdAssumption
<1>1. /\ data \in [Objects -> Regions \cup {Null}]
      /\ fd \in [Counters -> -1 .. MaxFd]
      /\ open \in [Fds -> Objects \cup {Program, Nobody, Lost}]
  BY DEF IInv, TypeOK
<1>2. Fails(o) /\ owner' = owner
  BY DEF NoInitializer, as_init_Fails, as_init_FailsLate, as_init_from_b64_file_Refuses,
         counter_init_Fails, counter_init_file_NoMeta, counter_init_file_NoBin,
         counter_init_file_NoMemory, GivesBack
<1>3. data' = data \/ \E r \in Regions : data' = [data EXCEPT ![o] = r]
  BY DEF NoInitializer, as_init_Fails, as_init_FailsLate, as_init_from_b64_file_Refuses,
         counter_init_Fails, counter_init_file_NoMeta, counter_init_file_NoBin,
         counter_init_file_NoMemory, GivesBack, Regions
<1>4. FreeFds # {} => LowestFd \in -1 .. MaxFd /\ LowestFd \in Fds /\ open[LowestFd] = Nobody
  BY LowestFdIsFree DEF FreeFds, Fds
<1>5. fd' = fd \/ \E v \in -1 .. MaxFd : o \in Counters /\ fd' = [fd EXCEPT ![o] = v]
  BY <1>4
     DEF NoInitializer, as_init_Fails, as_init_FailsLate, as_init_from_b64_file_Refuses,
         counter_init_Fails, counter_init_file_NoMeta, counter_init_file_NoBin,
         counter_init_file_NoMemory
<1>6. open' = open \/ Leaks
  BY DEF NoInitializer, as_init_Fails, as_init_FailsLate, as_init_from_b64_file_Refuses,
         counter_init_Fails, counter_init_file_NoMeta, counter_init_file_NoBin,
         counter_init_file_NoMemory
<1>7. /\ open' \in [Fds -> Objects \cup {Program, Nobody, Lost}]
      /\ \A d \in Fds : open'[d] = open[d] \/ (open[d] = Nobody /\ open'[d] = Lost)
  BY <1>1, <1>4, <1>6 DEF Leaks
<1>8. FailsKeeping(o)
  BY <1>1, <1>2, <1>3, <1>5, <1>7 DEF FailsKeeping
<1> QED
  BY <1>8, FailureKeeps

\* Each initialiser that ends well has the shape of an initialisation.
LEMMA InitialisersKeep ==
    ASSUME IInv, NEW o \in Objects,
           \/ o \in AddressSpaces /\ as_init(o)
           \/ o \in Counters /\ (counter_init(o) \/ counter_init_file(o))
    PROVE  IInv'
<1> USE NamesAssumption, MaxFdAssumption
<1>1. /\ fd \in [Counters -> -1 .. MaxFd]
      /\ open \in [Fds -> Objects \cup {Program, Nobody, Lost}]
  BY DEF IInv, TypeOK
<1>2. CASE o \in AddressSpaces /\ as_init(o)
  <2>1. PICK r \in Heap : Gets(o, r)
    BY <1>2 DEF as_init
  <2>2. GetsKeeping(o, r)
    BY <1>1, <1>2, <2>1 DEF GetsKeeping, as_init
  <2> QED
    BY <2>2, InitialisationKeeps DEF Regions
<1>3. CASE o \in Counters /\ counter_init(o)
  <2>1. PICK r \in Heap : Gets(o, r)
    BY <1>3 DEF counter_init
  <2>2. GetsKeeping(o, r)
    BY <1>1, <1>3, <2>1 DEF GetsKeeping, counter_init
  <2> QED
    BY <2>2, InitialisationKeeps DEF Regions
<1>4. CASE o \in Counters /\ counter_init_file(o)
  <2>1. PICK r \in Maps : Gets(o, r)
    BY <1>4 DEF counter_init_file
  <2>2. LowestFd \in Fds /\ LowestFd \in -1 .. MaxFd /\ LowestFd # -1 /\ open[LowestFd] = Nobody
    BY <1>4, LowestFdIsFree DEF counter_init_file, FreeFds, Fds
  <2>3. GetsKeeping(o, r)
    BY <1>1, <1>4, <2>1, <2>2 DEF GetsKeeping, counter_init_file
  <2> QED
    BY <2>3, InitialisationKeeps DEF Regions
<1> QED
  BY <1>2, <1>3, <1>4

\* Each destructor has the shape of a deletion.
LEMMA DestructorsDelete ==
    ASSUME IInv, NEW o \in Objects,
           \/ o \in AddressSpaces /\ as_free(o)
           \/ o \in Counters /\ counter_free(o)
    PROVE  DeletesKeeping(o)
<1> USE NamesAssumption, MaxFdAssumption
<1>1. /\ fd \in [Counters -> -1 .. MaxFd]
      /\ open \in [Fds -> Objects \cup {Program, Nobody, Lost}]
      /\ alive \in BOOLEAN
  BY DEF IInv, TypeOK
<1>2. CASE o \in AddressSpaces /\ as_free(o)
  BY <1>1, <1>2 DEF DeletesKeeping, as_free, Free
<1>3. CASE o \in Counters /\ counter_free(o)
  <2>1. CASE fd[o] = -1
    <3>1. /\ Deleting(o)
          /\ owner' = [x \in Regions |-> IF x = data[o] THEN Nobody ELSE owner[x]]
          /\ fd' = [fd EXCEPT ![o] = 0]
          /\ open' = open
          /\ alive' = (data[o] \in Regions => owner[data[o]] # Nobody)
      BY <1>3, <2>1 DEF counter_free, Free
    <3>2. /\ alive' \in BOOLEAN
          /\ ~alive' => data[o] \in Regions /\ owner[data[o]] = Nobody
      BY <3>1
    <3>3. /\ fd' \in [Counters -> -1 .. MaxFd]
          /\ fd'[o] = 0
          /\ \A c \in Counters \ {o} : fd'[c] = fd[c]
      BY <1>1, <1>3, <3>1
    <3> QED
      BY <1>1, <1>3, <2>1, <3>1, <3>2, <3>3 DEF DeletesKeeping
  <2>2. CASE fd[o] # -1
    <3>1. /\ Deleting(o)
          /\ owner' = [x \in Regions |-> IF x = data[o] THEN Nobody ELSE owner[x]]
          /\ fd' = [fd EXCEPT ![o] = 0]
          /\ open' = [open EXCEPT ![fd[o]] = Nobody]
          /\ alive' = alive
      BY <1>3, <2>2 DEF counter_free
    <3>2. fd[o] \in Fds /\ 0 \in -1 .. MaxFd
      BY <1>1, <1>3, <2>2 DEF Fds
    <3>3. alive /\ alive'
      BY <3>1 DEF Deleting
    <3>4. /\ fd' \in [Counters -> -1 .. MaxFd]
          /\ fd'[o] = 0
          /\ \A c \in Counters \ {o} : fd'[c] = fd[c]
      BY <1>1, <1>3, <3>1, <3>2
    <3>5. /\ open' \in [Fds -> Objects \cup {Program, Nobody, Lost}]
          /\ open'[fd[o]] = Nobody
          /\ \A d \in Fds \ {fd[o]} : open'[d] = open[d]
      BY <1>1, <3>1, <3>2
    <3>6. alive' \in BOOLEAN /\ (~alive' => data[o] \in Regions /\ owner[data[o]] = Nobody)
      BY <1>1, <3>1, <3>3
    <3> QED
      BY <1>3, <3>1, <3>4, <3>5, <3>6 DEF DeletesKeeping
  <2> QED
    BY <2>1, <2>2
<1> QED
  BY <1>2, <1>3

LEMMA SDMStepKeeps ==
    ASSUME IInv, NEW s \in AddressSpaces, NEW c \in Counters, NewSDM(s, c) \/ DropSDM(s, c)
    PROVE  IInv'
<1>1. UNCHANGED <<made, data, fd, owner, open, alive, robbery>>
  BY DEF NewSDM, DropSDM
<1>2. \/ sdms' = sdms \ {<<s, c>>}
      \/ sdms' = sdms \cup {<<s, c>>} /\ made[s] = "live" /\ made[c] = "live"
  BY DEF NewSDM, DropSDM
<1>3. TypeOK'
  <2>1. sdms' \subseteq AddressSpaces \X Counters
    BY <1>2 DEF IInv, TypeOK
  <2> QED
    BY <1>1, <2>1 DEF IInv, TypeOK
<1>4. ReferencesAreLive'
  BY <1>1, <1>2 DEF IInv, ReferencesAreLive
<1> QED
  BY <1>1, <1>3, <1>4 DEF IInv, NothingIsLost, HoldersAreLive, LiveHold

\* The program takes what is free, and gives back what is its own.
LEMMA ProgramStepTakesItsOwn ==
    ASSUME IInv, ProgramStep
    PROVE  /\ UNCHANGED <<made, data, fd, sdms, alive, robbery>>
           /\ owner' \in [Regions -> Objects \cup {Program, Nobody}]
           /\ open' \in [Fds -> Objects \cup {Program, Nobody, Lost}]
           /\ \A r \in Regions : owner'[r] = owner[r]
                                 \/ {owner[r], owner'[r]} \subseteq {Program, Nobody}
           /\ \A d \in Fds : open'[d] = open[d]
                             \/ {open[d], open'[d]} \subseteq {Program, Nobody}
<1>1. /\ owner \in [Regions -> Objects \cup {Program, Nobody}]
      /\ open \in [Fds -> Objects \cup {Program, Nobody, Lost}]
  BY DEF IInv, TypeOK
<1>2. UNCHANGED <<made, data, fd, sdms, alive, robbery>>
  BY DEF ProgramStep
<1>3. CASE /\ UNCHANGED open
           /\ \E r \in Regions : \/ owner[r] = Nobody /\ owner' = [owner EXCEPT ![r] = Program]
                                 \/ owner[r] = Program /\ owner' = [owner EXCEPT ![r] = Nobody]
  BY <1>1, <1>2, <1>3
<1>4. CASE /\ UNCHANGED owner
           /\ FreeFds # {} /\ open' = [open EXCEPT ![LowestFd] = Program]
  <2>1. LowestFd \in Fds /\ open[LowestFd] = Nobody
    BY <1>4, LowestFdIsFree DEF FreeFds
  <2> QED
    BY <1>1, <1>2, <1>4, <2>1
<1>5. CASE /\ UNCHANGED owner
           /\ \E d \in Fds : open[d] = Program /\ open' = [open EXCEPT ![d] = Nobody]
  BY <1>1, <1>2, <1>5
<1> QED
  BY <1>3, <1>4, <1>5 DEF ProgramStep

LEMMA ProgramStepKeeps ==
    ASSUME IInv, ProgramStep
    PROVE  IInv'
<1> USE NamesAssumption
<1>1. TypeOK'
  BY ProgramStepTakesItsOwn DEF IInv, TypeOK
<1>2. /\ \A r \in Regions : owner'[r] = owner[r] \/ {owner[r], owner'[r]} \cap Objects = {}
      /\ \A d \in Fds : open'[d] = open[d] \/ {open[d], open'[d]} \cap Objects = {}
  BY ProgramStepTakesItsOwn
<1>3. HoldersAreLive' /\ NothingIsLost'
  BY <1>2, ProgramStepTakesItsOwn DEF IInv, HoldersAreLive, NothingIsLost
<1>4. LiveHold'
  <2>1. ASSUME ~robbery', NEW o \in Objects, made'[o] = "live"
        PROVE  owner'[data'[o]] = o
    BY <1>2, <2>1, ProgramStepTakesItsOwn DEF IInv, LiveHold, TypeOK, Objects, Regions
  <2>2. ASSUME ~robbery', NEW c \in Counters, made'[c] = "live", fd'[c] # -1
        PROVE  open'[fd'[c]] = c
    BY <1>2, <2>2, ProgramStepTakesItsOwn DEF IInv, LiveHold, TypeOK, Objects, Fds
  <2> QED
    BY <2>1, <2>2 DEF LiveHold
<1> QED
  BY <1>1, <1>3, <1>4, ProgramStepTakesItsOwn DEF IInv, ReferencesAreLive

\* Every step keeps the invariant.
LEMMA NextKeeps == IInv /\ [Next]_vars => IInv'
<1> SUFFICES ASSUME IInv, [Next]_vars PROVE IInv'
  OBVIOUS
<1>1. ASSUME NEW o \in Objects, NoInitializer(o) PROVE IInv'
  BY <1>1, FailuresKeep
<1>2. ASSUME NEW s \in AddressSpaces,
             as_init_Fails(s) \/ as_init_FailsLate(s) \/ as_init_from_b64_file_Refuses(s)
      PROVE  IInv'
  BY <1>2, FailuresKeep DEF Objects
<1>3. ASSUME NEW c \in Counters,
             \/ counter_init_Fails(c) \/ counter_init_file_NoMeta(c)
             \/ counter_init_file_NoBin(c) \/ counter_init_file_NoMemory(c)
      PROVE  IInv'
  BY <1>3, FailuresKeep DEF Objects
<1>4. ASSUME NEW c \in Counters, save_NoBin(c) \/ counter_load_file_Refuses(c)
      PROVE  IInv'
  BY <1>4, LeakKeeps DEF save_NoBin, counter_load_file_Refuses
<1>5. ASSUME NEW s \in AddressSpaces, NEW c \in Counters, NewSDM(s, c) \/ DropSDM(s, c)
      PROVE  IInv'
  BY <1>5, SDMStepKeeps
<1>6. CASE ProgramStep
  BY <1>6, ProgramStepKeeps
<1>7. ASSUME NEW s \in AddressSpaces, as_init(s) PROVE IInv'
  BY <1>7, InitialisersKeep DEF Objects
<1>8. ASSUME NEW c \in Counters, counter_init(c) \/ counter_init_file(c) PROVE IInv'
  BY <1>8, InitialisersKeep DEF Objects
<1>9. ASSUME NEW s \in AddressSpaces, as_free(s) PROVE IInv'
  BY <1>9, DestructorsDelete, DeletionKeeps DEF Objects
<1>10. ASSUME NEW c \in Counters, counter_free(c) PROVE IInv'
  BY <1>10, DestructorsDelete, DeletionKeeps DEF Objects
<1>11. CASE UNCHANGED vars
  BY <1>11 DEF IInv, TypeOK, NothingIsLost, HoldersAreLive, LiveHold, ReferencesAreLive, vars
<1> QED
  BY <1>1, <1>2, <1>3, <1>4, <1>5, <1>6, <1>7, <1>8, <1>9, <1>10, <1>11 DEF Next

-----------------------------------------------------------------------------
\* The invariant holds in every reachable state.
THEOREM ObjectsInvariant == Spec => []IInv
<1>1. Init => IInv
  BY InitHolds
<1>2. IInv /\ [Next]_vars => IInv'
  BY NextKeeps
<1> QED
  BY <1>1, <1>2, PTL DEF Spec

\* Type correctness: the fields of an object that is not made are 0, and an
\* initialised one has memory of the kind its destructor gives back.
THEOREM ObjectTypesCorrect == Spec => []TypeOK
<1>1. IInv => TypeOK
  BY DEF IInv
<1> QED
  BY <1>1, ObjectsInvariant, PTL

\* No failure of an initialiser loses memory or a descriptor of an object.
THEOREM NothingIsEverLost == Spec => []NothingIsLost
<1>1. IInv => NothingIsLost
  BY DEF IInv
<1> QED
  BY <1>1, ObjectsInvariant, PTL

\* What an SDM refers to still has the memory and the file it was initialised with,
\* unless the destructor of an object whose initialiser failed has taken it.
THEOREM SDMsKeepTheirObjects == Spec => []SDMsHoldTheirMemory
<1>1. ASSUME IInv, ~robbery, NEW o \in Objects, made[o] = "live"
      PROVE  Holds(o)
  <2>1. data[o] \in Regions
    BY <1>1 DEF IInv, TypeOK, Objects, Regions
  <2> QED
    BY <1>1, <2>1 DEF IInv, LiveHold, Holds
<1>2. IInv => SDMsHoldTheirMemory
  <2> SUFFICES ASSUME IInv, ~robbery, NEW p \in sdms
               PROVE  Holds(p[1]) /\ Holds(p[2])
    BY DEF SDMsHoldTheirMemory
  <2>1. p[1] \in Objects /\ p[2] \in Objects
    BY DEF IInv, TypeOK, Objects
  <2>2. made[p[1]] = "live" /\ made[p[2]] = "live"
    BY DEF IInv, ReferencesAreLive
  <2> QED
    BY <1>1, <2>1, <2>2
<1> QED
  BY <1>2, ObjectsInvariant, PTL

-----------------------------------------------------------------------------
\* A step takes what is free, or is one of the program, or deletes an object.
TakesWhatIsFree ==
    /\ \A r \in Regions : owner'[r] = owner[r] \/ owner[r] = Nobody
    /\ \A d \in Fds : open'[d] = open[d] \/ open[d] = Nobody
    /\ alive' = alive

LEMMA LeakTakesWhatIsFree ==
    ASSUME IInv, Leaks
    PROVE  \A d \in Fds : open'[d] = open[d] \/ open[d] = Nobody
BY LowestFdIsFree DEF Leaks, FreeFds, IInv, TypeOK

LEMMA StepShapes ==
    ASSUME IInv, Next
    PROVE  TakesWhatIsFree \/ ProgramStep \/ \E o \in Objects : DeletesKeeping(o)
<1>1. ASSUME NEW o \in Objects, NoInitializer(o) PROVE TakesWhatIsFree
  BY <1>1 DEF NoInitializer, Fails, Making, TakesWhatIsFree
<1>2. ASSUME NEW s \in AddressSpaces,
             \/ as_init(s) \/ as_init_Fails(s) \/ as_init_FailsLate(s)
             \/ as_init_from_b64_file_Refuses(s)
      PROVE  TakesWhatIsFree
  <2>1. CASE as_init(s)
    BY <2>1 DEF as_init, Making, Gets, TakesWhatIsFree, IInv, TypeOK
  <2>2. CASE as_init_Fails(s) \/ as_init_FailsLate(s)
    BY <2>2 DEF as_init_Fails, as_init_FailsLate, Fails, Making, GivesBack, TakesWhatIsFree
  <2>3. CASE as_init_from_b64_file_Refuses(s)
    BY <2>3, LeakTakesWhatIsFree
       DEF as_init_from_b64_file_Refuses, Fails, Making, TakesWhatIsFree
  <2> QED
    BY <1>2, <2>1, <2>2, <2>3
<1>3. ASSUME NEW c \in Counters,
             \/ counter_init(c) \/ counter_init_Fails(c)
             \/ counter_init_file(c) \/ counter_init_file_NoMeta(c)
             \/ counter_init_file_NoBin(c) \/ counter_init_file_NoMemory(c)
             \/ save_NoBin(c) \/ counter_load_file_Refuses(c)
      PROVE  TakesWhatIsFree
  <2>1. CASE counter_init(c)
    BY <2>1 DEF counter_init, Making, Gets, TakesWhatIsFree, IInv, TypeOK
  <2>2. CASE counter_init_file(c)
    BY <2>2, LowestFdIsFree
       DEF counter_init_file, FreeFds, Making, Gets, TakesWhatIsFree, IInv, TypeOK
  <2>3. CASE \/ counter_init_Fails(c) \/ counter_init_file_NoBin(c)
             \/ counter_init_file_NoMemory(c)
    BY <2>3 DEF counter_init_Fails, counter_init_file_NoBin, counter_init_file_NoMemory,
                Fails, Making, GivesBack, TakesWhatIsFree
  <2>4. CASE counter_init_file_NoMeta(c)
    BY <2>4, LeakTakesWhatIsFree DEF counter_init_file_NoMeta, Fails, Making, TakesWhatIsFree
  <2>5. CASE save_NoBin(c) \/ counter_load_file_Refuses(c)
    BY <2>5, LeakTakesWhatIsFree DEF save_NoBin, counter_load_file_Refuses, TakesWhatIsFree
  <2> QED
    BY <1>3, <2>1, <2>2, <2>3, <2>4, <2>5
<1>4. ASSUME NEW s \in AddressSpaces, NEW c \in Counters, NewSDM(s, c) \/ DropSDM(s, c)
      PROVE  TakesWhatIsFree
  BY <1>4 DEF NewSDM, DropSDM, TakesWhatIsFree
<1>5. ASSUME NEW s \in AddressSpaces, as_free(s)
      PROVE  \E o \in Objects : DeletesKeeping(o)
  BY <1>5, DestructorsDelete DEF Objects
<1>6. ASSUME NEW c \in Counters, counter_free(c)
      PROVE  \E o \in Objects : DeletesKeeping(o)
  BY <1>6, DestructorsDelete DEF Objects
<1> QED
  BY <1>1, <1>2, <1>3, <1>4, <1>5, <1>6 DEF Next

\* What the destructor of an object that is not doubtful gives back is its own.
LEMMA DestructorsGiveTheirOwn ==
    ASSUME IInv, NEW o \in Objects, DeletesKeeping(o), ~robbery, ~Doubtful(o)
    PROVE  /\ o \in Givers
           /\ \A r \in Regions : owner'[r] # owner[r] => owner[r] = o
           /\ \A d \in Fds : open'[d] # open[d] => open[d] = o
           /\ alive'
<1> USE NamesAssumption
<1>1. /\ made[o] # "none" /\ made' = [made EXCEPT ![o] = "none"]
      /\ made \in [Objects -> {"none", "live", "failed"}]
      /\ data \in [Objects -> Regions \cup {Null}]
  BY DEF DeletesKeeping, Deleting, IInv, TypeOK
<1>2. o \in Givers
  BY <1>1 DEF Givers, Deleted
<1>3. CASE made[o] = "live"
  <2>1. owner[data[o]] = o /\ (o \in Counters /\ fd[o] # -1 => open[fd[o]] = o)
    BY <1>3 DEF IInv, LiveHold
  <2>2. \A d \in Fds : open'[d] # open[d] => o \in Counters /\ d = fd[o] /\ fd[o] # -1
    BY DEF DeletesKeeping, Fds
  <2> QED
    BY <1>2, <2>1, <2>2 DEF DeletesKeeping
<1>4. CASE made[o] = "failed"
  <2>1. data[o] = Null /\ (o \in Counters => fd[o] = -1)
    BY <1>4 DEF Doubtful
  <2> QED
    BY <1>2, <2>1 DEF DeletesKeeping, Fds
<1> QED
  BY <1>1, <1>3, <1>4

\* The first time that memory or a descriptor is given back by another than its
\* owner it is by the destructor of an object whose initialiser failed.
THEOREM OnlyOwnersGiveBack == Spec => GivenBackByOwner
<1>1. ASSUME IInv, Next, ~robbery
      PROVE  /\ \A r \in Regions : owner'[r] # owner[r] => owner[r] \in Givers \/ ByDoubtful
             /\ \A d \in Fds : open'[d] # open[d] => open[d] \in Givers \/ ByDoubtful
  <2>1. CASE TakesWhatIsFree
    BY <2>1 DEF TakesWhatIsFree, Givers
  <2>2. CASE ProgramStep
    BY <1>1, <2>2, ProgramStepTakesItsOwn DEF Givers
  <2>3. ASSUME NEW o \in Objects, DeletesKeeping(o), Doubtful(o)
        PROVE  ByDoubtful
    BY <1>1, <2>3 DEF ByDoubtful, Deleted, DeletesKeeping, Deleting, IInv, TypeOK
  <2>4. ASSUME NEW o \in Objects, DeletesKeeping(o), ~Doubtful(o)
        PROVE  /\ \A r \in Regions : owner'[r] # owner[r] => owner[r] \in Givers
               /\ \A d \in Fds : open'[d] # open[d] => open[d] \in Givers
    BY <1>1, <2>4, DestructorsGiveTheirOwn
  <2> QED
    BY <1>1, <2>1, <2>2, <2>3, <2>4, StepShapes
<1>2. IInv /\ [Next]_vars =>
          [~robbery =>
              /\ \A r \in Regions : owner'[r] # owner[r] => owner[r] \in Givers \/ ByDoubtful
              /\ \A d \in Fds : open'[d] # open[d] => open[d] \in Givers \/ ByDoubtful]_vars
  BY <1>1
<1> QED
  BY <1>2, ObjectsInvariant, PTL DEF Spec, GivenBackByOwner

\* Nothing is freed twice but after the initialiser of an object failed.
THEOREM NothingIsFreedTwice == Spec => NoDoubleFree
<1>1. ASSUME IInv, Next, alive, ~alive', ~robbery
      PROVE  ByDoubtful
  <2>1. ~TakesWhatIsFree
    BY <1>1 DEF TakesWhatIsFree
  <2>2. ~ProgramStep
    BY <1>1 DEF ProgramStep
  <2>3. PICK o \in Objects : DeletesKeeping(o)
    BY <1>1, <2>1, <2>2, StepShapes
  <2>4. Doubtful(o)
    BY <1>1, <2>3, DestructorsGiveTheirOwn
  <2> QED
    BY <1>1, <2>3, <2>4 DEF ByDoubtful, Deleted, DeletesKeeping, Deleting, IInv, TypeOK
<1>2. IInv /\ [Next]_vars => [alive /\ ~alive' => robbery \/ ByDoubtful]_vars
  BY <1>1
<1> QED
  BY <1>2, ObjectsInvariant, PTL DEF Spec, NoDoubleFree
==============================================================================
