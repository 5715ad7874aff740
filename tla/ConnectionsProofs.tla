------------------------- MODULE ConnectionsProofs --------------------------
(***************************************************************************)
(* Verification is never weakened: a target that requires host-key         *)
(* verification gets no connection that was opened without it, at its own  *)
(* end or at the jump host's, however many workers, keys and rounds there  *)
(* are.                                                                    *)
(*                                                                         *)
(* The property speaks of workers at rest.  The invariant follows the      *)
(* references: the pool leads to an entry of its own key, a mode to a      *)
(* client of the jump host of that mode, and what a worker or an entry     *)
(* goes through has the mode of its key; and nobody refers to what a       *)
(* worker has yet to make in this round.  On top of it: no connection      *)
(* leaks, and no fan-out inherits a dial that an earlier one aborted.      *)
(***************************************************************************)
EXTENDS Connections, TLAPS

\* The entries and clients made so far, this round's included.
Made == Workers \X (1..round)

\* Where a worker has yet to make an entry, and a client of the jump host.
BeforeEntry == {"lookup"}
BeforeJump  == {"lookup", "once", "bastion", "jump"}

Shape ==
    /\ round \in 0..Rounds
    /\ target \in [Workers -> Keys]
    /\ DOMAIN at = Workers /\ DOMAIN held = Workers /\ DOMAIN via = Workers
    /\ DOMAIN pool = Keys /\ DOMAIN hop = Modes
    /\ DOMAIN entries = Ids /\ DOMAIN jumps = Ids
    /\ \A i \in Ids : /\ {"key", "once", "err", "client", "via"} \subseteq DOMAIN entries[i]
                      /\ {"mode", "client"} \subseteq DOMAIN jumps[i]

Pooled == \A k \in Keys : pool[k] # None => pool[k] \in Made /\ entries[pool[k]].key = k

Held ==
    \A w \in Workers :
        /\ held[w] # None => held[w] \in Made /\ entries[held[w]].key = target[w]
        /\ at[w] \notin {"idle", "lookup"} => held[w] # None
        /\ at[w] # "idle" => round >= 1

Hopped == \A m \in Modes : hop[m].client # None =>
              hop[m].client \in Made /\ jumps[hop[m].client].mode = m

Going == \A w \in Workers : via[w] # None =>
             via[w] \in Made /\ jumps[via[w]].mode = ModeOf[target[w]]

Gone == \A i \in Ids : entries[i].via # None =>
            entries[i].via \in Made /\ jumps[entries[i].via].mode = ModeOf[entries[i].key]

Unmade ==
    \A w \in Workers :
        /\ at[w] \in BeforeEntry =>
               /\ \A k \in Keys : pool[k] # <<w, round>>
               /\ \A v \in Workers : held[v] # <<w, round>>
        /\ at[w] \in BeforeJump =>
               /\ \A m \in Modes : hop[m].client # <<w, round>>
               /\ \A v \in Workers : via[v] # <<w, round>>
               /\ \A i \in Ids : entries[i].via # <<w, round>>

VerifiedInv == Shape /\ Pooled /\ Held /\ Hopped /\ Going /\ Gone /\ Unmade

\* A step of worker w, or of nobody, in which no reference is new: pooled entries and
\* clients of the jump host may be forgotten, connections end.
Calm ==
    /\ UNCHANGED <<round, target, held, via>>
    /\ Shape'
    /\ \A k \in Keys : pool'[k] \in {pool[k], None}
    /\ \A m \in Modes : hop'[m].client \in {hop[m].client, None}
    /\ \A i \in Ids : entries'[i].key = entries[i].key /\ jumps'[i].mode = jumps[i].mode
    /\ \A w \in Workers :
        /\ at'[w] \in BeforeEntry => at[w] \in BeforeEntry
        /\ at'[w] \in BeforeJump => at[w] \in BeforeJump
        /\ at'[w] \notin {"idle", "lookup"} => at[w] \notin {"idle", "lookup"}
        /\ at'[w] # "idle" => at[w] # "idle"

-----------------------------------------------------------------------------
\* Nothing refers to anything at first.
LEMMA InitVerified == Init => VerifiedInv
<1> SUFFICES ASSUME Init PROVE VerifiedInv
  OBVIOUS
<1>1. Shape
  BY ConnectionsAssumption DEF Init, Shape, Fresh, Undialed
<1>2. \A i \in Ids : entries[i].via = None
  BY DEF Init, Fresh
<1>3. \A m \in Modes : hop[m].client = None
  BY DEF Init, Undialed
<1> QED BY <1>1, <1>2, <1>3 DEF Init, VerifiedInv, Pooled, Held, Hopped, Going, Gone, Unmade, BeforeEntry, BeforeJump

\* What is made so far is made in one of the rounds.
LEMMA MadeIds == Shape => Made \subseteq Ids
<1> SUFFICES ASSUME Shape PROVE Made \subseteq Ids
  OBVIOUS
<1>1. 1..round \subseteq 1..Rounds
  BY ConnectionsAssumption DEF Shape
<1> QED BY <1>1 DEF Made, Ids

\* A step without new references keeps the invariant.
LEMMA CalmKeeps ==
    ASSUME VerifiedInv, Calm, \A i \in Ids : entries'[i].via = entries[i].via
    PROVE  VerifiedInv'
<1>1. Made \subseteq Ids /\ Made' = Made
  BY MadeIds DEF VerifiedInv, Calm, Made
<1>2. Pooled' /\ Held' /\ Hopped'
  <2>1. Pooled'
    BY <1>1 DEF VerifiedInv, Calm, Pooled
  <2>2. Held'
    BY <1>1 DEF VerifiedInv, Calm, Held
  <2>3. Hopped'
    BY <1>1 DEF VerifiedInv, Calm, Hopped
  <2> QED BY <2>1, <2>2, <2>3
<1>3. Going'
  BY <1>1 DEF VerifiedInv, Calm, Going
<1>4. Gone'
  BY <1>1 DEF VerifiedInv, Calm, Gone
<1>5. Unmade'
  <2>1. ASSUME NEW w \in Workers, at'[w] \in BeforeJump
        PROVE  at[w] \in BeforeJump /\ <<w, round>> \in Ids /\ <<w, round>> # None /\ round' = round
    <3>1. at[w] \in BeforeJump /\ round' = round /\ round \in 1..Rounds
      BY <2>1 DEF VerifiedInv, Calm, Shape, Held, BeforeJump
    <3>2. <<w, round>> \in Ids
      BY <3>1 DEF Ids
    <3> QED BY <3>1, <3>2, ConnectionsAssumption
  <2>2. ASSUME NEW w \in Workers, at'[w] \in BeforeEntry
        PROVE  (\A k \in Keys : pool'[k] # <<w, round'>>) /\ \A v \in Workers : held'[v] # <<w, round'>>
    <3>1. at[w] \in BeforeEntry /\ at'[w] \in BeforeJump
      BY <2>2 DEF Calm, BeforeEntry, BeforeJump
    <3> QED BY <2>1, <3>1 DEF VerifiedInv, Calm, Unmade
  <2>3. ASSUME NEW w \in Workers, at'[w] \in BeforeJump
        PROVE  /\ \A m \in Modes : hop'[m].client # <<w, round'>>
               /\ \A v \in Workers : via'[v] # <<w, round'>>
               /\ \A i \in Ids : entries'[i].via # <<w, round'>>
    BY <2>1, <2>3 DEF VerifiedInv, Calm, Unmade
  <2> QED BY <2>2, <2>3 DEF Unmade
<1> QED BY <1>2, <1>3, <1>4, <1>5 DEF VerifiedInv, Calm

-----------------------------------------------------------------------------
\* Dial returns: the entry gets what the worker went through, which has the mode of the
\* worker's target, whose key the entry has.  The jump host may be left without a client.
LEMMA EndDialKeeps ==
    ASSUME VerifiedInv, NEW w \in Workers, NEW client, NEW err, EndDial(w, client, err),
           at[w] \notin {"idle", "lookup"},
           UNCHANGED <<round, target, held, via, pool, jumps>>,
           DOMAIN hop' = DOMAIN hop,
           \A m \in Modes : hop'[m].client \in {hop[m].client, None}
    PROVE  VerifiedInv'
<1> DEFINE e == held[w]
<1>1. e \in Made /\ e \in Ids /\ entries[e].key = target[w] /\ Made' = Made
  BY MadeIds DEF VerifiedInv, Held, Made
<1>2. entries'[e].key = entries[e].key /\ entries'[e].via = via[w]
      /\ \A i \in Ids \ {e} : entries'[i] = entries[i]
  BY <1>1 DEF EndDial, VerifiedInv, Shape
<1>3. at'[w] = "check" /\ \A v \in Workers \ {w} : at'[v] = at[v]
  BY DEF EndDial, VerifiedInv, Shape
<1>4. \A i \in Ids : entries'[i].key = entries[i].key
  BY <1>2
<1>5. Shape'
  BY <1>1 DEF EndDial, VerifiedInv, Shape
<1>6. Pooled'
  BY <1>1, <1>4, MadeIds DEF VerifiedInv, Pooled
<1>7. Held'
  BY <1>1, <1>3, <1>4, MadeIds DEF VerifiedInv, Held
<1>8. Hopped' /\ Going'
  <2>1. Hopped'
    BY <1>1 DEF VerifiedInv, Hopped
  <2>2. Going'
    BY <1>1 DEF VerifiedInv, Going
  <2> QED BY <2>1, <2>2
<1>9. Gone'
  BY <1>1, <1>2 DEF VerifiedInv, Gone, Going
<1>10. Unmade'
  <2>1. ASSUME NEW v \in Workers, at'[v] \in BeforeJump
        PROVE  v # w /\ at[v] = at'[v] /\ <<v, round>> # None
    <3>1. v # w /\ at[v] = at'[v] /\ round \in 1..Rounds
      BY <1>3, <2>1 DEF VerifiedInv, Shape, Held, BeforeJump
    <3>2. <<v, round>> \in Ids
      BY <3>1 DEF Ids
    <3> QED BY <3>1, <3>2, ConnectionsAssumption
  <2>2. ASSUME NEW v \in Workers, at'[v] \in BeforeEntry
        PROVE  (\A k \in Keys : pool'[k] # <<v, round'>>) /\ \A u \in Workers : held'[u] # <<v, round'>>
    <3>1. at[v] \in BeforeEntry
      BY <2>1, <2>2 DEF BeforeEntry, BeforeJump
    <3> QED BY <3>1 DEF VerifiedInv, Unmade
  <2>3. ASSUME NEW v \in Workers, at'[v] \in BeforeJump
        PROVE  /\ \A m \in Modes : hop'[m].client # <<v, round'>>
               /\ \A u \in Workers : via'[u] # <<v, round'>>
               /\ \A i \in Ids : entries'[i].via # <<v, round'>>
    BY <1>2, <2>1, <2>3 DEF VerifiedInv, Unmade
  <2> QED BY <2>2, <2>3 DEF Unmade
<1> QED BY <1>5, <1>6, <1>7, <1>8, <1>9, <1>10 DEF VerifiedInv

\* A worker of the next round holds nothing, and what is made is made in earlier ones.
LEMMA StartKeeps ==
    ASSUME VerifiedInv, StartRound
    PROVE  VerifiedInv'
<1>1. round' = round + 1 /\ round' \in 1..Rounds /\ UNCHANGED <<pool, entries, jumps, hop>>
  BY ConnectionsAssumption DEF StartRound, VerifiedInv, Shape
<1>2. Made \subseteq Made' /\ \A w \in Workers : <<w, round'>> \notin Made /\ <<w, round'>> # None
  <2>1. 1..round \subseteq 1..round' /\ round' \notin 1..round
    BY <1>1 DEF VerifiedInv, Shape
  <2>2. \A w \in Workers : <<w, round'>> \in Ids
    BY <1>1 DEF Ids
  <2> QED BY <2>1, <2>2, ConnectionsAssumption DEF Made
<1>3. Shape'
  BY <1>1 DEF StartRound, VerifiedInv, Shape
<1>4. Pooled' /\ Hopped' /\ Gone'
  BY <1>1, <1>2 DEF VerifiedInv, Pooled, Hopped, Gone
<1>5. Held' /\ Going'
  BY <1>1 DEF StartRound, Held, Going
<1>6. Unmade'
  <2>1. \A v \in Workers : held'[v] = None /\ via'[v] = None
    BY DEF StartRound
  <2>2. ASSUME NEW w \in Workers
        PROVE  /\ \A k \in Keys : pool[k] # <<w, round'>>
               /\ \A m \in Modes : hop[m].client # <<w, round'>>
               /\ \A i \in Ids : entries[i].via # <<w, round'>>
    BY <1>2 DEF VerifiedInv, Pooled, Hopped, Gone
  <2>3. ASSUME NEW w \in Workers
        PROVE  /\ \A v \in Workers : held'[v] # <<w, round'>> /\ via'[v] # <<w, round'>>
               /\ \A k \in Keys : pool'[k] # <<w, round'>>
               /\ \A m \in Modes : hop'[m].client # <<w, round'>>
               /\ \A i \in Ids : entries'[i].via # <<w, round'>>
    BY <1>1, <1>2, <2>1, <2>2
  <2> QED BY <2>3 DEF Unmade
<1> QED BY <1>3, <1>4, <1>5, <1>6 DEF VerifiedInv

\* An entry is made where there was none, and nobody held it yet.
LEMMA LookupKeeps ==
    ASSUME VerifiedInv, NEW w \in Workers, Lookup(w)
    PROVE  VerifiedInv'
<1> DEFINE new == <<w, round>>
           k   == target[w]
<1>1. new \in Made /\ new \in Ids /\ k \in Keys /\ Made' = Made /\ new # None
  <2>1. round \in 1..Rounds /\ k \in Keys
    BY DEF Lookup, VerifiedInv, Shape, Held
  <2>2. new \in Made /\ new \in Ids
    BY <2>1 DEF Made, Ids
  <2> QED BY <2>1, <2>2, ConnectionsAssumption DEF Lookup, Made
<1>2. /\ UNCHANGED <<round, target, via, jumps, hop>>
      /\ at'[w] = "once" /\ \A v \in Workers \ {w} : at'[v] = at[v]
      /\ held'[w] = pool'[k] /\ \A v \in Workers \ {w} : held'[v] = held[v]
  BY DEF Lookup, VerifiedInv, Shape
<1>3. /\ pool'[k] # None
      /\ \A l \in Keys : pool'[l] = pool[l] \/ (l = k /\ pool'[l] = new)
      /\ \A i \in Ids : entries'[i] = entries[i] \/ (i = new /\ entries'[i].key = k /\ entries'[i].via = None)
      /\ pool'[k] = new => entries'[new].key = k
  <2>1. CASE pool[k] # None
    <3>1. entries' = entries /\ pool' = pool
      BY <2>1 DEF Lookup
    <3>2. entries[pool[k]].key = k
      BY <1>1, <2>1 DEF VerifiedInv, Pooled
    <3> QED BY <2>1, <3>1, <3>2
  <2>2. CASE pool[k] = None
    <3>1. entries' = [entries EXCEPT ![new] = Fresh(k)] /\ pool' = [pool EXCEPT ![k] = new]
      BY <2>2 DEF Lookup
    <3>2. Fresh(k).key = k /\ Fresh(k).via = None
      BY DEF Fresh
    <3>3. pool'[k] = new /\ \A l \in Keys \ {k} : pool'[l] = pool[l]
      BY <1>1, <3>1 DEF VerifiedInv, Shape
    <3>4. entries'[new] = Fresh(k) /\ \A i \in Ids \ {new} : entries'[i] = entries[i]
      BY <1>1, <3>1 DEF VerifiedInv, Shape
    <3> HIDE DEF new, k
    <3> QED BY <1>1, <3>2, <3>3, <3>4
  <2> QED BY <2>1, <2>2
<1>4. /\ \A l \in Keys : pool[l] # new
      /\ \A v \in Workers : held[v] # new
  BY DEF Lookup, VerifiedInv, Unmade, BeforeEntry
<1>5. Shape'
  BY <1>1 DEF Lookup, VerifiedInv, Shape, Fresh
<1>6. Pooled'
  <2>1. ASSUME NEW l \in Keys, pool'[l] # None PROVE pool'[l] \in Made /\ entries'[pool'[l]].key = l
    <3>1. CASE pool'[l] = pool[l]
      <4>1. pool[l] \in Made /\ entries[pool[l]].key = l /\ pool[l] \in Ids
        BY <2>1, <3>1, MadeIds DEF VerifiedInv, Pooled
      <4> QED BY <1>3, <1>4, <3>1, <4>1
    <3>2. CASE l = k /\ pool'[l] = new
      BY <1>1, <1>3, <3>2
    <3> QED BY <1>3, <3>1, <3>2
  <2> QED BY <1>1, <2>1 DEF Pooled
<1>7. Held'
  <2>1. ASSUME NEW v \in Workers, v # w, held[v] # None
        PROVE  held[v] \in Made /\ entries'[held[v]].key = target[v]
    <3>1. held[v] \in Made /\ held[v] \in Ids /\ entries[held[v]].key = target[v] /\ held[v] # new
      BY <1>4, <2>1, MadeIds DEF VerifiedInv, Held
    <3> QED BY <1>3, <3>1
  <2>2. held'[w] # None /\ held'[w] \in Made /\ entries'[held'[w]].key = target[w]
    BY <1>1, <1>2, <1>3, <1>6 DEF Pooled
  <2>3. round >= 1
    BY DEF Lookup, VerifiedInv, Held
  <2> QED BY <1>1, <1>2, <2>1, <2>2, <2>3 DEF VerifiedInv, Held
<1>8. Hopped' /\ Going'
  BY <1>1, <1>2 DEF VerifiedInv, Hopped, Going
<1>9. Gone'
  BY <1>1, <1>2, <1>3 DEF VerifiedInv, Gone
<1>10. Unmade'
  <2>1. ASSUME NEW v \in Workers, at'[v] \in BeforeEntry
        PROVE  (\A l \in Keys : pool'[l] # <<v, round>>) /\ \A u \in Workers : held'[u] # <<v, round>>
    <3>1. v # w /\ at[v] \in BeforeEntry /\ <<v, round>> # new
      BY <1>2, <2>1 DEF BeforeEntry
    <3>2. \A l \in Keys : pool'[l] # <<v, round>>
      BY <1>3, <3>1 DEF VerifiedInv, Unmade
    <3> QED BY <1>1, <1>2, <3>1, <3>2 DEF VerifiedInv, Unmade
  <2>2. ASSUME NEW v \in Workers, at'[v] \in BeforeJump
        PROVE  /\ at[v] \in BeforeJump
               /\ <<v, round>> # None
    <3>1. at[v] \in BeforeJump /\ round \in 1..Rounds
      BY <1>2, <2>2 DEF BeforeJump, Lookup, VerifiedInv, Shape, Held
    <3>2. <<v, round>> \in Ids
      BY <3>1 DEF Ids
    <3> QED BY <3>1, <3>2, ConnectionsAssumption
  <2>3. ASSUME NEW v \in Workers, at'[v] \in BeforeJump
        PROVE  /\ \A m \in Modes : hop[m].client # <<v, round>>
               /\ \A u \in Workers : via[u] # <<v, round>>
               /\ \A i \in Ids : entries'[i].via # <<v, round>>
    BY <1>3, <2>2, <2>3 DEF VerifiedInv, Unmade
  <2> QED BY <1>2, <2>1, <2>3 DEF Unmade
<1> QED BY <1>5, <1>6, <1>7, <1>8, <1>9, <1>10 DEF VerifiedInv

\* What a worker takes from the jump host's slot of its mode has that mode, and is made.
LEMMA TakeKeeps ==
    ASSUME VerifiedInv, NEW w \in Workers, at[w] = "bastion",
           hop[HopMode(w)].client # None,
           via' = [via EXCEPT ![w] = hop[HopMode(w)].client],
           at' = [at EXCEPT ![w] = "connect"],
           UNCHANGED <<round, target, held, pool, entries, jumps, hop>>
    PROVE  VerifiedInv'
<1>1. HopMode(w) \in Modes /\ HopMode(w) = ModeOf[target[w]]
  BY ConnectionsAssumption DEF HopMode, VerifiedInv, Shape
<1>2. /\ via'[w] = hop[HopMode(w)].client /\ \A v \in Workers \ {w} : via'[v] = via[v]
      /\ at'[w] = "connect" /\ \A v \in Workers \ {w} : at'[v] = at[v]
      /\ Made' = Made
  BY DEF VerifiedInv, Shape, Made
<1>3. Shape'
  BY DEF VerifiedInv, Shape
<1>4. Pooled' /\ Hopped' /\ Gone'
  BY <1>2 DEF VerifiedInv, Pooled, Hopped, Gone
<1>5. Held'
  BY <1>2 DEF VerifiedInv, Held
<1>6. Going'
  BY <1>1, <1>2 DEF VerifiedInv, Going, Hopped
<1>7. Unmade'
  <2>1. ASSUME NEW v \in Workers, at'[v] \in BeforeJump PROVE v # w /\ at'[v] = at[v]
    BY <1>2, <2>1 DEF BeforeJump
  <2>2. ASSUME NEW v \in Workers, at'[v] \in BeforeEntry PROVE at[v] \in BeforeEntry
    BY <1>2, <2>2 DEF BeforeEntry
  <2>3. ASSUME NEW v \in Workers, at'[v] \in BeforeJump PROVE \A u \in Workers : via'[u] # <<v, round>>
    BY <1>1, <1>2, <2>1, <2>3 DEF VerifiedInv, Unmade
  <2> QED BY <2>1, <2>2, <2>3 DEF VerifiedInv, Unmade
<1> QED BY <1>3, <1>4, <1>5, <1>6, <1>7 DEF VerifiedInv

\* A client of the jump host is made in the worker's mode, and nobody referred to it yet.
LEMMA JumpedKeeps ==
    ASSUME VerifiedInv, NEW w \in Workers, at[w] = "jump", Jumped(w),
           UNCHANGED <<round, target, held, pool>>
    PROVE  VerifiedInv'
<1> DEFINE new == <<w, round>>
<1>1. HopMode(w) \in Modes /\ HopMode(w) = ModeOf[target[w]]
  BY ConnectionsAssumption DEF HopMode, VerifiedInv, Shape
<1>2. new \in Made /\ new \in Ids /\ Made' = Made
  <2>1. round \in 1..Rounds
    BY DEF VerifiedInv, Shape, Held
  <2> QED BY <2>1 DEF Made, Ids
<1>3. /\ via'[w] = new /\ \A v \in Workers \ {w} : via'[v] = via[v]
      /\ at'[w] = "connect" /\ \A v \in Workers \ {w} : at'[v] = at[v]
      /\ jumps'[new].mode = HopMode(w) /\ \A i \in Ids \ {new} : jumps'[i] = jumps[i]
      /\ hop'[HopMode(w)].client = new /\ \A m \in Modes \ {HopMode(w)} : hop'[m] = hop[m]
      /\ entries' = entries
  BY <1>1, <1>2 DEF Jumped, VerifiedInv, Shape
<1>4. /\ \A m \in Modes : hop[m].client # new
      /\ \A v \in Workers : via[v] # new
      /\ \A i \in Ids : entries[i].via # new
  BY DEF VerifiedInv, Unmade, BeforeJump
<1>5. Shape'
  BY <1>1, <1>2 DEF Jumped, VerifiedInv, Shape
<1> HIDE DEF new
<1>6. Pooled'
  BY <1>2, <1>3 DEF VerifiedInv, Pooled
<1>7. Held'
  BY <1>2, <1>3 DEF VerifiedInv, Held
<1>8. Hopped'
  BY <1>1, <1>2, <1>3, <1>4, MadeIds DEF VerifiedInv, Hopped
<1>9. Going'
  BY <1>1, <1>2, <1>3, <1>4, MadeIds DEF VerifiedInv, Going
<1>10. Gone'
  BY <1>2, <1>3, <1>4, MadeIds DEF VerifiedInv, Gone
<1>11. Unmade'
  <2>1. ASSUME NEW v \in Workers, at'[v] \in BeforeJump
        PROVE  v # w /\ at'[v] = at[v] /\ <<v, round>> # new
    BY <1>3, <2>1 DEF BeforeJump, new
  <2>2. ASSUME NEW v \in Workers, at'[v] \in BeforeEntry PROVE at[v] \in BeforeEntry
    BY <1>3, <2>2 DEF BeforeEntry
  <2>3. ASSUME NEW v \in Workers, at'[v] \in BeforeJump
        PROVE  /\ \A m \in Modes : hop'[m].client # <<v, round>>
               /\ \A u \in Workers : via'[u] # <<v, round>>
    <3>1. /\ \A m \in Modes : hop[m].client # <<v, round>>
          /\ \A u \in Workers : via[u] # <<v, round>>
      BY <2>1, <2>3 DEF VerifiedInv, Unmade
    <3> HIDE DEF HopMode
    <3> QED BY <1>3, <2>1, <2>3, <3>1
  <2> QED BY <1>3, <2>1, <2>2, <2>3 DEF VerifiedInv, Unmade
<1> QED BY <1>5, <1>6, <1>7, <1>8, <1>9, <1>10, <1>11 DEF VerifiedInv

-----------------------------------------------------------------------------
\* The steps of a worker's dial that end in an answer or go on.
LEMMA DialKeeps ==
    ASSUME VerifiedInv, NEW w \in Workers, TakeBastion(w) \/ Jump(w) \/ Connect(w) \/ Handshake(w)
    PROVE  VerifiedInv'
<1>1. ASSUME NEW s \in {"jump", "handshake"}, at' = [at EXCEPT ![w] = s],
             at[w] \in {"bastion", "connect"}, s = "jump" => at[w] = "bastion",
             UNCHANGED <<round, target, held, via, pool, entries, jumps, hop>>
      PROVE  VerifiedInv'
  <2>1. \A v \in Workers : at'[v] = at[v] \/ (v = w /\ at'[v] = s)
    BY <1>1 DEF VerifiedInv, Shape
  <2>2. Calm
    BY <1>1, <2>1 DEF VerifiedInv, Shape, Calm, BeforeEntry, BeforeJump
  <2> QED BY <1>1, <2>2, CalmKeeps
<1>2. CASE TakeBastion(w)
  <2>1. CASE ~Cached(hop[HopMode(w)])
    BY <1>1, <1>2, <2>1 DEF TakeBastion
  <2>2. CASE Cached(hop[HopMode(w)]) /\ hop[HopMode(w)].client = None
    <3>1. EndDial(w, "none", hop[HopMode(w)].err) /\ at[w] = "bastion"
          /\ UNCHANGED <<round, target, held, via, pool, jumps, hop>>
      BY <1>2, <2>2 DEF TakeBastion, FailDial
    <3> QED BY <3>1, EndDialKeeps
  <2>3. CASE Cached(hop[HopMode(w)]) /\ hop[HopMode(w)].client # None
    BY <1>2, <2>3, TakeKeeps DEF TakeBastion
  <2> QED BY <2>1, <2>2, <2>3
<1>3. CASE Jump(w)
  <2>1. at[w] = "jump" /\ UNCHANGED <<round, target, held, pool>>
    BY <1>3 DEF Jump
  <2>2. CASE Jumped(w)
    BY <2>1, <2>2, JumpedKeeps
  <2>3. CASE /\ hop' = [hop EXCEPT ![HopMode(w)] = [dialed |-> TRUE, client |-> None, err |-> "refused"]]
             /\ FailDial(w, "refused") /\ UNCHANGED <<jumps, via>>
    <3>1. DOMAIN hop' = DOMAIN hop /\ \A m \in Modes : hop'[m].client \in {hop[m].client, None}
      BY <2>3 DEF VerifiedInv, Shape
    <3> QED BY <2>1, <2>3, <3>1, EndDialKeeps DEF FailDial
  <2>4. CASE FailDial(w, "context") /\ UNCHANGED <<jumps, hop, via>>
    BY <2>1, <2>4, EndDialKeeps DEF FailDial
  <2> QED BY <1>3, <2>2, <2>3, <2>4 DEF Jump
<1>4. ASSUME at[w] \in {"connect", "handshake"}, NEW client, NEW err, EndDial(w, client, err),
             UNCHANGED <<round, target, held, via, pool, jumps, hop>>
      PROVE  VerifiedInv'
  BY <1>4, EndDialKeeps
<1>5. CASE Connect(w)
  <2>1. at[w] = "connect" /\ UNCHANGED <<round, target, held, via, pool, jumps, hop>>
    BY <1>5 DEF Connect
  <2>2. CASE at' = [at EXCEPT ![w] = "handshake"] /\ entries' = entries
    BY <1>1, <2>1, <2>2
  <2>3. CASE FailDial(w, "refused") \/ FailDial(w, "context")
    BY <1>4, <2>1, <2>3 DEF FailDial
  <2> QED BY <1>5, <2>2, <2>3 DEF Connect
<1>6. CASE Handshake(w)
  BY <1>4, <1>6 DEF Handshake, FailDial
<1> QED BY <1>2, <1>3, <1>5, <1>6

\* The ends of connections, of waits and of rounds leave every reference as it is or
\* forget it.
LEMMA QuietKeeps ==
    ASSUME VerifiedInv,
           \/ CancelRound \/ ClientEnds \/ JumpEnds \/ CloseAll \/ UNCHANGED vars
           \/ \E w \in Workers : SkipTarget(w) \/ Once(w) \/ Check(w)
    PROVE  VerifiedInv'
<1>1. CASE CancelRound \/ UNCHANGED vars
  <2>1. Calm /\ entries' = entries
    BY <1>1 DEF CancelRound, vars, local, VerifiedInv, Shape, Calm
  <2> QED BY <2>1, CalmKeeps
<1>2. CASE ClientEnds
  <2>1. Calm /\ \A i \in Ids : entries'[i].via = entries[i].via
    BY <1>2 DEF ClientEnds, End, local, VerifiedInv, Shape, Calm
  <2> QED BY <2>1, CalmKeeps
<1>3. CASE JumpEnds
  <2>1. Calm /\ \A i \in Ids : entries'[i].via = entries[i].via
    BY <1>3 DEF JumpEnds, End, EndJump, local, VerifiedInv, Shape, Calm
  <2> QED BY <2>1, CalmKeeps
<1>4. CASE CloseAll
  <2>1. Calm /\ \A i \in Ids : entries'[i].via = entries[i].via
    BY <1>4 DEF CloseAll, End, EndJump, Undialed, local, VerifiedInv, Shape, Calm
  <2> QED BY <2>1, CalmKeeps
<1>5. ASSUME NEW w \in Workers, SkipTarget(w) PROVE VerifiedInv'
  <2>1. Calm /\ entries' = entries
    BY <1>5 DEF SkipTarget, VerifiedInv, Shape, Calm, BeforeEntry, BeforeJump
  <2> QED BY <2>1, CalmKeeps
<1>6. ASSUME NEW w \in Workers, Once(w) PROVE VerifiedInv'
  <2>1. \A v \in Workers : at'[v] = at[v] \/ (v = w /\ at[v] = "once" /\ at'[v] \in {"check", "bastion", "connect"})
    BY <1>6 DEF Once, VerifiedInv, Shape
  <2>2. Shape' /\ \A i \in Ids : entries'[i].key = entries[i].key /\ entries'[i].via = entries[i].via
    BY <1>6 DEF Once, VerifiedInv, Shape
  <2>3. Calm
    BY <1>6, <2>1, <2>2 DEF Once, Calm, BeforeEntry, BeforeJump
  <2> QED BY <2>2, <2>3, CalmKeeps
<1>7. ASSUME NEW w \in Workers, Check(w) PROVE VerifiedInv'
  <2>1. Calm /\ entries' = entries
    BY <1>7 DEF Check, VerifiedInv, Shape, Calm, BeforeEntry, BeforeJump
  <2> QED BY <2>1, CalmKeeps
<1> QED BY <1>1, <1>2, <1>3, <1>4, <1>5, <1>6, <1>7

\* Every step keeps the invariant.
LEMMA StepKeeps == VerifiedInv /\ [Next]_vars => VerifiedInv'
BY StartKeeps, LookupKeeps, DialKeeps, QuietKeeps DEF Next, Work

\* A target that requires host-key verification gets no connection that was opened
\* without it, at its own end or at the jump host's, for any workers, keys, modes and
\* rounds (cluster.go:142-160, bastion.go:17-18).
THEOREM VerifiedForAll == Spec => []VerifiedThroughout
<1>1. VerifiedInv => VerifiedThroughout
  BY MadeIds DEF VerifiedInv, Held, Gone, VerifiedThroughout
<1> QED BY <1>1, InitVerified, StepKeeps, PTL DEF Spec

-----------------------------------------------------------------------------
(* No connection leaks, and no aborted dial is inherited.  An entry whose  *)
(* dial is not over stays in the pool, one worker dials it, and one that   *)
(* was aborted leaves with the worker that dialed it.  A mode's slot at    *)
(* the jump host changes only when it holds no open client, under Bastion.mu. *)

Dialing == {"bastion", "jump", "connect", "handshake"}

Waits ==
    \A w \in Workers :
        at[w] \in Dialing \cup {"once"} /\ entries[held[w]].once # "done" =>
            pool[target[w]] = held[w]

Dials ==
    /\ \A w \in Workers : at[w] \in Dialing => entries[held[w]].once = "running"
    /\ \A v, w \in Workers :
          at[v] \in Dialing /\ at[w] \in Dialing /\ held[v] = held[w] => v = w

Settled ==
    \A i \in Ids :
        /\ entries[i].key \in Keys /\ entries[i].once \in {"new", "running", "done"}
        /\ entries[i].once # "done" => entries[i].err = "none"
        /\ entries[i].err = "context" => entries[i].client # "open"

Pending ==
    \A k \in Keys :
        pool[k] # None /\ entries[pool[k]].err = "context" =>
            \E w \in Workers : at[w] = "check" /\ held[w] = pool[k]

InPool == \A i \in Ids : entries[i].client = "open" => pool[entries[i].key] = i

PoolInv == Waits /\ Dials /\ Settled /\ Pending /\ InPool

Mutex == \A w \in Workers : at[w] = "jump" => mu = w /\ ~Cached(hop[HopMode(w)])

Slots == \A m \in Modes : ~hop[m].dialed => hop[m].client = None

InHop ==
    \A i \in Ids : /\ jumps[i].mode \in Modes
                   /\ jumps[i].client = "open" => hop[jumps[i].mode].client = i

HopInv == Mutex /\ Slots /\ InHop

LeakInv == VerifiedInv /\ PoolInv /\ HopInv

\* What a worker holds is an entry of its target.
LEMMA HeldEntry ==
    ASSUME VerifiedInv, NEW w \in Workers, at[w] \notin {"idle", "lookup"}
    PROVE  held[w] \in Ids /\ held[w] # None /\ entries[held[w]].key = target[w] /\ target[w] \in Keys
BY MadeIds DEF VerifiedInv, Held, Shape

-----------------------------------------------------------------------------
\* Dial returns: the entry is settled, and still in the pool.
LEMMA EndDialPool ==
    ASSUME VerifiedInv, PoolInv, NEW w \in Workers, NEW client, NEW err,
           EndDial(w, client, err), client = "open" => err = "none",
           at[w] \in Dialing, UNCHANGED <<target, held, pool>>
    PROVE  PoolInv'
<1> DEFINE e == held[w]
<1>1. e \in Ids /\ e # None /\ entries[e].key = target[w] /\ target[w] \in Keys
  BY HeldEntry DEF Dialing
<1>2. /\ entries'[e].key = entries[e].key /\ entries'[e].once = "done"
      /\ entries'[e].client = client /\ entries'[e].err = err
      /\ \A i \in Ids \ {e} : entries'[i] = entries[i]
  BY <1>1 DEF EndDial, VerifiedInv, Shape
<1>3. at'[w] = "check" /\ \A v \in Workers \ {w} : at'[v] = at[v]
  BY DEF EndDial, VerifiedInv, Shape
<1>4. entries[e].once = "running" /\ pool[target[w]] = e
  BY DEF PoolInv, Dials, Waits
<1>5. \A v \in Workers : at'[v] \in Dialing \cup {"once"} => v # w /\ at[v] = at'[v] /\ held[v] \in Ids
  BY <1>3, HeldEntry DEF Dialing
<1>6. Waits'
  BY <1>1, <1>2, <1>5 DEF PoolInv, Waits
<1>7. Dials'
  <2>1. ASSUME NEW v \in Workers, at'[v] \in Dialing PROVE entries'[held[v]].once = "running"
    BY <1>2, <1>5, <2>1 DEF PoolInv, Dials
  <2>2. ASSUME NEW u \in Workers, NEW v \in Workers, at'[u] \in Dialing, at'[v] \in Dialing,
               held[u] = held[v]
        PROVE  u = v
    BY <1>5, <2>2 DEF PoolInv, Dials
  <2> QED BY <2>1, <2>2 DEF Dials
<1>8. Settled'
  BY <1>1, <1>2 DEF PoolInv, Settled
<1>9. Pending'
  <2> SUFFICES ASSUME NEW k \in Keys, pool[k] # None, entries'[pool[k]].err = "context"
               PROVE  \E v \in Workers : at'[v] = "check" /\ held[v] = pool[k]
    BY DEF Pending
  <2>1. CASE pool[k] = e
    BY <1>3, <2>1
  <2>2. CASE pool[k] # e
    <3>1. pool[k] \in Ids
      BY MadeIds DEF VerifiedInv, Pooled
    <3>2. PICK v \in Workers : at[v] = "check" /\ held[v] = pool[k]
      BY <1>2, <2>2, <3>1 DEF PoolInv, Pending
    <3> QED BY <1>3, <2>2, <3>2
  <2> QED BY <2>1, <2>2
<1>10. InPool'
  BY <1>1, <1>2, <1>4 DEF PoolInv, InPool
<1> QED BY <1>6, <1>7, <1>8, <1>9, <1>10 DEF PoolInv

\* A worker goes on within its dial, or gives up before it asked.
LEMMA MovePool ==
    ASSUME VerifiedInv, PoolInv, NEW w \in Workers, NEW s,
           \/ at[w] \in Dialing /\ s \in Dialing
           \/ at[w] = "lookup" /\ s = "idle",
           at' = [at EXCEPT ![w] = s], UNCHANGED <<target, held, pool, entries>>
    PROVE  PoolInv'
<1>1. at'[w] = s /\ \A v \in Workers \ {w} : at'[v] = at[v]
  BY DEF VerifiedInv, Shape
<1>2. \A v \in Workers : at'[v] \in Dialing => at[v] \in Dialing
  BY <1>1 DEF Dialing
<1>3. \A v \in Workers : (at'[v] = "once" <=> at[v] = "once") /\ (at'[v] = "check" <=> at[v] = "check")
  BY <1>1 DEF Dialing
<1>4. Waits'
  BY <1>2, <1>3 DEF PoolInv, Waits
<1>5. Dials' /\ Settled' /\ InPool'
  BY <1>2 DEF PoolInv, Dials, Settled, InPool
<1>6. Pending'
  BY <1>3 DEF PoolInv, Pending
<1> QED BY <1>4, <1>5, <1>6 DEF PoolInv

\* The first worker at an entry dials it; one that finds it dialed goes on to judge it.
LEMMA OncePool ==
    ASSUME VerifiedInv, PoolInv, NEW w \in Workers, Once(w)
    PROVE  PoolInv'
<1> DEFINE e == held[w]
<1>1. e \in Ids /\ at[w] = "once" /\ entries[e].once # "running"
  BY HeldEntry DEF Once
<1>2. /\ UNCHANGED <<target, held, pool>>
      /\ \A i \in Ids : /\ entries'[i].key = entries[i].key /\ entries'[i].err = entries[i].err
                        /\ entries'[i].client = entries[i].client
      /\ \A i \in Ids \ {e} : entries'[i].once = entries[i].once
      /\ entries'[e].once = IF entries[e].once = "new" THEN "running" ELSE entries[e].once
  BY <1>1 DEF Once, VerifiedInv, Shape
<1>3. /\ at'[w] = IF entries[e].once = "done" THEN "check" ELSE IF UseBastion THEN "bastion" ELSE "connect"
      /\ \A v \in Workers \ {w} : at'[v] = at[v]
  BY DEF Once, VerifiedInv, Shape
<1>4. \A v \in Workers : at[v] \in Dialing \cup {"once"} => held[v] \in Ids
  BY HeldEntry DEF Dialing
<1>5. at'[w] \in Dialing => entries[e].once # "done"
  BY <1>3 DEF Dialing
<1>6. Waits'
  <2> SUFFICES ASSUME NEW v \in Workers, at'[v] \in Dialing \cup {"once"}, entries'[held[v]].once # "done"
               PROVE  pool[target[v]] = held[v]
    BY <1>2 DEF Waits
  <2>1. at[v] \in Dialing \cup {"once"}
    BY <1>1, <1>3
  <2>2. entries[held[v]].once # "done"
    BY <1>2, <1>4, <2>1
  <2> QED BY <2>1, <2>2 DEF PoolInv, Waits
<1>7. Dials'
  <2>1. ASSUME NEW v \in Workers, v # w, at'[v] \in Dialing
        PROVE  at[v] \in Dialing /\ held[v] # e /\ held[v] \in Ids /\ entries'[held[v]].once = "running"
    <3>1. at[v] \in Dialing /\ entries[held[v]].once = "running" /\ held[v] # e /\ held[v] \in Ids
      BY <1>1, <1>3, <1>4, <2>1 DEF PoolInv, Dials
    <3> QED BY <1>2, <3>1
  <2>2. at'[w] \in Dialing => entries'[e].once = "running"
    <3>1. SUFFICES ASSUME at'[w] \in Dialing PROVE entries'[e].once = "running"
      OBVIOUS
    <3>2. entries[e].once = "new" \/ entries[e].once = "running" \/ entries[e].once = "done"
      BY <1>1 DEF PoolInv, Settled
    <3> QED BY <1>1, <1>2, <1>5, <3>1, <3>2
  <2> QED BY <1>2, <2>1, <2>2 DEF PoolInv, Dials
<1>8. Settled'
  <2>1. entries'[e].once = "done" <=> entries[e].once = "done"
    BY <1>2
  <2> QED BY <1>1, <1>2, <2>1 DEF PoolInv, Settled
<1>9. Pending'
  <2>1. \A v \in Workers : at[v] = "check" => at'[v] = "check"
    BY <1>1, <1>3
  <2>2. \A k \in Keys : pool[k] # None => pool[k] \in Ids
    BY MadeIds DEF VerifiedInv, Pooled
  <2> QED BY <1>2, <2>1, <2>2 DEF PoolInv, Pending
<1>10. InPool'
  BY <1>2 DEF PoolInv, InPool
<1> QED BY <1>6, <1>7, <1>8, <1>9, <1>10 DEF PoolInv

\* A new entry goes into an empty slot, and nobody holds it yet but its maker.
LEMMA LookupPool ==
    ASSUME VerifiedInv, PoolInv, NEW w \in Workers, Lookup(w)
    PROVE  PoolInv'
<1> DEFINE new == <<w, round>>
           k   == target[w]
<1>1. new \in Ids /\ k \in Keys /\ new # None
  <2>1. round \in 1..Rounds /\ k \in Keys
    BY DEF Lookup, VerifiedInv, Shape, Held
  <2>2. new \in Ids
    BY <2>1 DEF Ids
  <2> QED BY <2>1, <2>2, ConnectionsAssumption
<1>2. /\ at[w] = "lookup" /\ target' = target
      /\ at'[w] = "once" /\ \A v \in Workers \ {w} : at'[v] = at[v]
      /\ held'[w] = pool'[k] /\ \A v \in Workers \ {w} : held'[v] = held[v]
  BY DEF Lookup, VerifiedInv, Shape
<1>3. /\ \A l \in Keys : pool[l] # new
      /\ \A v \in Workers : held[v] # new
  BY DEF Lookup, VerifiedInv, Unmade, BeforeEntry
<1>4. \A v \in Workers : at[v] \in Dialing \cup {"once"} => held[v] \in Ids
  BY HeldEntry DEF Dialing
<1>5. \A l \in Keys : pool[l] # None => pool[l] \in Ids
  BY MadeIds DEF VerifiedInv, Pooled
<1>6. CASE pool[k] # None
  <2>1. entries' = entries /\ pool' = pool
    BY <1>6 DEF Lookup
  <2>2. \A v \in Workers : at'[v] \in Dialing => v # w /\ at[v] \in Dialing
    BY <1>2 DEF Dialing
  <2>3. Waits'
    BY <1>2, <2>1, <2>2 DEF PoolInv, Waits
  <2>4. Dials'
    BY <1>2, <2>1, <2>2 DEF PoolInv, Dials
  <2>5. Pending'
    BY <1>2, <2>1 DEF PoolInv, Pending
  <2> QED BY <2>1, <2>3, <2>4, <2>5 DEF PoolInv, Settled, InPool
<1>7. CASE pool[k] = None
  <2>1. entries' = [entries EXCEPT ![new] = Fresh(k)] /\ pool' = [pool EXCEPT ![k] = new]
    BY <1>7 DEF Lookup
  <2>2. pool'[k] = new /\ \A l \in Keys \ {k} : pool'[l] = pool[l]
    BY <1>1, <2>1 DEF VerifiedInv, Shape
  <2>3. entries'[new] = Fresh(k) /\ \A i \in Ids \ {new} : entries'[i] = entries[i]
    BY <1>1, <2>1 DEF VerifiedInv, Shape
  <2>4. /\ Fresh(k).key = k /\ Fresh(k).once = "new" /\ Fresh(k).err = "none"
        /\ Fresh(k).client = "none"
    BY DEF Fresh
  <2> HIDE DEF new
  <2>5. ASSUME NEW v \in Workers, v # w, at'[v] \in Dialing \cup {"once"}
        PROVE  /\ at[v] = at'[v] /\ held'[v] = held[v] /\ held[v] \in Ids
               /\ entries'[held[v]] = entries[held[v]]
    BY <1>2, <1>3, <1>4, <2>3, <2>5
  <2>6. Waits'
    <3> SUFFICES ASSUME NEW v \in Workers, at'[v] \in Dialing \cup {"once"},
                        entries'[held'[v]].once # "done"
                 PROVE  pool'[target[v]] = held'[v]
      BY <1>2 DEF Waits
    <3>1. CASE v = w
      BY <1>2, <3>1
    <3>2. CASE v # w
      <4>1. pool[target[v]] = held[v] /\ held[v] # None /\ target[v] \in Keys
        BY <2>5, <3>2, HeldEntry DEF PoolInv, Waits, Dialing
      <4> QED BY <1>7, <2>2, <2>5, <3>2, <4>1
    <3> QED BY <3>1, <3>2
  <2>7. Dials'
    <3>1. \A v \in Workers : at'[v] \in Dialing => v # w
      BY <1>2 DEF Dialing
    <3>2. ASSUME NEW v \in Workers, at'[v] \in Dialing
          PROVE  at[v] \in Dialing /\ held'[v] = held[v] /\ entries'[held'[v]].once = "running"
      <4>1. at[v] = at'[v] /\ held'[v] = held[v] /\ entries'[held[v]] = entries[held[v]]
        BY <2>5, <3>1, <3>2
      <4> QED BY <3>2, <4>1 DEF PoolInv, Dials
    <3> QED BY <3>2 DEF PoolInv, Dials
  <2>8. Settled'
    BY <1>1, <2>3, <2>4 DEF PoolInv, Settled
  <2>9. Pending'
    <3>1. \A v \in Workers : at[v] = "check" => v # w
      BY <1>2
    <3> QED BY <1>2, <1>3, <1>5, <2>2, <2>3, <2>4, <3>1 DEF PoolInv, Pending
  <2>10. InPool'
    <3> SUFFICES ASSUME NEW i \in Ids, entries'[i].client = "open" PROVE pool'[entries'[i].key] = i
      BY DEF InPool
    <3>1. i # new /\ entries'[i] = entries[i]
      BY <2>3, <2>4
    <3>2. pool[entries[i].key] = i /\ i # None
      BY <3>1, ConnectionsAssumption DEF PoolInv, InPool
    <3>3. entries[i].key # k
      BY <1>7, <3>2
    <3>4. DOMAIN pool = Keys /\ pool' = [pool EXCEPT ![k] = new]
      BY <2>1 DEF VerifiedInv, Shape
    <3> HIDE DEF k
    <3>5. entries[i].key \in Keys => pool'[entries[i].key] = pool[entries[i].key]
      BY <3>3, <3>4
    <3> QED BY <3>1, <3>2, <3>5 DEF PoolInv, Settled
  <2> QED BY <2>6, <2>7, <2>8, <2>9, <2>10 DEF PoolInv
<1> QED BY <1>6, <1>7

\* The worker that judges an aborted dial takes its entry out of the pool.
LEMMA CheckPool ==
    ASSUME VerifiedInv, PoolInv, NEW w \in Workers, Check(w)
    PROVE  PoolInv'
<1> DEFINE e == held[w]
           k == target[w]
<1>1. e \in Ids /\ e # None /\ entries[e].key = k /\ k \in Keys /\ at[w] = "check"
  BY HeldEntry DEF Check
<1>2. UNCHANGED <<target, held, entries>> /\ at'[w] = "idle"
      /\ \A v \in Workers \ {w} : at'[v] = at[v]
  BY DEF Check, VerifiedInv, Shape
<1>3. \/ pool' = pool /\ (entries[e].err = "context" => pool[k] # e)
      \/ /\ entries[e].err = "context" /\ pool[k] = e
         /\ pool' = [pool EXCEPT ![k] = None]
  BY DEF Check
<1>4. /\ \A l \in Keys \ {k} : pool'[l] = pool[l]
      /\ pool'[k] = pool[k] \/ (pool'[k] = None /\ pool[k] = e /\ entries[e].err = "context")
  BY <1>1, <1>3 DEF VerifiedInv, Shape
<1>5. \A v \in Workers : at'[v] \in Dialing \cup {"once"} => v # w /\ at[v] = at'[v]
  BY <1>2 DEF Dialing
<1>6. Waits'
  <2> SUFFICES ASSUME NEW v \in Workers, at'[v] \in Dialing \cup {"once"}, entries[held[v]].once # "done"
               PROVE  pool'[target[v]] = held[v]
    BY <1>2 DEF Waits
  <2>1. pool[target[v]] = held[v] /\ held[v] \in Ids /\ target[v] \in Keys
    BY <1>5, HeldEntry DEF PoolInv, Waits, Dialing
  <2>2. entries[held[v]].err = "none"
    BY <2>1 DEF PoolInv, Settled
  <2> QED BY <1>4, <2>1, <2>2
<1>7. Dials' /\ Settled'
  BY <1>2, <1>5 DEF PoolInv, Dials, Settled
<1>8. Pending'
  <2> SUFFICES ASSUME NEW l \in Keys, pool'[l] # None, entries[pool'[l]].err = "context"
               PROVE  \E v \in Workers : at'[v] = "check" /\ held[v] = pool'[l]
    BY <1>2 DEF Pending
  <2>1. pool'[l] = pool[l]
    BY <1>4
  <2>2. PICK v \in Workers : at[v] = "check" /\ held[v] = pool[l]
    BY <2>1 DEF PoolInv, Pending
  <2>3. v # w
    <3>1. SUFFICES ASSUME v = w PROVE FALSE
      OBVIOUS
    <3>2. l = k
      BY <1>1, <2>1, <2>2, <3>1 DEF VerifiedInv, Pooled
    <3> QED BY <1>1, <1>3, <2>1, <2>2, <3>1, <3>2 DEF VerifiedInv, Shape
  <2> QED BY <1>2, <2>1, <2>2, <2>3
<1>9. InPool'
  <2> SUFFICES ASSUME NEW i \in Ids, entries[i].client = "open" PROVE pool'[entries[i].key] = i
    BY <1>2 DEF InPool
  <2>1. pool[entries[i].key] = i /\ entries[i].err # "context"
    BY DEF PoolInv, InPool, Settled
  <2>2. CASE pool' = pool
    BY <2>1, <2>2
  <2>3. CASE pool' = [pool EXCEPT ![k] = None] /\ pool[k] = e /\ entries[e].err = "context"
    <3>1. entries[i].key # k
      BY <2>1, <2>3
    <3> HIDE DEF k
    <3> QED BY <2>1, <2>3, <3>1 DEF VerifiedInv, Shape, PoolInv, Settled
  <2> QED BY <1>3, <2>2, <2>3
<1> QED BY <1>6, <1>7, <1>8, <1>9 DEF PoolInv

\* A round starts on what the last one left, and connections end where they are.
LEMMA EndsPool ==
    ASSUME VerifiedInv, PoolInv, StartRound \/ CancelRound \/ ClientEnds \/ JumpEnds \/ CloseAll
    PROVE  PoolInv'
<1>1. CASE StartRound \/ CancelRound
  <2>1. pool' = pool /\ entries' = entries
    BY <1>1 DEF StartRound, CancelRound
  <2>2. StartRound \/ (at' = at /\ held' = held /\ target' = target)
    BY <1>1 DEF CancelRound, local
  <2>3. StartRound => /\ \A w \in Workers : at'[w] \notin Dialing \cup {"once"}
                      /\ \A w \in Workers : at[w] # "check"
    BY DEF StartRound, Quiet, Dialing
  <2>4. Waits' /\ Dials' /\ Pending'
    BY <2>1, <2>2, <2>3 DEF PoolInv, Waits, Dials, Pending
  <2> QED BY <2>1, <2>4 DEF PoolInv, Settled, InPool
<1>2. ASSUME UNCHANGED <<at, held, target, pool>>,
             \A i \in Ids : /\ entries'[i].key = entries[i].key /\ entries'[i].once = entries[i].once
                            /\ entries'[i].err = entries[i].err
                            /\ entries'[i].client = "open" => entries[i].client = "open"
      PROVE  PoolInv'
  <2>1. \A v \in Workers : at[v] \in Dialing \cup {"once"} => held[v] \in Ids
    BY HeldEntry DEF Dialing
  <2>2. \A k \in Keys : pool[k] # None => pool[k] \in Ids
    BY MadeIds DEF VerifiedInv, Pooled
  <2>3. Waits' /\ Dials'
    BY <1>2, <2>1 DEF PoolInv, Waits, Dials
  <2>4. Pending'
    BY <1>2, <2>2 DEF PoolInv, Pending
  <2>5. Settled' /\ InPool'
    BY <1>2 DEF PoolInv, Settled, InPool
  <2> QED BY <2>3, <2>4, <2>5 DEF PoolInv
<1>3. CASE ClientEnds
  BY <1>2, <1>3 DEF ClientEnds, End, local, VerifiedInv, Shape
<1>4. CASE JumpEnds
  BY <1>2, <1>4 DEF JumpEnds, End, local, VerifiedInv, Shape
<1>5. CASE CloseAll
  <2>1. UNCHANGED <<at, held, target>> /\ \A w \in Workers : at[w] = "idle"
    BY <1>5 DEF CloseAll, local, Quiet
  <2>2. \A k \in Keys : pool'[k] = None
    BY <1>5 DEF CloseAll
  <2>3. \A i \in Ids : /\ entries'[i].key = entries[i].key /\ entries'[i].once = entries[i].once
                       /\ entries'[i].err = entries[i].err
                       /\ entries'[i].client = "open" => entries[i].client = "open"
                       /\ (\E k \in Keys : pool[k] = i) => entries'[i].client # "open"
    BY <1>5 DEF CloseAll, End, VerifiedInv, Shape
  <2>4. \A i \in Ids : entries'[i].client # "open"
    BY <2>3 DEF PoolInv, InPool, Settled
  <2>5. Waits' /\ Dials' /\ Pending'
    BY <2>1, <2>2 DEF Waits, Dials, Pending, Dialing
  <2>6. Settled' /\ InPool'
    BY <2>3, <2>4 DEF PoolInv, Settled, InPool
  <2> QED BY <2>5, <2>6 DEF PoolInv
<1> QED BY <1>1, <1>3, <1>4, <1>5

LEMMA DialPool ==
    ASSUME VerifiedInv, PoolInv, NEW w \in Workers, TakeBastion(w) \/ Jump(w) \/ Connect(w) \/ Handshake(w)
    PROVE  PoolInv'
<1>1. at[w] \in Dialing /\ UNCHANGED <<target, held, pool>>
  BY DEF TakeBastion, Jump, Connect, Handshake, Dialing
<1>2. \/ \E client, err : EndDial(w, client, err) /\ (client = "open" => err = "none")
      \/ \E s \in Dialing : at' = [at EXCEPT ![w] = s] /\ entries' = entries
  <2>1. \A err : FailDial(w, err) => EndDial(w, "none", err)
    BY DEF FailDial
  <2>2. CASE TakeBastion(w)
    BY <2>1, <2>2 DEF TakeBastion, Dialing
  <2>3. CASE Jump(w)
    BY <2>1, <2>3 DEF Jump, Jumped, Dialing
  <2>4. CASE Connect(w)
    BY <2>1, <2>4 DEF Connect, Dialing
  <2>5. CASE Handshake(w)
    BY <2>1, <2>5 DEF Handshake
  <2> QED BY <2>2, <2>3, <2>4, <2>5
<1> QED BY <1>1, <1>2, EndDialPool, MovePool

LEMMA StepPool == VerifiedInv /\ PoolInv /\ [Next]_vars => PoolInv'
<1> SUFFICES ASSUME VerifiedInv, PoolInv, [Next]_vars PROVE PoolInv'
  OBVIOUS
<1>1. CASE UNCHANGED vars
  BY <1>1 DEF vars, local, PoolInv, Waits, Dials, Settled, Pending, InPool
<1>2. ASSUME NEW w \in Workers, SkipTarget(w) PROVE PoolInv'
  BY <1>2, MovePool DEF SkipTarget
<1> QED BY <1>1, <1>2, EndsPool, DialPool, OncePool, LookupPool, CheckPool DEF Next, Work

-----------------------------------------------------------------------------
\* The slot of a mode is filled, or left without a client, when it holds no open one.
LEMMA HopKeeps ==
    ASSUME VerifiedInv, HopInv, NEW w \in Workers, at[w] = "jump", NEW b, b.dialed,
           hop' = [hop EXCEPT ![HopMode(w)] = b],
           \/ jumps' = jumps /\ b.client = None
           \/ /\ b.client = <<w, round>>
              /\ jumps' = [jumps EXCEPT ![<<w, round>>] = [mode |-> ModeOf[target[w]], client |-> "open"]],
           mu' = None, target' = target, at'[w] # "jump",
           \A v \in Workers \ {w} : at'[v] = at[v]
    PROVE  HopInv'
<1> DEFINE m == HopMode(w)
           new == <<w, round>>
<1>1. m \in Modes /\ m = ModeOf[target[w]] /\ new \in Ids /\ new # None
  <2>1. m \in Modes /\ m = ModeOf[target[w]]
    BY ConnectionsAssumption DEF HopMode, VerifiedInv, Shape
  <2>2. round \in 1..Rounds
    BY DEF VerifiedInv, Shape, Held
  <2> QED BY <2>1, <2>2, ConnectionsAssumption DEF Ids
<1>2. mu = w /\ ~Cached(hop[m])
  BY DEF HopInv, Mutex
<1>3. \A v \in Workers : at'[v] # "jump"
  BY <1>2 DEF HopInv, Mutex
<1>4. hop'[m] = b /\ \A n \in Modes \ {m} : hop'[n] = hop[n]
  BY <1>1 DEF VerifiedInv, Shape
<1>5. \A i \in Ids \ {new} : jumps'[i] = jumps[i]
  BY <1>1 DEF VerifiedInv, Shape
<1>6. \/ jumps'[new] = jumps[new]
      \/ b.client = new /\ jumps'[new].mode = m
  BY <1>1 DEF VerifiedInv, Shape
<1>7. Slots'
  BY <1>4 DEF HopInv, Slots
<1>8. \A i \in Ids : jumps[i].client = "open" => jumps[i].mode # m
  <2> SUFFICES ASSUME NEW i \in Ids, jumps[i].client = "open", jumps[i].mode = m PROVE FALSE
    OBVIOUS
  <2>1. hop[m].client = i /\ i # None
    BY ConnectionsAssumption DEF HopInv, InHop
  <2>2. hop[m].dialed
    BY <1>1, <2>1 DEF HopInv, Slots
  <2> QED BY <1>2, <2>1, <2>2 DEF Cached
<1>9. InHop'
  <2> HIDE DEF m, new
  <2> SUFFICES ASSUME NEW i \in Ids
               PROVE  /\ jumps'[i].mode \in Modes
                      /\ jumps'[i].client = "open" => hop'[jumps'[i].mode].client = i
    BY DEF InHop
  <2>1. CASE jumps'[i] = jumps[i]
    <3>1. jumps[i].mode \in Modes /\ (jumps[i].client = "open" => hop[jumps[i].mode].client = i)
      BY DEF HopInv, InHop
    <3> QED BY <1>4, <1>8, <2>1, <3>1
  <2>2. CASE i = new /\ b.client = new /\ jumps'[new].mode = m
    BY <1>1, <1>4, <2>2
  <2> QED BY <1>5, <1>6, <2>1, <2>2
<1> QED BY <1>3, <1>7, <1>9 DEF HopInv, Mutex

LEMMA StepHop == VerifiedInv /\ HopInv /\ [Next]_vars => HopInv'
<1> SUFFICES ASSUME VerifiedInv, HopInv, [Next]_vars PROVE HopInv'
  OBVIOUS
<1>1. ASSUME UNCHANGED <<hop, target>>, \A w \in Workers : at'[w] = "jump" => at[w] = "jump",
             mu' = mu \/ \A w \in Workers : at'[w] # "jump",
             DOMAIN jumps = Ids,
             \A i \in Ids : /\ jumps'[i].mode = jumps[i].mode
                            /\ jumps'[i].client = "open" => jumps[i].client = "open"
      PROVE  HopInv'
  <2>1. ASSUME NEW w \in Workers, at[w] = "jump" PROVE ~Cached(hop[HopMode(w)])'
    <3>1. HopMode(w) \in Modes /\ HopMode(w)' = HopMode(w)
      BY <1>1, ConnectionsAssumption DEF HopMode, VerifiedInv, Shape
    <3>2. hop[HopMode(w)].client # None => hop[HopMode(w)].client \in Ids
      BY <3>1, MadeIds DEF VerifiedInv, Hopped
    <3>3. ~Cached(hop[HopMode(w)])
      BY <2>1 DEF HopInv, Mutex
    <3> HIDE DEF HopMode
    <3> QED BY <1>1, <3>1, <3>2, <3>3 DEF Cached
  <2>2. Mutex'
    BY <1>1, <2>1 DEF HopInv, Mutex
  <2>3. Slots' /\ InHop'
    BY <1>1 DEF HopInv, Slots, InHop
  <2> QED BY <2>2, <2>3 DEF HopInv
<1> USE DEF VerifiedInv, Shape
<1>2. CASE UNCHANGED vars
  BY <1>1, <1>2 DEF vars, local
<1>3. CASE StartRound \/ CancelRound \/ ClientEnds
  <2>1. StartRound => \A w \in Workers : at[w] = "idle" /\ at'[w] # "jump"
    BY DEF StartRound, Quiet
  <2>2. CASE StartRound
    <3>1. UNCHANGED <<hop, jumps, mu>>
      BY <2>2 DEF StartRound
    <3> QED BY <2>1, <2>2, <3>1 DEF HopInv, Mutex, Slots, InHop
  <2>3. CASE ~StartRound
    <3>1. UNCHANGED <<hop, target, jumps, mu, at>>
      BY <1>3, <2>3 DEF CancelRound, ClientEnds, local
    <3> QED BY <1>1, <3>1
  <2> QED BY <2>2, <2>3
<1>4. CASE JumpEnds
  BY <1>1, <1>4 DEF JumpEnds, EndJump, local
<1>5. CASE CloseAll
  <2>1. \A w \in Workers : at'[w] # "jump"
    BY <1>5 DEF CloseAll, Quiet, local
  <2>2. \A m \in Modes : ~hop'[m].dialed /\ hop'[m].client = None
    BY <1>5 DEF CloseAll, Undialed
  <2>3. \A i \in Ids : jumps'[i].mode = jumps[i].mode /\ jumps'[i].client # "open"
    <3> SUFFICES ASSUME NEW i \in Ids
                 PROVE  jumps'[i].mode = jumps[i].mode /\ jumps'[i].client # "open"
      OBVIOUS
    <3>1. jumps[i].client = "open" => \E m \in Modes : hop[m].client = i
      BY DEF HopInv, InHop
    <3>2. jumps'[i] = IF \E m \in Modes : hop[m].client = i THEN EndJump(i) ELSE jumps[i]
      BY <1>5 DEF CloseAll
    <3>3. EndJump(i).mode = jumps[i].mode /\ EndJump(i).client # "open"
      BY DEF EndJump
    <3> QED BY <3>1, <3>2, <3>3
  <2> QED BY <2>1, <2>2, <2>3 DEF HopInv, Mutex, Slots, InHop
<1>6. ASSUME NEW w \in Workers,
             SkipTarget(w) \/ Lookup(w) \/ Once(w) \/ Connect(w) \/ Handshake(w) \/ Check(w)
      PROVE  HopInv'
  <2>1. UNCHANGED <<hop, target, jumps, mu>> /\ DOMAIN jumps = Ids
    BY <1>6 DEF SkipTarget, Lookup, Once, Connect, Handshake, Check
  <2>2. \A v \in Workers : at'[v] = "jump" => at[v] = "jump"
    BY <1>6 DEF SkipTarget, Lookup, Once, Connect, Handshake, Check, FailDial, EndDial
  <2> QED BY <1>1, <2>1, <2>2
<1>7. ASSUME NEW w \in Workers, TakeBastion(w) PROVE HopInv'
  <2>1. CASE ~Cached(hop[HopMode(w)])
    <3>1. mu = None /\ mu' = w /\ UNCHANGED <<hop, target, jumps>> /\ at' = [at EXCEPT ![w] = "jump"]
      BY <1>7, <2>1 DEF TakeBastion
    <3>2. \A v \in Workers : at[v] # "jump"
      BY <3>1, ConnectionsAssumption DEF HopInv, Mutex
    <3>3. Mutex'
      BY <2>1, <3>1, <3>2 DEF Mutex, Cached, HopMode
    <3> QED BY <3>1, <3>3 DEF HopInv, Slots, InHop
  <2>2. CASE Cached(hop[HopMode(w)])
    <3>1. UNCHANGED <<hop, target, jumps, mu>> /\ DOMAIN jumps = Ids
      BY <1>7, <2>2 DEF TakeBastion
    <3>2. \A v \in Workers : at'[v] = "jump" => at[v] = "jump"
      BY <1>7, <2>2 DEF TakeBastion, FailDial, EndDial
    <3> QED BY <1>1, <3>1, <3>2
  <2> QED BY <2>1, <2>2
<1>8. ASSUME NEW w \in Workers, Jump(w) PROVE HopInv'
  <2>1. at[w] = "jump" /\ mu' = None /\ target' = target
    BY <1>8 DEF Jump
  <2>2. CASE Jumped(w)
    <3>1. at' = [at EXCEPT ![w] = "connect"]
      BY <2>2 DEF Jumped
    <3>2. at'[w] # "jump" /\ \A v \in Workers \ {w} : at'[v] = at[v]
      BY <3>1
    <3> DEFINE b == [dialed |-> TRUE, client |-> <<w, round>>, err |-> "none"]
    <3>3. b.dialed /\ b.client = <<w, round>>
      OBVIOUS
    <3>4. /\ hop' = [hop EXCEPT ![HopMode(w)] = b]
          /\ jumps' = [jumps EXCEPT ![<<w, round>>] = [mode |-> ModeOf[target[w]], client |-> "open"]]
      BY <2>2 DEF Jumped
    <3> HIDE DEF b
    <3> QED BY <2>1, <3>2, <3>3, <3>4, HopKeeps
  <2>3. CASE hop' = [hop EXCEPT ![HopMode(w)] = [dialed |-> TRUE, client |-> None, err |-> "refused"]]
             /\ FailDial(w, "refused") /\ UNCHANGED <<jumps, via>>
    <3>1. at'[w] # "jump" /\ \A v \in Workers \ {w} : at'[v] = at[v]
      BY <2>3 DEF FailDial, EndDial
    <3> DEFINE b == [dialed |-> TRUE, client |-> None, err |-> "refused"]
    <3>2. b.dialed /\ b.client = None
      OBVIOUS
    <3>3. hop' = [hop EXCEPT ![HopMode(w)] = b] /\ jumps' = jumps
      BY <2>3
    <3> HIDE DEF b
    <3> QED BY <2>1, <3>1, <3>2, <3>3, HopKeeps
  <2>4. CASE FailDial(w, "context") /\ UNCHANGED <<jumps, hop, via>>
    <3>1. at'[w] # "jump" /\ \A v \in Workers \ {w} : at'[v] = at[v]
      BY <2>4 DEF FailDial, EndDial
    <3>2. \A v \in Workers : at'[v] # "jump"
      BY <2>1, <3>1 DEF HopInv, Mutex
    <3> QED BY <1>1, <2>1, <2>4, <3>2
  <2> QED BY <1>8, <2>2, <2>3, <2>4 DEF Jump
<1> QED BY <1>2, <1>3, <1>4, <1>5, <1>6, <1>7, <1>8 DEF Next, Work

LEMMA InitLeak == Init => LeakInv
<1> SUFFICES ASSUME Init PROVE LeakInv
  OBVIOUS
<1>1. \A i \in Ids : entries[i] = Fresh(CHOOSE k \in Keys : TRUE)
  BY DEF Init
<1>2. \A i \in Ids : (CHOOSE k \in Keys : TRUE) \in Keys
  BY DEF Init, Ids
<1>3. Settled /\ InPool
  <2>1. \A i \in Ids : /\ entries[i].key \in Keys /\ entries[i].once = "new"
                       /\ entries[i].err = "none" /\ entries[i].client = "none"
    <3> DEFINE any == CHOOSE k \in Keys : TRUE
    <3>1. \A i \in Ids : any \in Keys /\ entries[i] = Fresh(any)
      BY <1>1, <1>2
    <3>2. /\ Fresh(any).key = any /\ Fresh(any).once = "new" /\ Fresh(any).err = "none"
          /\ Fresh(any).client = "none"
      BY DEF Fresh
    <3> HIDE DEF any
    <3> QED BY <3>1, <3>2
  <2> QED BY <2>1 DEF Settled, InPool
<1>4. Waits /\ Dials /\ Pending
  BY DEF Init, Waits, Dials, Pending, Dialing
<1>5. HopInv
  BY DEF Init, HopInv, Mutex, Slots, InHop, Undialed, Modes
<1> QED BY <1>3, <1>4, <1>5, InitVerified DEF LeakInv, PoolInv

LEMMA StepLeak == LeakInv /\ [Next]_vars => LeakInv'
BY StepKeeps, StepPool, StepHop DEF LeakInv

\* Every open connection is where Close will find it, for any workers, keys, modes and
\* rounds, however dials, waits, aborts and the ends of connections interleave
\* (cluster.go:172-209, client.go:154-174, bastion.go:57-84).
THEOREM NothingLeaksEver == Spec => []NothingLeaks
<1>1. LeakInv => NothingLeaks
  BY DEF LeakInv, PoolInv, HopInv, InPool, InHop, NothingLeaks
<1> QED BY <1>1, InitLeak, StepLeak, PTL DEF Spec

\* Between two fan-outs no pooled entry holds the error of a dial that was aborted, so
\* the next one dials again (cluster.go:199-209).
THEOREM NoAbortInherited == Spec => []AbortsForgotten
<1>1. LeakInv => AbortsForgotten
  BY DEF LeakInv, PoolInv, Pending, AbortsForgotten, Quiet
<1> QED BY <1>1, InitLeak, StepLeak, PTL DEF Spec
=============================================================================
