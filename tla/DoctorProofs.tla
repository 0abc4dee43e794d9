----------------------------- MODULE DoctorProofs -----------------------------
(***************************************************************************)
(* Proofs about Doctor: what its report says and does not say, for any     *)
(* number of lasting faults, set-ups and mishaps.                          *)
(***************************************************************************)
EXTENDS Doctor, FiniteSetTheorems, TLAPS

-----------------------------------------------------------------------------
(* The parts of the device, and which of them work.                        *)

Kept(inPlace) == {p \in inPlace : \A need \in Needs : need[1] = p => need[2] \in inPlace}

\* What works of a set of parts is found in NeedsDepth rounds, each leaving out
\* what lacks something it needs.
LEMMA WorkingIs ==
    ASSUME NEW S
    PROVE  Working(S) = Kept(Kept(Kept(Kept(Kept(Kept(S))))))
<1> DEFINE Rounds(keep) == [n \in 0 .. 6 |->
              IF n = 0 THEN S
              ELSE {p \in keep[n - 1] : \A need \in Needs : need[1] = p => need[2] \in keep[n - 1]}]
           S1 == Kept(S)
           S2 == Kept(S1)
           S3 == Kept(S2)
           S4 == Kept(S3)
           S5 == Kept(S4)
           S6 == Kept(S5)
           rounds == [n \in 0 .. 6 |-> CASE n = 0 -> S [] n = 1 -> S1 [] n = 2 -> S2 [] n = 3 -> S3
                                          [] n = 4 -> S4 [] n = 5 -> S5 [] n = 6 -> S6]
           keep == CHOOSE f : f = Rounds(f)
<1>1. Working(S) = keep[6]
  BY DEF Working, NeedsDepth
<1> HIDE DEF S1, S2, S3, S4, S5, S6
<1>2. /\ rounds[0] = S /\ rounds[1] = S1 /\ rounds[2] = S2 /\ rounds[3] = S3
      /\ rounds[4] = S4 /\ rounds[5] = S5 /\ rounds[6] = S6
  OBVIOUS
<1> HIDE DEF rounds
<1>3. \A n \in 0 .. 6 : rounds[n] = IF n = 0 THEN S ELSE Kept(rounds[n - 1])
  BY <1>2 DEF S1, S2, S3, S4, S5, S6
<1>4. rounds = Rounds(rounds)
  BY <1>3 DEF rounds, Kept
<1>5. keep = Rounds(keep)
  BY <1>4
<1> HIDE DEF keep
<1>6. keep[0] = S /\ \A n \in 1 .. 6 : keep[n] = Kept(keep[n - 1])
  BY <1>5 DEF Kept
<1>7. keep[1] = S1 /\ keep[2] = S2 /\ keep[3] = S3 /\ keep[4] = S4 /\ keep[5] = S5 /\ keep[6] = S6
  BY <1>6 DEF S1, S2, S3, S4, S5, S6
<1> QED
  BY <1>1, <1>7 DEF S1, S2, S3, S4, S5, S6

\* Only parts that are in place work; those that need nothing else all do.
LEMMA WorkingKeeps ==
    ASSUME NEW S
    PROVE  /\ Working(S) \subseteq S
           /\ \A D : D \subseteq S /\ (\A need \in Needs : need[1] \in D => need[2] \in D)
                => D \subseteq Working(S)
<1>1. \A T : Kept(T) \subseteq T
  BY DEF Kept
<1>2. \A T, D : D \subseteq T /\ (\A need \in Needs : need[1] \in D => need[2] \in D) => D \subseteq Kept(T)
  BY DEF Kept
<1>3. Working(S) \subseteq S
  BY <1>1, WorkingIs
<1>4. ASSUME NEW D, D \subseteq S, \A need \in Needs : need[1] \in D => need[2] \in D
      PROVE  D \subseteq Working(S)
  BY <1>2, <1>4, WorkingIs
<1> QED
  BY <1>3, <1>4

-----------------------------------------------------------------------------
(* What holds of every run.                                                *)

\* The records that a run carries along keep their fields.
FieldsInv ==
    /\ luck = [mishaps |-> luck.mishaps, slipped |-> luck.slipped, calm |-> luck.calm]
    /\ held = [age |-> held.age, named |-> held.named, ps |-> held.ps, conf |-> held.conf,
               plan |-> held.plan, reached |-> held.reached, headline |-> held.headline]
    /\ listing = [todo |-> listing.todo, seen |-> listing.seen, lost |-> listing.lost,
                  passed |-> listing.passed, tunnel |-> listing.tunnel, direct |-> listing.direct]
    /\ share = [done |-> share.done, litter |-> share.litter]

\* What works is part of what a full boot brings up.
DeviceInv == full = Full(faults, options) /\ up \subseteq full

RunInv == FieldsInv /\ DeviceInv

Sweep == Config \/ SshLogin \/ Deployed \/ Compatibility \/ Smbd \/ MdnsBinary \/ MdnsFamilies
         \/ MdnsSockets \/ Bonjour

\* A step that only looks changes neither what it found nor the listing.
LEMMA SweepKeeps ==
    ASSUME Sweep
    PROVE  /\ UNCHANGED <<world, up, held, listing, share>>
           /\ Steady \/ Slip
<1> USE DEF Nothing, Goes, Asks, Check, Stop, Lost, MdnsBroken, Adds
<1>1. CASE Config \/ SshLogin \/ Deployed \/ Compatibility
  BY <1>1 DEF Config, SshLogin, Deployed, Compatibility
<1>2. CASE Smbd
  BY <1>2 DEF Smbd
<1>3. CASE MdnsBinary
  BY <1>3 DEF MdnsBinary
<1>4. CASE MdnsFamilies \/ MdnsSockets
  BY <1>4 DEF MdnsFamilies, MdnsSockets
<1>5. CASE Bonjour
  BY <1>5 DEF Bonjour
<1> QED
  BY <1>1, <1>2, <1>3, <1>4, <1>5 DEF Sweep

Notes == StartupAge \/ Naming \/ MdnsProcesses \/ Rsync \/ ActiveConf \/ NetworkPlan \/ DirectPort \/ Grace

\* A step that notes something down changes one field of what is held.
LEMMA NotesKeep ==
    ASSUME Notes
    PROVE  /\ UNCHANGED <<world, up, listing, share>>
           /\ Steady \/ Slip
           /\ \/ UNCHANGED held
              \/ \E x : \/ held' = [held EXCEPT !.age = x] \/ held' = [held EXCEPT !.named = x]
                        \/ held' = [held EXCEPT !.ps = x] \/ held' = [held EXCEPT !.conf = x]
                        \/ held' = [held EXCEPT !.plan = x] \/ held' = [held EXCEPT !.reached = x]
                        \/ held' = [held EXCEPT !.headline = x]
<1> USE DEF Nothing, Holds, Goes, Asks, Check, Lost, MdnsBroken, Adds
<1>1. CASE StartupAge
  BY <1>1 DEF StartupAge
<1>2. CASE Naming
  BY <1>2 DEF Naming
<1>3. CASE MdnsProcesses
  BY <1>3 DEF MdnsProcesses
<1>4. CASE Rsync
  BY <1>4 DEF Rsync
<1>5. CASE ActiveConf
  BY <1>5 DEF ActiveConf
<1>6. CASE NetworkPlan
  BY <1>6 DEF NetworkPlan
<1>7. CASE DirectPort
  BY <1>7 DEF DirectPort
<1>8. CASE Grace
  BY <1>8 DEF Grace
<1> QED
  BY <1>1, <1>2, <1>3, <1>4, <1>5, <1>6, <1>7, <1>8 DEF Notes

Listings == BeginSmb \/ List \/ NoneListed \/ TunnelLost \/ SelectShare

\* What a listing becomes when one of its fields is set.
LEMMA Relisted ==
    ASSUME NEW l, NEW x,
           l = [todo |-> l.todo, seen |-> l.seen, lost |-> l.lost,
                passed |-> l.passed, tunnel |-> l.tunnel, direct |-> l.direct]
    PROVE  /\ [l EXCEPT !.todo = x] = [todo |-> x, seen |-> l.seen, lost |-> l.lost,
                                       passed |-> l.passed, tunnel |-> l.tunnel, direct |-> l.direct]
           /\ [l EXCEPT !.seen = x] = [todo |-> l.todo, seen |-> x, lost |-> l.lost,
                                       passed |-> l.passed, tunnel |-> l.tunnel, direct |-> l.direct]
           /\ [l EXCEPT !.lost = x] = [todo |-> l.todo, seen |-> l.seen, lost |-> x,
                                       passed |-> l.passed, tunnel |-> l.tunnel, direct |-> l.direct]
           /\ [l EXCEPT !.passed = x] = [todo |-> l.todo, seen |-> l.seen, lost |-> l.lost,
                                         passed |-> x, tunnel |-> l.tunnel, direct |-> l.direct]
  OBVIOUS

\* A group that is listed passes, is tried again or is lost.
LEMMA ListGroupDoes ==
    ASSUME FieldsInv, NEW outcomes, ListGroup(outcomes)
    PROVE  /\ UNCHANGED <<pc, world, up, fails, held, share>>
           /\ listing' = [todo |-> listing'.todo, seen |-> listing'.seen, lost |-> listing'.lost,
                          passed |-> listing'.passed, tunnel |-> listing'.tunnel, direct |-> listing'.direct]
           /\ listing'.tunnel = listing.tunnel
           /\ \/ /\ "pass" \in outcomes /\ listing'.todo = Tail(listing.todo)
                 /\ listing'.seen = {} /\ listing'.lost = listing.lost
                 /\ listing'.passed = listing.passed \union {Head(listing.todo)}
              \/ /\ "pass" \notin outcomes /\ listing'.todo = listing.todo
                 /\ listing.seen \union outcomes \subseteq Retryable
                 /\ listing'.seen = listing.seen \union outcomes /\ listing'.lost = listing.lost
                 /\ listing'.passed = listing.passed
              \/ /\ "pass" \notin outcomes /\ listing'.todo = Tail(listing.todo)
                 /\ listing'.seen = {} /\ listing'.lost = listing.lost \union (listing.seen \union outcomes)
                 /\ listing'.passed = listing.passed
<1> DEFINE group == Head(listing.todo)
           seen == listing.seen \union outcomes
           rest == [listing EXCEPT !.todo = Tail(@)]
           next == [rest EXCEPT !.seen = {}]
<1>1. listing = [todo |-> listing.todo, seen |-> listing.seen, lost |-> listing.lost,
                 passed |-> listing.passed, tunnel |-> listing.tunnel, direct |-> listing.direct]
  BY DEF FieldsInv
<1>2. rest = [todo |-> Tail(listing.todo), seen |-> listing.seen, lost |-> listing.lost,
              passed |-> listing.passed, tunnel |-> listing.tunnel, direct |-> listing.direct]
  BY <1>1, Relisted
<1>3. next = [todo |-> Tail(listing.todo), seen |-> {}, lost |-> listing.lost,
              passed |-> listing.passed, tunnel |-> listing.tunnel, direct |-> listing.direct]
  <2> HIDE DEF rest
  <2>1. /\ rest = [todo |-> rest.todo, seen |-> rest.seen, lost |-> rest.lost,
                   passed |-> rest.passed, tunnel |-> rest.tunnel, direct |-> rest.direct]
        /\ rest.todo = Tail(listing.todo) /\ rest.lost = listing.lost
        /\ rest.passed = listing.passed /\ rest.tunnel = listing.tunnel /\ rest.direct = listing.direct
    BY <1>2
  <2>2. next = [todo |-> rest.todo, seen |-> {}, lost |-> rest.lost,
                passed |-> rest.passed, tunnel |-> rest.tunnel, direct |-> rest.direct]
    BY <2>1, Relisted
  <2> QED
    BY <2>1, <2>2
<1>4. /\ UNCHANGED <<pc, world, up, fails, held, share>>
      /\ \/ "pass" \in outcomes /\ listing' = [next EXCEPT !.passed = @ \union {group}]
         \/ "pass" \notin outcomes /\ seen \subseteq Retryable /\ listing' = [listing EXCEPT !.seen = seen]
         \/ "pass" \notin outcomes /\ listing' = [next EXCEPT !.lost = @ \union seen]
  BY DEF ListGroup
<1> HIDE DEF next
<1>5. CASE "pass" \in outcomes /\ listing' = [next EXCEPT !.passed = @ \union {group}]
  <2>1. listing' = [todo |-> Tail(listing.todo), seen |-> {}, lost |-> listing.lost,
                    passed |-> listing.passed \union {group}, tunnel |-> listing.tunnel, direct |-> next.direct]
    BY <1>3, <1>5, Relisted
  <2>2. /\ listing'.todo = Tail(listing.todo) /\ listing'.tunnel = listing.tunnel
        /\ listing'.seen = {} /\ listing'.lost = listing.lost /\ listing'.passed = listing.passed \union {group}
        /\ listing' = [todo |-> listing'.todo, seen |-> listing'.seen, lost |-> listing'.lost,
                       passed |-> listing'.passed, tunnel |-> listing'.tunnel, direct |-> listing'.direct]
    <3> HIDE DEF group
    <3> QED
      BY <2>1
  <2> QED
    BY <1>4, <1>5, <2>2
<1>6. CASE "pass" \notin outcomes /\ seen \subseteq Retryable /\ listing' = [listing EXCEPT !.seen = seen]
  <2>1. listing' = [todo |-> listing.todo, seen |-> seen, lost |-> listing.lost,
                    passed |-> listing.passed, tunnel |-> listing.tunnel, direct |-> listing.direct]
    BY <1>1, <1>6, Relisted
  <2>2. /\ listing'.todo = listing.todo /\ listing'.tunnel = listing.tunnel /\ listing'.seen = seen
        /\ listing'.lost = listing.lost /\ listing'.passed = listing.passed
        /\ listing' = [todo |-> listing'.todo, seen |-> listing'.seen, lost |-> listing'.lost,
                       passed |-> listing'.passed, tunnel |-> listing'.tunnel, direct |-> listing'.direct]
    BY <2>1
  <2> QED
    BY <1>4, <1>6, <2>2
<1>7. CASE "pass" \notin outcomes /\ listing' = [next EXCEPT !.lost = @ \union seen]
  <2>1. listing' = [todo |-> Tail(listing.todo), seen |-> {}, lost |-> listing.lost \union seen,
                    passed |-> listing.passed, tunnel |-> listing.tunnel, direct |-> next.direct]
    BY <1>3, <1>7, Relisted
  <2>2. /\ listing'.todo = Tail(listing.todo) /\ listing'.tunnel = listing.tunnel /\ listing'.seen = {}
        /\ listing'.lost = listing.lost \union seen /\ listing'.passed = listing.passed
        /\ listing' = [todo |-> listing'.todo, seen |-> listing'.seen, lost |-> listing'.lost,
                       passed |-> listing'.passed, tunnel |-> listing'.tunnel, direct |-> listing'.direct]
    BY <2>1
  <2> QED
    BY <1>4, <1>7, <2>2
<1> QED
  BY <1>4, <1>5, <1>6, <1>7

\* The listing of shares changes only the listing.
LEMMA ListingsKeep ==
    ASSUME Listings, FieldsInv
    PROVE  /\ UNCHANGED <<world, up, held, share>>
           /\ Steady \/ Slip
           /\ listing' = [todo |-> listing'.todo, seen |-> listing'.seen, lost |-> listing'.lost,
                          passed |-> listing'.passed, tunnel |-> listing'.tunnel, direct |-> listing'.direct]
<1> USE DEF Nothing, Goes, Adds, FieldsInv
<1>1. CASE BeginSmb
  BY <1>1 DEF BeginSmb, NoListing
<1>2. CASE List
  <2>1. /\ Steady \/ Slip
        /\ \E outcomes : ListGroup(outcomes)
    BY <1>2 DEF List
  <2> QED
    BY <2>1, ListGroupDoes
<1>3. CASE NoneListed
  BY <1>3 DEF NoneListed, NoListing
<1>4. CASE TunnelLost \/ SelectShare
  BY <1>4 DEF TunnelLost, SelectShare
<1> QED
  BY <1>1, <1>2, <1>3, <1>4 DEF Listings

\* What is held becomes when one of its fields is set.
LEMMA Reheld ==
    ASSUME NEW h, NEW x,
           h = [age |-> h.age, named |-> h.named, ps |-> h.ps, conf |-> h.conf,
                plan |-> h.plan, reached |-> h.reached, headline |-> h.headline]
    PROVE  /\ [h EXCEPT !.age = x] = [age |-> x, named |-> h.named, ps |-> h.ps, conf |-> h.conf,
                                      plan |-> h.plan, reached |-> h.reached, headline |-> h.headline]
           /\ [h EXCEPT !.named = x] = [age |-> h.age, named |-> x, ps |-> h.ps, conf |-> h.conf,
                                        plan |-> h.plan, reached |-> h.reached, headline |-> h.headline]
           /\ [h EXCEPT !.ps = x] = [age |-> h.age, named |-> h.named, ps |-> x, conf |-> h.conf,
                                     plan |-> h.plan, reached |-> h.reached, headline |-> h.headline]
           /\ [h EXCEPT !.conf = x] = [age |-> h.age, named |-> h.named, ps |-> h.ps, conf |-> x,
                                       plan |-> h.plan, reached |-> h.reached, headline |-> h.headline]
           /\ [h EXCEPT !.plan = x] = [age |-> h.age, named |-> h.named, ps |-> h.ps, conf |-> h.conf,
                                       plan |-> x, reached |-> h.reached, headline |-> h.headline]
           /\ [h EXCEPT !.reached = x] = [age |-> h.age, named |-> h.named, ps |-> h.ps, conf |-> h.conf,
                                          plan |-> h.plan, reached |-> x, headline |-> h.headline]
           /\ [h EXCEPT !.headline = x] = [age |-> h.age, named |-> h.named, ps |-> h.ps, conf |-> h.conf,
                                           plan |-> h.plan, reached |-> h.reached, headline |-> x]
  OBVIOUS

\* A mishap that slips in uses one up, and is remembered.
LEMMA Luck ==
    ASSUME FieldsInv
    PROVE  /\ Steady => luck' = luck
           /\ Slip => /\ luck' = [mishaps |-> luck'.mishaps, slipped |-> luck'.slipped, calm |-> luck'.calm]
                      /\ luck'.mishaps = luck.mishaps - 1 /\ luck'.slipped /\ luck'.calm = luck.calm
           /\ \A p : Relapse(p) =>
                  /\ luck' = [mishaps |-> luck'.mishaps, slipped |-> luck'.slipped, calm |-> luck'.calm]
                  /\ luck'.mishaps = luck.mishaps - 1 /\ luck'.slipped = luck.slipped /\ luck'.calm = luck.calm
<1>1. luck = [mishaps |-> luck.mishaps, slipped |-> luck.slipped, calm |-> luck.calm]
  BY DEF FieldsInv
<1>2. ASSUME Slip
      PROVE  luck' = [mishaps |-> luck.mishaps - 1, slipped |-> TRUE, calm |-> luck.calm]
  BY <1>1, <1>2 DEF Slip
<1>3. ASSUME NEW p, Relapse(p)
      PROVE  luck' = [mishaps |-> luck.mishaps - 1, slipped |-> luck.slipped, calm |-> luck.calm]
  BY <1>1, <1>3 DEF Relapse
<1> QED
  BY <1>2, <1>3 DEF Steady

\* A file operation leaves what was found before it.
LEMMA FileOpKeeps ==
    ASSUME FileOp, FieldsInv
    PROVE  /\ UNCHANGED <<world, up, held, listing>>
           /\ Steady \/ Slip
           /\ share' = [done |-> share'.done, litter |-> share'.litter]
<1> DEFINE op == FileOps[share.done + 1]
           did == [done |-> share.done + 1,
                   litter |-> IF op = "mkdir" THEN TRUE ELSE IF op = "rmdir" THEN FALSE ELSE share.litter]
<1>1. /\ UNCHANGED <<world, up, held, listing>>
      /\ Steady \/ Slip
      /\ share' = did \/ share' = share \/ share' = [did EXCEPT !.done = share.done]
  BY DEF FileOp, Goes, Adds
<1>2. did = [done |-> did.done, litter |-> did.litter]
  OBVIOUS
<1> HIDE DEF did, op
<1>3. CASE share' = [did EXCEPT !.done = share.done]
  BY <1>1, <1>2, <1>3
<1>4. CASE share' = did \/ share' = share
  BY <1>1, <1>2, <1>4 DEF FieldsInv
<1> QED
  BY <1>1, <1>3, <1>4

LEMMA RunStep ==
    ASSUME RunInv, [Next]_vars
    PROVE  RunInv'
<1> USE DEF RunInv, world
<1> USE DEF DeviceInv
<1>a. ASSUME Steady \/ Slip
      PROVE  luck' = [mishaps |-> luck'.mishaps, slipped |-> luck'.slipped, calm |-> luck'.calm]
  BY <1>a, Luck DEF FieldsInv, Steady
<1>1. CASE Sweep
  BY <1>1, <1>a, SweepKeeps DEF FieldsInv
<1>2. CASE Notes
  <2>1. held' = [age |-> held'.age, named |-> held'.named, ps |-> held'.ps, conf |-> held'.conf,
                 plan |-> held'.plan, reached |-> held'.reached, headline |-> held'.headline]
    <3>1. CASE UNCHANGED held
      BY <3>1 DEF FieldsInv
    <3>2. ASSUME NEW x, \/ held' = [held EXCEPT !.age = x] \/ held' = [held EXCEPT !.named = x]
                        \/ held' = [held EXCEPT !.ps = x] \/ held' = [held EXCEPT !.conf = x]
                        \/ held' = [held EXCEPT !.plan = x] \/ held' = [held EXCEPT !.reached = x]
                        \/ held' = [held EXCEPT !.headline = x]
          PROVE  held' = [age |-> held'.age, named |-> held'.named, ps |-> held'.ps, conf |-> held'.conf,
                          plan |-> held'.plan, reached |-> held'.reached, headline |-> held'.headline]
      <4>1. held = [age |-> held.age, named |-> held.named, ps |-> held.ps, conf |-> held.conf,
                    plan |-> held.plan, reached |-> held.reached, headline |-> held.headline]
        BY DEF FieldsInv
      <4> QED
        BY <3>2, <4>1, Reheld
    <3> QED
      BY <1>2, <3>1, <3>2, NotesKeep
  <2> QED
    BY <1>2, <1>a, <2>1, NotesKeep DEF FieldsInv
<1>3. CASE Listings
  BY <1>3, <1>a, ListingsKeep DEF FieldsInv
<1>4. CASE FileOp
  BY <1>4, <1>a, FileOpKeeps DEF FieldsInv
<1>5. CASE Boot
  <2>1. up' \subseteq full /\ UNCHANGED <<faults, options, full, luck, held, listing, share>>
    BY <1>5 DEF Boot, Begun
  <2> QED
    BY <2>1 DEF FieldsInv
<1>6. ASSUME NEW p \in Parts, Relapse(p)
      PROVE  RunInv'
  <2>1. up' \subseteq up /\ UNCHANGED <<faults, options, full, held, listing, share>>
    BY <1>6, WorkingKeeps DEF Relapse
  <2>2. luck' = [mishaps |-> luck'.mishaps, slipped |-> luck'.slipped, calm |-> luck'.calm]
    BY <1>6, Luck
  <2> QED
    BY <2>1, <2>2 DEF FieldsInv
<1>7. CASE UNCHANGED vars
  BY <1>7 DEF FieldsInv, vars
<1> QED
  BY <1>1, <1>2, <1>3, <1>4, <1>5, <1>6, <1>7 DEF Next, Run, Sweep, Notes, Listings

LEMMA RunHolds == Spec => []RunInv
<1>1. Init => RunInv
  BY DEF Init, RunInv, FieldsInv, DeviceInv, NoListing, NothingHeld, Begun
<1> QED
  BY <1>1, RunStep, PTL DEF Spec

-----------------------------------------------------------------------------
(* What a full boot brings up.                                             *)

\* What a full boot brings up is in place and has no lasting fault.
LEMMA FullIs == Full(faults, options) \subseteq Parts \ faults
  BY WorkingKeeps DEF Full

\* Parts closed under what they need work after a full boot when nothing is wrong
\* with them and the set-up has them.
LEMMA FullHas ==
    ASSUME NEW D, D \subseteq Parts \ faults, \A need \in Needs : need[1] \in D => need[2] \in D,
           "with_rsync" \in options \/ D \intersect RsyncRuntime = {},
           "with_afp" \in options \/ D \intersect AfpParts = {}
    PROVE  D \subseteq Full(faults, options)
<1> DEFINE S == ((Parts \ faults) \ (IF "with_rsync" \in options THEN {} ELSE RsyncRuntime))
                    \ (IF "with_afp" \in options THEN {} ELSE AfpParts)
<1>1. D \subseteq S
  OBVIOUS
<1> HIDE DEF S
<1>2. D \subseteq Working(S)
  BY <1>1, WorkingKeeps
<1> QED
  BY <1>2 DEF Full, S

-----------------------------------------------------------------------------
(* The Bonjour records come up and go away together.                       *)

TogetherInv == \A p, q \in BonjourParts : p \in up /\ q \in full => q \in up

\* They are of the last tier, and each needs the advertiser's port alone.
LEMMA RecordsAre ==
    /\ DOMAIN Tiers = 1 .. 6
    /\ \A i \in 1 .. 5 : Tiers[i] \intersect BonjourParts = {}
    /\ BonjourParts \subseteq Tiers[6]
    /\ \A p \in BonjourParts : \A need \in Needs :
          (need[1] = p => need[2] = "port5353") /\ need[2] # p
    /\ \A p \in BonjourParts : <<p, "port5353">> \in Needs
<1>1. DOMAIN Tiers = 1 .. 6 /\ BonjourParts \subseteq Tiers[6]
  BY DEF Tiers, BonjourParts
<1>2. \A i \in 1 .. 5 : Tiers[i] \intersect BonjourParts = {}
  BY DEF Tiers, BonjourParts
<1>3. \A p \in BonjourParts : \A need \in Needs : (need[1] = p => need[2] = "port5353") /\ need[2] # p
  BY DEF Needs, BonjourParts
<1>4. \A p \in BonjourParts : <<p, "port5353">> \in Needs
  BY DEF Needs
<1> QED
  BY <1>1, <1>2, <1>3, <1>4

\* Of records that are in place, all work when one does.
LEMMA WorkingTogether ==
    ASSUME NEW S, NEW p \in BonjourParts, NEW q \in BonjourParts, p \in Working(S), q \in S
    PROVE  q \in Working(S)
<1>1. \A U : p \in Kept(U) => "port5353" \in U /\ p \in U
  <2> SUFFICES ASSUME NEW U, p \in Kept(U) PROVE "port5353" \in U /\ p \in U
    OBVIOUS
  <2>1. <<p, "port5353">> \in Needs
    BY RecordsAre
  <2> QED
    BY <2>1 DEF Kept
<1>2. \A U : p \in Kept(U) /\ q \in U => q \in Kept(U)
  BY <1>1, RecordsAre DEF Kept
<1> DEFINE S1 == Kept(S)
           S2 == Kept(S1)
           S3 == Kept(S2)
           S4 == Kept(S3)
           S5 == Kept(S4)
           S6 == Kept(S5)
<1>3. p \in S6
  BY WorkingIs
<1>4. p \in S5 /\ p \in S4 /\ p \in S3 /\ p \in S2 /\ p \in S1
  BY <1>1, <1>3
<1>5. q \in S1 /\ q \in S2 /\ q \in S3 /\ q \in S4 /\ q \in S5 /\ q \in S6
  BY <1>2, <1>3, <1>4
<1> QED
  BY <1>5, WorkingIs

\* Tiers before the last bring up no record, the last brings up all.
LEMMA BegunTogether ==
    ASSUME NEW tier \in DOMAIN Tiers, full \subseteq Parts
    PROVE  IF tier = 6 THEN BonjourParts \intersect full \subseteq Begun(tier)
           ELSE BonjourParts \intersect Begun(tier) = {}
<1>1. tier \in 1 .. 6
  BY RecordsAre
<1>2. CASE tier = 6
  BY <1>2, RecordsAre DEF Begun
<1>3. CASE tier # 6
  <2>1. \A i \in 1 .. tier : i \in 1 .. 5
    BY <1>1, <1>3
  <2> QED
    BY <1>3, <2>1, RecordsAre DEF Begun
<1> QED
  BY <1>2, <1>3

LEMMA TogetherStep ==
    ASSUME RunInv, TogetherInv, [Next]_vars
    PROVE  TogetherInv'
<1> USE DEF RunInv
<1>1. full' = full
  BY SweepKeeps, NotesKeep, ListingsKeep, FileOpKeeps
     DEF Next, Run, Sweep, Notes, Listings, Boot, Relapse, vars, world
<1>2. CASE Run \/ UNCHANGED vars
  <2>1. up' = up
    BY <1>2, SweepKeeps, NotesKeep, ListingsKeep, FileOpKeeps DEF Run, Sweep, Notes, Listings, vars
  <2> QED
    BY <1>1, <2>1 DEF TogetherInv
<1>3. CASE Boot
  <2>1. PICK tier \in DOMAIN Tiers : up' = up \union Begun(tier)
    BY <1>3 DEF Boot
  <2>2. full \subseteq Parts
    BY FullIs DEF DeviceInv
  <2> QED
    BY <1>1, <2>1, <2>2, BegunTogether DEF TogetherInv
<1>4. CASE \E p \in Parts : Relapse(p)
  <2>1. PICK lost \in Parts : lost \in Volatile /\ up' = Working(up \ {lost})
    BY <1>4 DEF Relapse
  <2>2. \A p, q \in BonjourParts : p \in up' /\ q \in full => q \in up'
    <3> SUFFICES ASSUME NEW p \in BonjourParts, NEW q \in BonjourParts, p \in up', q \in full PROVE q \in up'
      OBVIOUS
    <3>1. p \in up
      BY <2>1, WorkingKeeps
    <3>2. q \in up \ {lost}
      BY <2>1, <3>1 DEF TogetherInv, Volatile, BonjourParts
    <3> QED
      BY <2>1, <3>2, WorkingTogether
  <2> QED
    BY <1>1, <2>2 DEF TogetherInv
<1> QED
  BY <1>2, <1>3, <1>4 DEF Next

LEMMA TogetherHolds == Spec => []TogetherInv
<1>1. Init => TogetherInv
  <2> SUFFICES ASSUME Init PROVE TogetherInv
    OBVIOUS
  <2>1. PICK tier \in DOMAIN Tiers : up = Begun(tier)
    BY StartsAssumption DEF Init
  <2>2. full \subseteq Parts
    BY FullIs DEF Init
  <2> QED
    BY <2>1, <2>2, BegunTogether DEF TogetherInv
<1> QED
  BY <1>1, TogetherStep, RunHolds, PTL DEF Spec

-----------------------------------------------------------------------------
(* A clean report has written.                                             *)

\* What may only fail with a result: without smbclient there is one from the
\* start, so that a listing nobody made is never a clean one.
MissingInv ==
    /\ (pc # "config" /\ "no_smbclient" \in options) => fails # {}
    /\ "missing" \in listing.lost \union listing.seen => "no_smbclient" \in options

Untouched == [done |-> 0, litter |-> FALSE]

\* The share between the operations: the test directory is there after the first
\* and gone after the eighth, and only the last one ends them with no failure.
WrittenInv ==
    /\ share.done \in 0 .. 9
    /\ pc \notin {"ops", "grace", "done"} => share = Untouched
    /\ pc = "ops" => /\ share.done < 9
                     /\ share.done \in 1 .. 7 => share.litter = TRUE
                     /\ share.done \notin 1 .. 7 => share.litter = FALSE
    /\ (pc \in {"grace", "done"} /\ fails = {} /\ "skip_smb" \notin options) => share = [done |-> 9, litter |-> FALSE]

LEMMA OpsAre ==
    /\ Len(FileOps) = 9
    /\ \A i \in 1 .. 9 : (FileOps[i] = "mkdir" <=> i = 1) /\ (FileOps[i] = "rmdir" <=> i = 8)
  BY DEF FileOps

\* Results are added and never taken back: grace puts a headline in their place.
LEMMA FailsStay ==
    ASSUME [Next]_vars, fails # {}
    PROVE  fails' # {}
<1> USE DEF Adds, Goes, Asks, Check, Stop, Lost, MdnsBroken, Nothing
<1>1. CASE Config \/ SshLogin \/ Deployed \/ StartupAge \/ Naming \/ Compatibility
  BY <1>1 DEF Config, SshLogin, Deployed, StartupAge, Naming, Compatibility
<1>2. CASE Smbd \/ MdnsBinary \/ MdnsProcesses
  BY <1>2 DEF Smbd, MdnsBinary, MdnsProcesses
<1>3. CASE MdnsFamilies \/ MdnsSockets \/ Rsync
  BY <1>3 DEF MdnsFamilies, MdnsSockets, Rsync
<1>4. CASE ActiveConf \/ NetworkPlan \/ DirectPort \/ Bonjour \/ BeginSmb
  BY <1>4 DEF ActiveConf, NetworkPlan, DirectPort, Bonjour, BeginSmb
<1>5. CASE List
  BY <1>5 DEF List, ListGroup
<1>6. CASE NoneListed \/ TunnelLost \/ SelectShare
  BY <1>6 DEF NoneListed, TunnelLost, SelectShare
<1>7. CASE FileOp
  BY <1>7 DEF FileOp
<1>8. CASE Grace
  BY <1>8 DEF Grace
<1>9. CASE Boot \/ \E p \in Parts : Relapse(p)
  BY <1>9 DEF Boot, Relapse
<1>10. CASE UNCHANGED vars
  BY <1>10 DEF vars
<1> QED
  BY <1>1, <1>2, <1>3, <1>4, <1>5, <1>6, <1>7, <1>8, <1>9, <1>10 DEF Next, Run

\* Where a step leads.
LEMMA Leads ==
    /\ Config => pc = "config" /\ pc' \in {"port", "ssh"}
    /\ SshLogin => pc = "ssh" /\ pc' \in {"deployed", "port"}
    /\ Deployed => pc = "deployed" /\ (pc' = "age" \/ (pc' = "done" /\ fails' # {}))
    /\ StartupAge => pc = "age" /\ pc' = "naming"
    /\ Naming => pc = "naming" /\ pc' = "compatibility"
    /\ Compatibility => pc = "compatibility" /\ pc' = "smbd"
    /\ Smbd => pc = "smbd" /\ pc' \in {"smbd", "mdns", "crashed"}
    /\ MdnsBinary => pc \in {"mdns", "mdns_again"} /\ pc' \in {"mdns", "mdns_again", "mdns_ps", "rsync", "crashed"}
    /\ MdnsProcesses => pc = "mdns_ps" /\ pc' \in {"mdns_families", "rsync", "crashed"}
    /\ MdnsFamilies => pc = "mdns_families" /\ pc' \in {"mdns", "mdns_fstat", "rsync", "crashed"}
    /\ MdnsSockets => pc = "mdns_fstat" /\ pc' \in {"mdns", "rsync", "crashed"}
    /\ Rsync => pc = "rsync" /\ pc' \in {"rsync", "conf", "crashed"}
    /\ ActiveConf => pc = "conf" /\ pc' = "plan"
    /\ NetworkPlan => pc = "plan" /\ pc' = "port"
    /\ DirectPort => pc = "port" /\ pc' = "bonjour"
    /\ Bonjour => pc = "bonjour" /\ pc' = "smb"
    /\ BeginSmb => pc = "smb" /\ pc' \in {"list", "grace"}
    /\ List => pc = "list" /\ pc' = "list"
    /\ NoneListed => pc = "list" /\ pc' \in {"list", "grace"}
    /\ TunnelLost => pc = "list" /\ pc' = "grace"
    /\ SelectShare => pc = "list" /\ pc' \in {"ops", "grace"}
    /\ FileOp => pc = "ops" /\ pc' \in {"ops", "grace"}
    /\ Grace => pc = "grace" /\ pc' = "done"
    /\ Boot \/ (\E p \in Parts : Relapse(p)) => pc' = pc
<1> USE DEF Adds, Goes, Asks, Check, Stop, Lost, MdnsBroken
<1>1. /\ Config => pc = "config" /\ pc' \in {"port", "ssh"}
      /\ SshLogin => pc = "ssh" /\ pc' \in {"deployed", "port"}
      /\ Deployed => pc = "deployed" /\ (pc' = "age" \/ (pc' = "done" /\ fails' # {}))
      /\ StartupAge => pc = "age" /\ pc' = "naming"
  BY DEF Config, SshLogin, Deployed, StartupAge
<1>2. /\ Naming => pc = "naming" /\ pc' = "compatibility"
      /\ Compatibility => pc = "compatibility" /\ pc' = "smbd"
      /\ Smbd => pc = "smbd" /\ pc' \in {"smbd", "mdns", "crashed"}
  BY DEF Naming, Compatibility, Smbd
<1>3. /\ MdnsBinary => pc \in {"mdns", "mdns_again"} /\ pc' \in {"mdns", "mdns_again", "mdns_ps", "rsync", "crashed"}
      /\ MdnsProcesses => pc = "mdns_ps" /\ pc' \in {"mdns_families", "rsync", "crashed"}
  BY DEF MdnsBinary, MdnsProcesses
<1>4. /\ MdnsFamilies => pc = "mdns_families" /\ pc' \in {"mdns", "mdns_fstat", "rsync", "crashed"}
      /\ MdnsSockets => pc = "mdns_fstat" /\ pc' \in {"mdns", "rsync", "crashed"}
      /\ Rsync => pc = "rsync" /\ pc' \in {"rsync", "conf", "crashed"}
  BY DEF MdnsFamilies, MdnsSockets, Rsync
<1>5. /\ ActiveConf => pc = "conf" /\ pc' = "plan"
      /\ NetworkPlan => pc = "plan" /\ pc' = "port"
      /\ DirectPort => pc = "port" /\ pc' = "bonjour"
      /\ Bonjour => pc = "bonjour" /\ pc' = "smb"
      /\ BeginSmb => pc = "smb" /\ pc' \in {"list", "grace"}
  BY DEF ActiveConf, NetworkPlan, DirectPort, Bonjour, BeginSmb
<1>6. List => pc = "list" /\ pc' = "list"
  BY DEF List, ListGroup
<1>7. /\ NoneListed => pc = "list" /\ pc' \in {"list", "grace"}
      /\ TunnelLost => pc = "list" /\ pc' = "grace"
      /\ SelectShare => pc = "list" /\ pc' \in {"ops", "grace"}
  BY DEF NoneListed, TunnelLost, SelectShare
<1>8. /\ FileOp => pc = "ops" /\ pc' \in {"ops", "grace"}
      /\ Grace => pc = "grace" /\ pc' = "done"
      /\ Boot \/ (\E p \in Parts : Relapse(p)) => pc' = pc
  BY DEF FileOp, Grace, Boot, Relapse
<1> QED
  BY <1>1, <1>2, <1>3, <1>4, <1>5, <1>6, <1>7, <1>8

LEMMA MissingStep ==
    ASSUME RunInv, MissingInv, [Next]_vars
    PROVE  MissingInv'
<1> USE DEF RunInv, MissingInv
<1>1. /\ options' = options
      /\ pc = "config" /\ ~(Boot \/ \E p \in Parts : Relapse(p))
           => fails' # {} \/ pc' = "config" \/ "no_smbclient" \notin options
  <2>1. options' = options
    BY SweepKeeps, NotesKeep, ListingsKeep, FileOpKeeps
       DEF Next, Run, Sweep, Notes, Listings, Boot, Relapse, vars, world
  <2>2. CASE Config
    BY <2>1, <2>2 DEF Config, Adds
  <2>3. CASE UNCHANGED vars
    BY <2>1, <2>3 DEF vars
  <2> QED
    BY <2>1, <2>2, <2>3, Leads DEF Next, Run
<1>2. (pc' # "config" /\ "no_smbclient" \in options) => fails' # {}
  <2>1. CASE pc = "config" /\ ~(Boot \/ \E p \in Parts : Relapse(p))
    BY <1>1, <2>1
  <2>2. CASE pc = "config" /\ (Boot \/ \E p \in Parts : Relapse(p))
    BY <2>2, Leads
  <2>3. CASE pc # "config"
    BY <2>3, FailsStay
  <2> QED
    BY <2>1, <2>2, <2>3
<1>3. "missing" \in listing'.lost \union listing'.seen => "no_smbclient" \in options
  <2>1. CASE Sweep \/ Notes \/ TunnelLost \/ SelectShare \/ FileOp \/ Boot \/ (\E p \in Parts : Relapse(p))
             \/ UNCHANGED vars
    <3>1. listing' = listing
      BY <2>1, SweepKeeps, NotesKeep, FileOpKeeps DEF TunnelLost, SelectShare, Nothing, Boot, Relapse, vars
    <3> QED
      BY <3>1
  <2>2. CASE BeginSmb
    BY <2>2 DEF BeginSmb, NoListing
  <2>3. CASE NoneListed
    BY <2>3 DEF NoneListed, NoListing
  <2>4. CASE List
    <3>1. PICK outcomes : ListGroup(outcomes) /\ ("missing" \in outcomes => "no_smbclient" \in options)
      BY <2>4 DEF List, Outcome, Oddities
    <3> QED
      BY <3>1, ListGroupDoes
  <2> QED
    BY <2>1, <2>2, <2>3, <2>4 DEF Next, Run, Sweep, Notes
<1> QED
  BY <1>1, <1>2, <1>3

LEMMA WrittenStep ==
    ASSUME RunInv, MissingInv, WrittenInv, [Next]_vars
    PROVE  WrittenInv'
<1> USE DEF RunInv
<1>1. CASE pc' \notin {"ops", "grace", "done"}
  <2>1. share' = share
    <3>1. CASE FileOp
      BY <1>1, <3>1, Leads
    <3> QED
      BY <3>1, SweepKeeps, NotesKeep, ListingsKeep DEF Next, Run, Sweep, Notes, Listings, Boot, Relapse, vars
  <2>2. pc \notin {"ops", "grace", "done"}
    <3>1. CASE UNCHANGED vars
      BY <1>1, <3>1 DEF vars
    <3> QED
      BY <1>1, <3>1, Leads DEF Next, Run
  <2> QED
    BY <1>1, <2>1, <2>2 DEF WrittenInv
<1>2. CASE Boot \/ (\E p \in Parts : Relapse(p)) \/ UNCHANGED vars
  <2>1. UNCHANGED <<pc, options, share, fails>>
    BY <1>2 DEF Boot, Relapse, vars, world
  <2> QED
    BY <2>1 DEF WrittenInv
<1>3. CASE Deployed
  BY <1>1, <1>3, Leads, SweepKeeps DEF WrittenInv, Sweep
<1>4. CASE BeginSmb
  <2>1. /\ UNCHANGED <<share, options>> /\ pc = "smb" /\ pc' \in {"list", "grace"}
        /\ pc' = "grace" => "skip_smb" \in options
    BY <1>4 DEF BeginSmb, Goes, world
  <2> QED
    BY <2>1 DEF WrittenInv
<1>5. CASE NoneListed
  <2>1. /\ UNCHANGED <<share, options>> /\ pc = "list" /\ pc' \in {"list", "grace"}
        /\ (pc' = "grace" /\ listing.lost # {"missing"}) => fails' # {}
    BY <1>5 DEF NoneListed, Goes, world, Adds, SmbResult
  <2>2. listing.lost = {"missing"} => fails' # {}
    BY <2>1, FailsStay DEF MissingInv
  <2> QED
    BY <2>1, <2>2 DEF WrittenInv
<1>6. CASE TunnelLost
  <2>1. UNCHANGED <<share, options>> /\ pc = "list" /\ pc' = "grace" /\ fails' # {}
    BY <1>6 DEF TunnelLost, Goes, world, Adds, SmbResult, Nothing
  <2> QED
    BY <2>1 DEF WrittenInv
<1>7. CASE SelectShare
  <2>1. /\ UNCHANGED <<share, options>> /\ pc = "list" /\ pc' \in {"ops", "grace"}
        /\ pc' = "grace" => fails' # {}
    BY <1>7 DEF SelectShare, Goes, world, Adds, Nothing
  <2>2. share' = Untouched
    BY <2>1 DEF WrittenInv
  <2>3. share'.done = 0 /\ share'.litter = FALSE
    BY <2>2 DEF Untouched
  <2> QED
    BY <2>1, <2>3 DEF WrittenInv
<1>8. CASE FileOp
  <2> DEFINE op == FileOps[share.done + 1]
             did == [done |-> share.done + 1,
                     litter |-> IF op = "mkdir" THEN TRUE ELSE IF op = "rmdir" THEN FALSE ELSE share.litter]
  <2>1. /\ options' = options /\ pc = "ops" /\ pc' \in {"ops", "grace"}
        /\ \/ share' = did /\ (pc' = IF did.done = OpsEnd THEN "grace" ELSE "ops")
           \/ /\ pc' = "grace" /\ fails' # {}
              /\ share' = share \/ share' = [did EXCEPT !.done = share.done]
    BY <1>8 DEF FileOp, Goes, Adds, world
  <2>2. /\ share.done \in 0 .. 8
        /\ share.done \in 1 .. 7 => share.litter = TRUE
        /\ share.done \notin 1 .. 7 => share.litter = FALSE
    BY <2>1 DEF WrittenInv
  <2>3. /\ did.done = share.done + 1
        /\ share.done + 1 \in 1 .. 7 => did.litter = TRUE
        /\ share.done + 1 \notin 1 .. 7 => did.litter = FALSE
        /\ did = [done |-> did.done, litter |-> did.litter]
    <3>1. share.done + 1 \in 1 .. 9 /\ (op = "mkdir" <=> share.done + 1 = 1) /\ (op = "rmdir" <=> share.done + 1 = 8)
      BY <2>2, OpsAre
    <3>2. CASE share.done = 0
      BY <2>2, <3>1, <3>2
    <3>3. CASE share.done = 7
      BY <2>2, <3>1, <3>3
    <3>4. CASE share.done # 0 /\ share.done # 7
      <4>1. did = [done |-> share.done + 1, litter |-> share.litter]
        <5>1. op # "mkdir" /\ op # "rmdir"
          BY <2>2, <3>1, <3>4
        <5> HIDE DEF op
        <5> QED
          BY <5>1
      <4>2. did.litter = share.litter /\ did.done = share.done + 1
        BY <4>1
      <4>3. share.done + 1 \in 1 .. 7 <=> share.done \in 1 .. 7
        BY <2>2, <3>4
      <4> HIDE DEF did
      <4> QED
        BY <2>2, <4>1, <4>2, <4>3
    <3> QED
      BY <2>2, <3>2, <3>3, <3>4
  <2> HIDE DEF did, op
  <2>4. CASE share' = did /\ (pc' = IF did.done = OpsEnd THEN "grace" ELSE "ops")
    <3>1. OpsEnd = 9
      BY OpsAre DEF OpsEnd
    <3>2. CASE did.done = 9
      <4>1. did.litter = FALSE
        BY <2>2, <2>3, <3>2
      <4> QED
        BY <2>3, <2>4, <3>1, <3>2, <4>1 DEF WrittenInv
    <3>3. CASE did.done # 9
      <4>1. did.done \in 0 .. 8
        BY <2>2, <2>3, <3>3
      <4> QED
        BY <2>3, <2>4, <3>1, <3>3, <4>1 DEF WrittenInv
    <3> QED
      BY <3>2, <3>3
  <2>5. CASE /\ pc' = "grace" /\ fails' # {}
             /\ share' = share \/ share' = [did EXCEPT !.done = share.done]
    <3>1. share'.done = share.done
      BY <2>3, <2>5
    <3> QED
      BY <2>2, <2>5, <3>1 DEF WrittenInv
  <2> QED
    BY <2>1, <2>4, <2>5
<1>9. CASE Grace
  <2>1. /\ UNCHANGED <<share, options>> /\ pc = "grace" /\ pc' = "done"
        /\ fails' = {} => fails = {}
    BY <1>9, Leads, NotesKeep, FailsStay DEF Notes, world, Next, Run
  <2> QED
    BY <2>1 DEF WrittenInv
<1> QED
  BY <1>1, <1>2, <1>3, <1>4, <1>5, <1>6, <1>7, <1>8, <1>9, Leads DEF Next, Run

(* A clean report of a run that was to check SMB vouches for a whole round *)
(* trip of a file, in a share that is left as it was found (checks/         *)
(* smb.py's file operations and run_doctor_checks).                        *)
THEOREM CleanReport == Spec => []CleanReportHasWritten
<1>1. Init => MissingInv /\ WrittenInv
  BY DEF Init, MissingInv, WrittenInv, NoListing, Untouched
<1>2. RunInv /\ MissingInv /\ WrittenInv /\ [Next]_vars => (MissingInv /\ WrittenInv)'
  BY MissingStep, WrittenStep
<1>3. WrittenInv => CleanReportHasWritten
  BY OpsAre DEF WrittenInv, CleanReportHasWritten
<1> QED
  BY <1>1, <1>2, <1>3, RunHolds, PTL DEF Spec

-----------------------------------------------------------------------------
(* A clean report has missed nothing.                                      *)

AfterBonjour == {"smb", "list", "ops", "grace", "done"}
AfterPlan == {"port", "bonjour"} \union AfterBonjour
AfterConf == {"plan"} \union AfterPlan
AfterRsync == {"conf"} \union AfterConf
AfterMdns == {"rsync"} \union AfterRsync
AfterSmbd == {"mdns", "mdns_again", "mdns_ps", "mdns_families", "mdns_fstat"} \union AfterMdns
AfterNaming == {"compatibility", "smbd"} \union AfterSmbd

SmbdParts == {"smbdBin", "smbConf", "manager", "smbd", "port445", "passdb", "usermap", "volumes", "tdbOnDisk",
              "payload"}
MdnsParts == {"mdnsBin", "address", "mdns", "port5353", "appleGone"}

\* A run that was told to look over SSH, that no command has failed for once, and
\* that has found nothing to report.
Trusting == ~luck.slipped /\ "skip_ssh" \notin options /\ fails = {}

\* Such a run has seen every part that its steps so far are about: a part that is
\* seen to work, at whatever time, is one that a full boot brings up.
RuntimeSeen ==
    /\ pc \notin {"config", "ssh", "deployed"} => "ramRoot" \in full
    /\ pc \in AfterNaming => held.named = TRUE
    /\ pc \in AfterSmbd => SmbdParts \subseteq full /\ "smbConf" \in up
AdvertiserSeen ==
    /\ pc \in {"mdns_ps", "mdns_families", "mdns_fstat"} => "mdnsBin" \in full
    /\ pc \in {"mdns_families", "mdns_fstat"} => held.ps \subseteq full
    /\ pc = "mdns_fstat" => {"mdns", "address"} \subseteq full
    /\ pc \in AfterMdns => MdnsParts \subseteq full /\ ("with_afp" \in options => AfpParts \subseteq full)
    /\ pc \in AfterRsync => "rsyncDisk" \in full /\ ("with_rsync" \in options => RsyncRuntime \subseteq full)
RecordsSeen ==
    /\ {"smbRecord", "srv", "hostLabel", "hostAddr"} \subseteq full
    /\ {"infoRecords", "adisk"} \intersect full # {} => {"adisk", "adiskTxt", "adiskShares"} \subseteq full
NetworkSeen ==
    /\ pc \in AfterConf => held.conf = "text"
    /\ pc \in AfterPlan => held.plan = Bound(options)
    /\ (pc \in AfterBonjour /\ {"skip_bonjour", "proxied"} \intersect options = {}) => RecordsSeen
SharesSeen ==
    /\ listing.passed # {} => "login" \in full
    /\ pc = "ops" => {"login", "shares"} \subseteq full /\ (share.done # 0 => "writes" \in full)
    /\ (pc \in {"grace", "done"} /\ "skip_smb" \notin options) => SmbParts \subseteq full

SeenInv == Trusting => RuntimeSeen /\ AdvertiserSeen /\ NetworkSeen /\ SharesSeen

LEMMA NoFailures == \A S : Failures(S) = {} <=> S = {}
  BY DEF Failures

\* The lost file of a lasting configuration does not come about: smb.conf stays.
LEMMA ConfStays ==
    ASSUME RunInv, [Next]_vars, "smbConf" \in up
    PROVE  "smbConf" \in up'
<1>1. CASE \E p \in Parts : Relapse(p)
  <2>1. PICK p \in Parts : Relapse(p)
    BY <1>1
  <2>2. up' = Working(up \ {p}) /\ p # "smbConf"
    BY <2>1 DEF Relapse, Volatile
  <2>3. \A need \in Needs : need[1] # "smbConf"
    BY DEF Needs, BonjourParts
  <2>4. {"smbConf"} \subseteq up \ {p}
    BY <2>2
  <2> QED
    BY <2>2, <2>3, <2>4, WorkingKeeps
<1>2. CASE Boot
  BY <1>2 DEF Boot
<1>3. CASE Run \/ UNCHANGED vars
  BY <1>3, SweepKeeps, NotesKeep, ListingsKeep, FileOpKeeps DEF RunInv, Run, Sweep, Notes, Listings, vars
<1> QED
  BY <1>1, <1>2, <1>3 DEF Next

\* A run that can still be trusted could be before, and no command has failed.
LEMMA Quiet ==
    ASSUME RunInv, [Next]_vars, Trusting'
    PROVE  /\ Trusting /\ UNCHANGED <<options, full>> /\ up \subseteq full
           /\ Run => Steady
           /\ ~Slip
<1> USE DEF RunInv
<1>1. UNCHANGED world /\ (Run => Steady \/ Slip)
  BY SweepKeeps, NotesKeep, ListingsKeep, FileOpKeeps
     DEF Next, Run, Sweep, Notes, Listings, Boot, Relapse, vars, world
<1>2. ~Slip
  BY Luck DEF Trusting
<1>3. Trusting
  <2>1. fails = {}
    BY FailsStay DEF Trusting
  <2>2. luck.slipped => luck'.slipped
    <3>1. CASE Run
      BY <1>1, <1>2, <3>1 DEF Steady
    <3>2. CASE Boot \/ UNCHANGED vars
      BY <3>2 DEF Boot, vars
    <3>3. CASE \E p \in Parts : Relapse(p)
      BY <3>3, Luck
    <3> QED
      BY <3>1, <3>2, <3>3 DEF Next
  <2> QED
    BY <1>1, <2>1, <2>2 DEF Trusting, world
<1> QED
  BY <1>1, <1>2, <1>3 DEF world, DeviceInv

\* What a step notes down, when its command does not fail.
LEMMA Recalls ==
    ASSUME FieldsInv, ~Slip
    PROVE  /\ StartupAge => UNCHANGED <<held.named, held.ps, held.conf, held.plan, held.reached>>
           /\ Naming => held'.named = TRUE /\ UNCHANGED <<held.ps, held.conf, held.plan, held.reached>>
           /\ MdnsProcesses => held'.ps = up /\ UNCHANGED <<held.named, held.conf, held.plan, held.reached>>
           /\ Rsync => UNCHANGED <<held.named, held.conf, held.plan, held.reached>>
           /\ ActiveConf => /\ held'.conf = IF "smbConf" \in up THEN "text" ELSE "empty"
                            /\ UNCHANGED <<held.named, held.plan, held.reached>>
           /\ NetworkPlan => /\ held'.plan = IF "address" \in up \/ held.conf = "text" THEN Bound(options) ELSE {}
                             /\ UNCHANGED <<held.named, held.conf, held.reached>>
           /\ DirectPort => /\ held'.reached \subseteq held.plan
                            /\ UNCHANGED <<held.named, held.conf, held.plan>>
           /\ Grace => UNCHANGED <<held.age, held.named, held.conf, held.plan, held.reached>>
<1> USE DEF Holds, Nothing, Lost, MdnsBroken
<1>0. held = [age |-> held.age, named |-> held.named, ps |-> held.ps, conf |-> held.conf,
              plan |-> held.plan, reached |-> held.reached, headline |-> held.headline]
  BY DEF FieldsInv
<1>1. StartupAge => UNCHANGED <<held.named, held.ps, held.conf, held.plan, held.reached>>
  BY <1>0, Reheld DEF StartupAge
<1>2. Naming => held'.named = TRUE /\ UNCHANGED <<held.ps, held.conf, held.plan, held.reached>>
  BY <1>0, Reheld DEF Naming
<1>3. MdnsProcesses => held'.ps = up /\ UNCHANGED <<held.named, held.conf, held.plan, held.reached>>
  BY <1>0, Reheld DEF MdnsProcesses
<1>4. Rsync => UNCHANGED <<held.named, held.conf, held.plan, held.reached>>
  BY <1>0, Reheld DEF Rsync
<1>5. ActiveConf => /\ held'.conf = IF "smbConf" \in up THEN "text" ELSE "empty"
                    /\ UNCHANGED <<held.named, held.plan, held.reached>>
  BY <1>0, Reheld DEF ActiveConf
<1>6. NetworkPlan => /\ held'.plan = IF "address" \in up \/ held.conf = "text" THEN Bound(options) ELSE {}
                     /\ UNCHANGED <<held.named, held.conf, held.reached>>
  BY <1>0, Reheld DEF NetworkPlan
<1>7. DirectPort => /\ held'.reached \subseteq held.plan
                            /\ UNCHANGED <<held.named, held.conf, held.plan>>
  BY <1>0, Reheld DEF DirectPort, Reachable
<1>8. Grace => UNCHANGED <<held.age, held.named, held.conf, held.plan, held.reached>>
  <2>1. SUFFICES ASSUME Grace PROVE UNCHANGED <<held.age, held.named, held.conf, held.plan, held.reached>>
    OBVIOUS
  <2> DEFINE those == {r.check : r \in fails}
  <2>2. held' = held \/ held' = [held EXCEPT !.headline = those]
    BY <2>1 DEF Grace
  <2> HIDE DEF those
  <2>3. CASE held' = [held EXCEPT !.headline = those]
    BY <1>0, <2>3, Reheld
  <2> QED
    BY <2>2, <2>3
<1> QED
  BY <1>1, <1>2, <1>3, <1>4, <1>5, <1>6, <1>7, <1>8

LEMMA RuntimeStep ==
    ASSUME RunInv, SeenInv, [Next]_vars, Trusting'
    PROVE  RuntimeSeen'
<1> USE DEF RunInv
<1>1. /\ RuntimeSeen /\ Trusting /\ UNCHANGED <<options, full>> /\ up \subseteq full
      /\ ~Slip /\ (Run => Steady) /\ fails' = {}
  BY Quiet DEF SeenInv, Trusting
<1>2. CASE UNCHANGED <<pc, held>>
  BY <1>1, <1>2, ConfStays DEF RuntimeSeen
<1>3. CASE Config \/ SshLogin
  <2>1. pc' \in {"ssh", "deployed"}
    BY <1>1, <1>3 DEF Config, SshLogin, Trusting, Goes
  <2> QED
    BY <2>1 DEF RuntimeSeen, AfterNaming, AfterSmbd, AfterMdns, AfterRsync, AfterConf, AfterPlan, AfterBonjour
<1>4. CASE Deployed
  <2>1. pc' = "age" /\ "ramRoot" \in up
    BY <1>1, <1>4 DEF Deployed, Stop, Goes, Adds
  <2> QED
    BY <1>1, <2>1
       DEF RuntimeSeen, AfterNaming, AfterSmbd, AfterMdns, AfterRsync, AfterConf, AfterPlan, AfterBonjour
<1>5. CASE StartupAge \/ Naming \/ Compatibility
  <2>1. pc \in {"age", "naming", "compatibility"} /\ pc' \in {"naming", "compatibility", "smbd"}
        /\ (pc' \in {"compatibility", "smbd"} => held'.named = TRUE)
    BY <1>1, <1>5, Leads, Recalls, SweepKeeps DEF Sweep, RuntimeSeen, AfterNaming
  <2> QED
    BY <1>1, <2>1
       DEF RuntimeSeen, AfterNaming, AfterSmbd, AfterMdns, AfterRsync, AfterConf, AfterPlan, AfterBonjour
<1>6. CASE Smbd
  <2>1. pc = "smbd" /\ held' = held /\ up' = up /\ pc' \in {"smbd", "mdns"}
        /\ (pc' = "mdns" => fails' = fails \union Failures(SmbdFails(up)))
    BY <1>1, <1>6 DEF Smbd, Lost, Check, Goes, Adds, Nothing
  <2>2. pc' = "mdns" => SmbdFails(up) = {}
    BY <1>1, <2>1, NoFailures
  <2>3. pc' = "mdns" => SmbdParts \subseteq up
    BY <2>2 DEF SmbdFails, AccountFails, VolumeFails, TdbFails, Named, SmbdParts
  <2>4. "ramRoot" \in full /\ held'.named = TRUE
    BY <1>1, <2>1 DEF RuntimeSeen, AfterNaming
  <2>5. CASE pc' = "mdns"
    BY <1>1, <2>1, <2>3, <2>4, <2>5 DEF RuntimeSeen, SmbdParts
  <2>6. CASE pc' = "smbd"
    BY <1>1, <2>4, <2>6
       DEF RuntimeSeen, AfterSmbd, AfterMdns, AfterRsync, AfterConf, AfterPlan, AfterBonjour
  <2> QED
    BY <2>1, <2>5, <2>6
<1>7. CASE pc \in AfterSmbd /\ Run
  <2>1. held'.named = held.named
    BY <1>1, <1>7, Leads, Recalls, SweepKeeps, ListingsKeep, FileOpKeeps
       DEF Run, Sweep, Listings, AfterSmbd, AfterMdns, AfterRsync, AfterConf, AfterPlan, AfterBonjour
  <2>2. pc \in AfterNaming /\ pc \notin {"config", "ssh", "deployed"}
    BY <1>7 DEF AfterNaming, AfterSmbd, AfterMdns, AfterRsync, AfterConf, AfterPlan, AfterBonjour
  <2> QED
    BY <1>1, <1>7, <2>1, <2>2, ConfStays DEF RuntimeSeen
<1>8. ASSUME Run, pc \notin AfterSmbd
      PROVE  Config \/ SshLogin \/ Deployed \/ StartupAge \/ Naming \/ Compatibility \/ Smbd
  BY <1>8, Leads DEF Run, AfterSmbd, AfterMdns, AfterRsync, AfterConf, AfterPlan, AfterBonjour
<1>9. CASE Boot \/ (\E p \in Parts : Relapse(p)) \/ UNCHANGED vars
  BY <1>2, <1>9 DEF Boot, Relapse, vars
<1> QED
  BY <1>3, <1>4, <1>5, <1>6, <1>7, <1>8, <1>9 DEF Next

LEMMA AdvertiserStep ==
    ASSUME RunInv, SeenInv, [Next]_vars, Trusting'
    PROVE  AdvertiserSeen'
<1> USE DEF RunInv
<1>1. /\ AdvertiserSeen /\ Trusting /\ UNCHANGED <<options, full>> /\ up \subseteq full
      /\ ~Slip /\ (Run => Steady) /\ fails' = {}
  BY Quiet DEF SeenInv, Trusting
<1> DEFINE early == {"config", "ssh", "deployed", "age", "naming", "compatibility", "smbd", "mdns", "mdns_again"}
<1>2. CASE UNCHANGED <<pc, held>>
  BY <1>1, <1>2 DEF AdvertiserSeen
<1>3. CASE pc' \in early
  BY <1>3 DEF AdvertiserSeen, AfterMdns, AfterRsync, AfterConf, AfterPlan, AfterBonjour
<1>4. CASE MdnsBinary
  <2>1. /\ pc' \in {"mdns", "mdns_again", "mdns_ps", "rsync"}
        /\ pc' = "mdns_ps" => BinaryFails(up) = {}
        /\ pc' = "rsync" => BinaryFails(up) # {} /\ fails' = fails \union Failures(BinaryFails(up))
    BY <1>1, <1>4 DEF MdnsBinary, MdnsBroken, Lost, Check, Goes, Adds, Nothing, Asks
  <2>2. pc' # "rsync"
    BY <1>1, <2>1, NoFailures
  <2>3. pc' = "mdns_ps" => "mdnsBin" \in up
    BY <2>1 DEF BinaryFails
  <2> QED
    BY <1>1, <1>3, <2>1, <2>2, <2>3 DEF AdvertiserSeen, AfterMdns, AfterRsync, AfterConf, AfterPlan, AfterBonjour
<1>5. CASE MdnsProcesses
  <2>1. pc = "mdns_ps" /\ pc' = "mdns_families" /\ held'.ps = up
    BY <1>1, <1>5, Recalls DEF MdnsProcesses, MdnsBroken, Lost, Asks
  <2> QED
    BY <1>1, <2>1 DEF AdvertiserSeen, AfterMdns, AfterRsync, AfterConf, AfterPlan, AfterBonjour
<1>6. CASE MdnsFamilies
  <2>1. /\ pc = "mdns_families" /\ held' = held /\ pc' \in {"mdns", "rsync", "mdns_fstat"}
        /\ pc' = "mdns_fstat" => "address" \in up /\ "mdns" \in held.ps
        /\ pc' = "rsync" => \/ fails' = fails \union Failures(NoAddressFails(held.ps))
                            \/ fails' = fails \union Failures(NotRunningFails(held.ps))
    BY <1>1, <1>6 DEF MdnsFamilies, MdnsBroken, Lost, Check, Goes, Adds, Nothing, Asks
  <2>2. pc' # "rsync"
    BY <1>1, <2>1, NoFailures DEF NoAddressFails, NotRunningFails
  <2> QED
    BY <1>1, <1>3, <2>1, <2>2 DEF AdvertiserSeen, AfterMdns, AfterRsync, AfterConf, AfterPlan, AfterBonjour
<1>7. CASE MdnsSockets
  <2>1. /\ pc = "mdns_fstat" /\ pc' \in {"mdns", "rsync"}
        /\ pc' = "rsync" => fails' = fails \union Failures(ListenerFails(held.ps, up, options))
    BY <1>1, <1>7 DEF MdnsSockets, MdnsBroken, Lost, Check, Goes, Adds
  <2>2. pc' = "rsync" => ListenerFails(held.ps, up, options) = {}
    BY <1>1, <2>1, NoFailures
  <2>3. /\ pc' = "rsync" => "port5353" \in up /\ "appleGone" \in held.ps
        /\ (pc' = "rsync" /\ "with_afp" \in options) => AfpParts \subseteq held.ps \union up
    BY <2>2 DEF ListenerFails, AfpParts
  <2>4. /\ held.ps \subseteq full /\ {"mdns", "address", "mdnsBin"} \subseteq full
    BY <1>1, <2>1 DEF AdvertiserSeen
  <2> QED
    BY <1>1, <1>3, <2>1, <2>3, <2>4
       DEF AdvertiserSeen, MdnsParts, AfterMdns, AfterRsync, AfterConf, AfterPlan, AfterBonjour
<1>8. CASE Rsync
  <2>1. /\ pc = "rsync" /\ pc' \in {"rsync", "conf"}
        /\ pc' = "conf" => fails' = fails \union Failures(RsyncFails(up, options))
    BY <1>1, <1>8 DEF Rsync, Lost, Check, Goes, Adds
  <2>2. pc' = "conf" => RsyncFails(up, options) = {}
    BY <1>1, <2>1, NoFailures
  <2>3. pc' = "conf" => "rsyncDisk" \in up /\ ("with_rsync" \in options => RsyncRuntime \subseteq up)
    BY <2>2 DEF RsyncFails
  <2> QED
    BY <1>1, <2>1, <2>3 DEF AdvertiserSeen, AfterMdns, AfterRsync, AfterConf, AfterPlan, AfterBonjour
<1>9. CASE pc \in AfterRsync /\ Run
  <2>1. pc' \in AfterRsync
    BY <1>9, Leads DEF Run, AfterRsync, AfterConf, AfterPlan, AfterBonjour
  <2> QED
    BY <1>1, <1>9, <2>1 DEF AdvertiserSeen, AfterMdns, AfterRsync, AfterConf, AfterPlan, AfterBonjour
<1>10. ASSUME Run, pc \notin AfterRsync, pc' \notin early
       PROVE  MdnsBinary \/ MdnsProcesses \/ MdnsFamilies \/ MdnsSockets \/ Rsync
  <2>1. ~Config /\ ~SshLogin
    BY <1>1, <1>10 DEF Config, SshLogin, Trusting, Goes
  <2>2. ~Deployed
    BY <1>1, <1>10, Leads
  <2>3. ~Smbd
    BY <1>1, <1>10 DEF Smbd, Lost, Check, Goes
  <2> QED
    BY <1>10, <2>1, <2>2, <2>3, Leads DEF Run, AfterRsync, AfterConf, AfterPlan, AfterBonjour
<1>11. CASE Boot \/ (\E p \in Parts : Relapse(p)) \/ UNCHANGED vars
  BY <1>2, <1>11 DEF Boot, Relapse, vars
<1> QED
  BY <1>3, <1>4, <1>5, <1>6, <1>7, <1>8, <1>9, <1>10, <1>11 DEF Next

\* A Bonjour result with nothing to report, of a client on the device's link.
LEMMA SeenOnTheLink ==
    ASSUME NEW seen, BonjourFails(seen, TRUE, IpKnown, "text") = {}
    PROVE  /\ {"smbRecord", "srv", "hostLabel", "hostAddr"} \subseteq seen
           /\ {"infoRecords", "adisk"} \intersect seen # {} => {"adisk", "adiskTxt", "adiskShares"} \subseteq seen
<1>1. "smbRecord" \in seen /\ TargetFails(seen) = {} /\ AdiskFails(seen, "text") = {}
  BY DEF BonjourFails
<1>2. {"srv", "hostLabel", "hostAddr"} \subseteq seen
  BY <1>1 DEF TargetFails
<1>3. "infoRecords" \in seen => "adisk" \in seen
  BY <1>1 DEF AdiskFails
<1>4. "adisk" \in seen => {"adiskTxt", "adiskShares"} \subseteq seen
  BY <1>1 DEF AdiskFails, AdiskLacks
<1> QED
  BY <1>1, <1>2, <1>3, <1>4

LEMMA NetworkStep ==
    ASSUME RunInv, TogetherInv, SeenInv, [Next]_vars, Trusting'
    PROVE  NetworkSeen'
<1> USE DEF RunInv
<1>1. /\ RuntimeSeen /\ NetworkSeen /\ Trusting /\ UNCHANGED <<options, full>> /\ up \subseteq full
      /\ ~Slip /\ (Run => Steady) /\ fails' = {}
  BY Quiet DEF SeenInv, Trusting
<1>2. CASE UNCHANGED <<pc, held>>
  BY <1>1, <1>2 DEF NetworkSeen, RecordsSeen
<1>3. CASE pc' \notin AfterConf
  BY <1>3 DEF NetworkSeen, AfterConf, AfterPlan
<1>4. CASE ActiveConf
  <2>1. pc = "conf" /\ pc' = "plan" /\ "smbConf" \in up
    BY <1>1, <1>4, Leads DEF RuntimeSeen, AfterSmbd, AfterMdns, AfterRsync
  <2>2. held'.conf = "text"
    BY <1>1, <1>4, <2>1, Recalls
  <2> QED
    BY <2>1, <2>2 DEF NetworkSeen, AfterPlan, AfterBonjour
<1>5. CASE NetworkPlan
  <2>1. pc = "plan" /\ pc' = "port" /\ held.conf = "text"
    BY <1>1, <1>5, Leads DEF NetworkSeen, AfterConf
  <2>2. held'.conf = "text" /\ held'.plan = Bound(options)
    BY <1>1, <1>5, <2>1, Recalls
  <2> QED
    BY <1>1, <2>1, <2>2 DEF NetworkSeen, AfterBonjour
<1>6. CASE DirectPort
  <2>1. pc = "port" /\ pc' = "bonjour" /\ held'.conf = held.conf /\ held'.plan = held.plan
    BY <1>1, <1>6, Leads, Recalls
  <2> QED
    BY <1>1, <2>1 DEF NetworkSeen, AfterConf, AfterPlan, AfterBonjour
<1>7. CASE Bonjour
  <2>1. pc = "bonjour" /\ pc' = "smb" /\ held' = held
    BY <1>1, <1>7, Leads, SweepKeeps DEF Sweep
  <2>2. held.conf = "text" /\ held.plan = Bound(options) /\ held.named = TRUE
    BY <1>1, <2>1 DEF NetworkSeen, RuntimeSeen, AfterNaming, AfterSmbd, AfterMdns, AfterRsync, AfterConf, AfterPlan
  <2>3. ASSUME {"skip_bonjour", "proxied"} \intersect options = {}
        PROVE  RecordsSeen
    <3>1. fails' = fails \union {Failure(c, FALSE) : c \in BonjourResults(TRUE)}
      BY <1>1, <1>7, <2>2, <2>3 DEF Bonjour, Adds
    <3>2. BonjourResults(TRUE) = {}
      BY <1>1, <3>1
    <3>3. "ipv4" \in BrowsedFamilies(held.plan, options)
      BY <2>2 DEF BrowsedFamilies, Bound, Routed
    <3>4. ChosenFails(Zeroconf("ipv4"), Native("ipv4"), options) = {}
      BY <3>2, <3>3 DEF BonjourResults
    <3>5. Browse("ipv4") = {}
      BY <3>4 DEF ChosenFails, Zeroconf, Native
    <3> DEFINE seen == OnAir("ipv4", up, options)
    <3>6. /\ {"smbRecord", "srv", "hostLabel", "hostAddr"} \subseteq seen
          /\ {"infoRecords", "adisk"} \intersect seen # {} => {"adisk", "adiskTxt", "adiskShares"} \subseteq seen
      BY <2>2, <3>5, SeenOnTheLink DEF Browse
    <3>7. seen \in {up, {}}
      BY DEF OnAir
    <3> HIDE DEF seen
    <3>8. seen = up
      BY <3>6, <3>7
    <3>9. \A q \in BonjourParts \intersect full : q \in up
      BY <3>6, <3>8 DEF TogetherInv, BonjourParts
    <3> QED
      BY <1>1, <3>6, <3>8, <3>9 DEF RecordsSeen, BonjourParts
  <2> QED
    BY <1>1, <2>1, <2>2, <2>3 DEF NetworkSeen, RecordsSeen, AfterConf, AfterPlan, AfterBonjour
<1>8. CASE pc \in AfterBonjour /\ Run
  <2>1. pc' \in AfterBonjour
    BY <1>8, Leads DEF Run, AfterBonjour
  <2>2. held'.conf = held.conf /\ held'.plan = held.plan
    BY <1>1, <1>8, Leads, Recalls, ListingsKeep, FileOpKeeps DEF Run, Listings, AfterBonjour
  <2> QED
    BY <1>1, <1>8, <2>1, <2>2 DEF NetworkSeen, RecordsSeen, AfterConf, AfterPlan
<1>9. ASSUME Run, pc \notin AfterBonjour, pc' \in AfterConf
      PROVE  ActiveConf \/ NetworkPlan \/ DirectPort \/ Bonjour
  <2>1. ~Config /\ ~SshLogin
    BY <1>1, <1>9 DEF Config, SshLogin, Trusting, Goes, AfterConf, AfterPlan, AfterBonjour
  <2>2. ~Deployed
    BY <1>1, <1>9, Leads DEF AfterConf, AfterPlan, AfterBonjour
  <2> QED
    BY <1>9, <2>1, <2>2, Leads DEF Run, AfterConf, AfterPlan, AfterBonjour
<1>10. CASE Boot \/ (\E p \in Parts : Relapse(p)) \/ UNCHANGED vars
  BY <1>2, <1>10 DEF Boot, Relapse, vars
<1> QED
  BY <1>3, <1>4, <1>5, <1>6, <1>7, <1>8, <1>9, <1>10 DEF Next

LEMMA SharesStep ==
    ASSUME RunInv, MissingInv, WrittenInv, SeenInv, [Next]_vars, Trusting'
    PROVE  SharesSeen'
<1> USE DEF RunInv
<1>1. /\ SharesSeen /\ Trusting /\ UNCHANGED <<options, full>> /\ up \subseteq full
      /\ ~Slip /\ (Run => Steady) /\ fails' = {} /\ fails = {}
  BY Quiet DEF SeenInv, Trusting
<1>2. CASE UNCHANGED <<pc, listing, share>>
  BY <1>1, <1>2 DEF SharesSeen
<1>3. CASE pc' \notin {"ops", "grace", "done"} /\ listing' = listing
  BY <1>1, <1>3 DEF SharesSeen
<1>4. CASE BeginSmb
  <2>1. /\ listing'.passed = {} /\ pc' \in {"list", "grace"}
        /\ pc' = "grace" => "skip_smb" \in options
    BY <1>4 DEF BeginSmb, NoListing, Goes
  <2> QED
    BY <1>1, <2>1 DEF SharesSeen
<1>5. CASE List
  <2>1. PICK outcomes : ListGroup(outcomes) /\ ("pass" \in outcomes => "login" \in up)
    <3> DEFINE these == IF "no_smbclient" \in options THEN {"missing"}
                        ELSE {Outcome(t, up, options) : t \in Head(listing.todo)}
    <3>1. ListGroup(these)
      BY <1>1, <1>5 DEF List
    <3>2. \A t : Outcome(t, up, options) = "pass" => "login" \in up
      BY DEF Outcome
    <3>3. "pass" \in these => "login" \in up
      BY <3>2
    <3> QED
      BY <3>1, <3>3
  <2>2. listing'.passed = listing.passed \/ "login" \in full
    BY <1>1, <2>1, ListGroupDoes
  <2>3. pc' = "list"
    BY <1>5, Leads
  <2> QED
    BY <1>1, <2>2, <2>3 DEF SharesSeen
<1>6. CASE NoneListed
  <2>1. /\ listing'.passed = {} /\ pc = "list" /\ pc' \in {"list", "grace"}
        /\ (pc' = "grace" /\ listing.lost # {"missing"}) => fails' # {}
    BY <1>6 DEF NoneListed, NoListing, Goes, Adds, SmbResult
  <2>2. listing.lost # {"missing"}
    BY <1>1, <2>1 DEF MissingInv
  <2> QED
    BY <1>1, <2>1, <2>2 DEF SharesSeen
<1>7. CASE TunnelLost
  <2>1. fails' # {}
    BY <1>7 DEF TunnelLost, Adds, SmbResult
  <2> QED
    BY <1>1, <2>1
<1>8. CASE SelectShare
  <2>1. /\ pc = "list" /\ listing' = listing /\ listing.passed # {} /\ share' = share
        /\ pc' = "ops" /\ "shares" \in up
    BY <1>1, <1>8 DEF SelectShare, Nothing, Goes, Adds
  <2>2. share'.done = 0
    BY <2>1 DEF WrittenInv, Untouched
  <2> QED
    BY <1>1, <2>1, <2>2 DEF SharesSeen
<1>9. CASE FileOp
  <2>1. /\ pc = "ops" /\ listing' = listing /\ pc' \in {"ops", "grace"} /\ "writes" \in up
    BY <1>1, <1>9, FileOpKeeps DEF FileOp, Goes, Adds
  <2> QED
    BY <1>1, <2>1 DEF SharesSeen, SmbParts
<1>10. CASE Grace
  <2>1. pc = "grace" /\ pc' = "done" /\ listing' = listing
    BY <1>10, Leads, NotesKeep DEF Notes
  <2> QED
    BY <1>1, <2>1 DEF SharesSeen
<1>11. CASE Sweep \/ (Notes /\ ~Grace)
  <2>1. listing' = listing
    BY <1>11, SweepKeeps, NotesKeep
  <2>2. pc' \notin {"ops", "grace", "done"}
    BY <1>1, <1>11, Leads DEF Sweep, Notes
  <2> QED
    BY <1>3, <2>1, <2>2
<1>12. CASE Boot \/ (\E p \in Parts : Relapse(p)) \/ UNCHANGED vars
  BY <1>2, <1>12 DEF Boot, Relapse, vars
<1> QED
  BY <1>4, <1>5, <1>6, <1>7, <1>8, <1>9, <1>10, <1>11, <1>12 DEF Next, Run, Sweep, Notes

\* Every part is one that some check is about.
LEMMA PartsAre ==
    Parts = {"ramRoot", "rsyncDisk"} \union SmbdParts \union MdnsParts \union RsyncRuntime \union BonjourParts
            \union AfpParts \union SmbParts
  BY DEF Parts, ToSet, Tiers, SmbdParts, MdnsParts, RsyncRuntime, BonjourParts, AfpParts, SmbParts

(* A lasting fault of a part that is looked at does not end in a clean     *)
(* report, whatever comes up, goes away and comes back meanwhile           *)
(* (run_doctor_checks with its retries, second backend, other family,      *)
(* tunnel and startup grace).                                              *)
THEOREM FaultsReported == Spec => []NothingMissed
<1>1. Init => MissingInv /\ WrittenInv /\ SeenInv
  <2> SUFFICES ASSUME Init PROVE MissingInv /\ WrittenInv /\ SeenInv
    OBVIOUS
  <2>1. pc = "config" /\ listing = NoListing /\ share = Untouched
    BY DEF Init, Untouched
  <2> QED
    BY <2>1 DEF MissingInv, WrittenInv, NoListing, Untouched, SeenInv, RuntimeSeen, AdvertiserSeen, NetworkSeen,
                SharesSeen, AfterNaming, AfterSmbd, AfterMdns, AfterRsync, AfterConf, AfterPlan, AfterBonjour
<1>2. RunInv /\ TogetherInv /\ MissingInv /\ WrittenInv /\ SeenInv /\ [Next]_vars => (MissingInv /\ WrittenInv /\ SeenInv)'
  BY MissingStep, WrittenStep, RuntimeStep, AdvertiserStep, NetworkStep, SharesStep DEF SeenInv
<1>3. RunInv /\ SeenInv => NothingMissed
  <2> SUFFICES ASSUME RunInv, SeenInv, pc = "done", ~luck.slipped, fails = {}, NEW p \in faults \intersect Watched
               PROVE  FALSE
    BY DEF NothingMissed
  <2>1. "skip_ssh" \notin options /\ p \in Parts
    BY DEF Watched
  <2>2. p \notin full
    BY FullIs DEF RunInv, DeviceInv
  <2>3. /\ "ramRoot" \in full /\ SmbdParts \subseteq full /\ MdnsParts \subseteq full /\ "rsyncDisk" \in full
        /\ "with_afp" \in options => AfpParts \subseteq full
        /\ "with_rsync" \in options => RsyncRuntime \subseteq full
        /\ {"skip_bonjour", "proxied"} \intersect options = {} => RecordsSeen
        /\ "skip_smb" \notin options => SmbParts \subseteq full
    BY <2>1 DEF SeenInv, Trusting, RuntimeSeen, AdvertiserSeen, NetworkSeen, SharesSeen,
                AfterSmbd, AfterMdns, AfterRsync, AfterConf, AfterPlan, AfterBonjour
  <2>4. {"infoRecords", "adisk"} \subseteq faults \union full
    <3> SUFFICES ASSUME NEW r \in {"infoRecords", "adisk"}, r \notin faults PROVE r \in full
      OBVIOUS
    <3> DEFINE D == MdnsParts \union {r}
    <3>1. D \subseteq Parts \ faults
      BY <2>3, FullIs, PartsAre DEF RunInv, DeviceInv, BonjourParts
    <3>2. /\ \A need \in Needs : need[1] \in D => need[2] \in D
          /\ D \intersect RsyncRuntime = {} /\ D \intersect AfpParts = {}
      BY DEF Needs, MdnsParts, BonjourParts, RsyncRuntime, AfpParts
    <3> HIDE DEF D
    <3>3. D \subseteq full
      BY <3>1, <3>2, FullHas DEF RunInv, DeviceInv
    <3> QED
      BY <3>3 DEF D
  <2> HIDE DEF RunInv
  <2>5. CASE p \in BonjourParts
    <3>1. /\ {"skip_bonjour", "proxied"} \intersect options = {} /\ p # "infoRecords"
          /\ p \in {"adisk", "adiskTxt", "adiskShares"} => ~({"infoRecords", "adisk"} \subseteq faults)
      BY <2>1, <2>5 DEF Watched
    <3>2. p \in {"adisk", "adiskTxt", "adiskShares"}
      BY <2>2, <2>3, <2>5, <3>1 DEF RecordsSeen, BonjourParts
    <3> QED
      BY <2>2, <2>3, <2>4, <3>1, <3>2 DEF RecordsSeen
  <2>6. CASE p \notin BonjourParts
    BY <2>1, <2>2, <2>3, <2>6, PartsAre DEF Watched
  <2> QED
    BY <2>5, <2>6
<1> QED
  BY <1>1, <1>2, <1>3, RunHolds, TogetherHolds, PTL DEF Spec

-----------------------------------------------------------------------------
(* No false alarm.                                                         *)

LEMMA Five ==
    \A a, b, c, d, e : IsFiniteSet({a, b, c, d, e})
<1> SUFFICES ASSUME NEW a, NEW b, NEW c, NEW d, NEW e PROVE IsFiniteSet({a, b, c, d, e})
  OBVIOUS
<1>1. IsFiniteSet({a})
  BY FS_Singleton
<1>2. IsFiniteSet({a} \union {b})
  BY <1>1, FS_AddElement
<1>3. IsFiniteSet(({a} \union {b}) \union {c})
  BY <1>2, FS_AddElement
<1>4. IsFiniteSet((({a} \union {b}) \union {c}) \union {d})
  BY <1>3, FS_AddElement
<1>5. IsFiniteSet(((({a} \union {b}) \union {c}) \union {d}) \union {e})
  BY <1>4, FS_AddElement
<1>6. ((({a} \union {b}) \union {c}) \union {d}) \union {e} = {a, b, c, d, e}
  OBVIOUS
<1> QED
  BY <1>5, <1>6

\* The bound on mishaps of a world is a number.
LEMMA MishapsIs ==
    ASSUME faults \subseteq Parts, options \subseteq Options
    PROVE  Mishaps \in Int
<1>1. IsFiniteSet(Parts)
  <2> DEFINE A == {"ramRoot", "manager", "mdnsBin", "volumes", "payload"}
             B == {"rsyncDisk", "smbdBin", "smbConf", "passdb", "usermap"}
             C == {"tdbOnDisk", "smbd", "port445", "login", "shares"}
             D == {"writes", "rsyncRam", "rsync", "port873", "address"}
             E == {"mdns", "appleGone", "port5353", "smbRecord", "srv"}
             F == {"hostLabel", "hostAddr", "adisk", "adiskTxt", "adiskShares"}
             G == {"afpServer", "port548", "afpRecord", "afpAdisk", "infoRecords"}
  <2>1. Parts = ((A \union B) \union (C \union D)) \union ((E \union F) \union G)
    BY PartsAre DEF SmbdParts, MdnsParts, RsyncRuntime, BonjourParts, AfpParts, SmbParts
  <2>2. /\ IsFiniteSet(A) /\ IsFiniteSet(B) /\ IsFiniteSet(C) /\ IsFiniteSet(D)
        /\ IsFiniteSet(E) /\ IsFiniteSet(F) /\ IsFiniteSet(G)
    BY Five
  <2> HIDE DEF A, B, C, D, E, F, G
  <2>3. IsFiniteSet(A \union B) /\ IsFiniteSet(C \union D) /\ IsFiniteSet(E \union F)
    BY <2>2, FS_Union
  <2>4. IsFiniteSet((A \union B) \union (C \union D)) /\ IsFiniteSet((E \union F) \union G)
    BY <2>2, <2>3, FS_Union
  <2> QED
    BY <2>1, <2>4, FS_Union
<1>2. IsFiniteSet(Options)
  <2> DEFINE A == {"with_rsync", "with_afp", "dual", "lan_only", "off_link"}
             B == {"no_v6", "local_denied", "no_zeroconf", "no_native", "no_smbclient"}
             C == {"no_sshpass", "proxied", "named_host", "netbsd4", "old_version"}
             D == {"not_deployed", "skip_ssh", "skip_bonjour", "skip_smb", "no_grace"}
  <2>1. Options = (A \union B) \union (C \union D)
    BY DEF Options
  <2>2. IsFiniteSet(A) /\ IsFiniteSet(B) /\ IsFiniteSet(C) /\ IsFiniteSet(D)
    BY Five
  <2> HIDE DEF A, B, C, D
  <2>3. IsFiniteSet(A \union B) /\ IsFiniteSet(C \union D)
    BY <2>2, FS_Union
  <2> QED
    BY <2>1, <2>3, FS_Union
<1>3. Cardinality(faults) \in Nat /\ Cardinality(options) \in Nat
  BY <1>1, <1>2, FS_Subset, FS_CardinalityType
<1> QED
  BY <1>3, BoundsAssumption DEF Mishaps

\* Mishaps are used up and never come back.
LuckInv ==
    /\ faults \subseteq Parts /\ options \subseteq Options
    /\ luck.mishaps \in Int /\ luck.mishaps <= Mishaps

LEMMA LuckStep ==
    ASSUME RunInv, LuckInv, [Next]_vars
    PROVE  LuckInv' /\ Mishaps' = Mishaps
<1> USE DEF RunInv
<1>1. /\ UNCHANGED <<faults, options>>
      /\ Run => Steady \/ Slip
  BY SweepKeeps, NotesKeep, ListingsKeep, FileOpKeeps
     DEF Next, Run, Sweep, Notes, Listings, Boot, Relapse, vars, world
<1>2. Mishaps' = Mishaps
  BY <1>1 DEF Mishaps
<1>3. luck'.mishaps = luck.mishaps \/ luck'.mishaps = luck.mishaps - 1
  BY <1>1, Luck DEF Next, Boot, vars, Steady
<1>4. luck'.mishaps \in Int /\ luck'.mishaps <= Mishaps
  BY <1>3, MishapsIs DEF LuckInv
<1> QED
  BY <1>1, <1>2, <1>4 DEF LuckInv

\* A run of a client that can reach a device that is well and stays well.
CalmRun == Calm /\ faults = {} /\ ~Unable

Near == {"host"} \union OnLink(options)
Denied == "local_denied" \in options

\* The listing of such a run: through the tunnel it passes, and directly too
\* unless the client may not talk to its own network.
ListedInv ==
    \/ /\ listing.tunnel = TRUE
       /\ listing.todo = <<{"tunnel"}>> \/ (listing.todo = <<>> /\ listing.passed # {})
    \/ /\ listing.tunnel = FALSE /\ listing.todo \in Seq((SUBSET Near) \ {{}})
       /\ Denied => /\ listing.passed = {} /\ listing.seen = {} /\ listing.lost \subseteq {"unreachable"}
                    /\ listing.todo = <<>> => listing.lost = {"unreachable"}
       /\ (~Denied /\ listing.todo = <<>>) => listing.passed # {}

\* It has nothing to report at any step.
CalmState ==
    /\ up = full /\ fails = {}
    /\ pc \notin {"mdns_again", "crashed"}
    /\ pc \in {"mdns_families", "mdns_fstat"} => held.ps = full
    /\ held.plan \in {{}, Bound(options)} /\ held.reached \subseteq Families
    /\ pc = "list" => ListedInv

CalmInv == CalmRun => CalmState

\* Nothing happens to such a run but its own steps.
LEMMA StaysCalm ==
    ASSUME RunInv, LuckInv, CalmInv, [Next]_vars, CalmRun'
    PROVE  /\ CalmRun /\ CalmState
           /\ ~Slip /\ UNCHANGED <<options, faults, full, up>>
           /\ (Run /\ Steady) \/ UNCHANGED vars
<1> USE DEF RunInv
<1>1. luck'.mishaps = Mishaps /\ luck'.slipped = FALSE /\ luck'.calm = TRUE
  BY LuckStep DEF CalmRun, Calm
<1>2. luck.mishaps - 1 # luck'.mishaps
  BY <1>1, MishapsIs DEF LuckInv
<1>3. ~Slip /\ ~\E p \in Parts : Relapse(p)
  BY <1>2, Luck
<1>4. /\ UNCHANGED <<faults, options, full>>
      /\ Run => Steady
      /\ Run => up' = up
  BY <1>3, SweepKeeps, NotesKeep, ListingsKeep, FileOpKeeps
     DEF Next, Run, Sweep, Notes, Listings, Boot, Relapse, vars, world
<1>5. luck' = luck
  BY <1>3, <1>4 DEF Next, Boot, vars, Steady
<1>6. CalmRun
  BY <1>4, <1>5, LuckStep DEF CalmRun, Calm, Unable
<1>7. ~Boot
  BY <1>6 DEF CalmInv, CalmState, Boot, Begun
<1> QED
  BY <1>3, <1>4, <1>6, <1>7 DEF Next, CalmInv, vars

\* A full boot of a device that is well brings up all that its set-up has.
LEMMA WellIs ==
    ASSUME RunInv, faults = {}
    PROVE  /\ {"ramRoot", "rsyncDisk"} \union SmbdParts \union MdnsParts \union BonjourParts \union SmbParts
                \subseteq full
           /\ "with_rsync" \in options => RsyncRuntime \subseteq full
           /\ "with_afp" \in options => AfpParts \subseteq full
<1> DEFINE D == {"ramRoot", "rsyncDisk"} \union SmbdParts \union MdnsParts \union BonjourParts \union SmbParts
           E == AfpParts \union MdnsParts
<1>1. /\ \A need \in Needs : need[1] \in D => need[2] \in D
      /\ D \intersect RsyncRuntime = {} /\ D \intersect AfpParts = {}
  <2> USE DEF Needs, SmbdParts, MdnsParts, BonjourParts, SmbParts, RsyncRuntime, AfpParts
  <2>1. D \intersect RsyncRuntime = {} /\ D \intersect AfpParts = {}
    OBVIOUS
  <2>2. \A need \in Needs : need[2] \in D \union {"rsyncRam", "rsync", "afpServer"}
    OBVIOUS
  <2>3. \A need \in Needs : need[2] \in {"rsyncRam", "rsync", "afpServer"} => need[1] \notin D
    OBVIOUS
  <2> QED
    BY <2>1, <2>2, <2>3
<1>2. /\ \A need \in Needs : need[1] \in E => need[2] \in E
      /\ E \intersect RsyncRuntime = {}
  BY DEF Needs, MdnsParts, BonjourParts, RsyncRuntime, AfpParts
<1>3. D \subseteq Parts /\ E \subseteq Parts
  BY PartsAre
<1> HIDE DEF D, E
<1>4. D \subseteq full
  BY <1>1, <1>3, FullHas DEF RunInv, DeviceInv
<1>5. "with_afp" \in options => E \subseteq full
  BY <1>2, <1>3, FullHas DEF RunInv, DeviceInv
<1>6. "with_rsync" \in options => RsyncRuntime \subseteq full
  <2>1. /\ \A need \in Needs : need[1] \in RsyncRuntime => need[2] \in RsyncRuntime
        /\ RsyncRuntime \intersect AfpParts = {}
    BY DEF Needs, BonjourParts, RsyncRuntime, AfpParts
  <2>2. RsyncRuntime \subseteq Parts
    BY PartsAre
  <2> QED
    BY <2>1, <2>2, FullHas DEF RunInv, DeviceInv
<1> QED
  BY <1>4, <1>5, <1>6 DEF D, E

\* The client of a calm run is on the device's link.
LEMMA OnTheLink ==
    ASSUME ~Unable
    PROVE  /\ "ipv4" \in OnLink(options) /\ OnLink(options) \subseteq Bound(options)
           /\ Routed(options) = OnLink(options) /\ OnLink(options) \subseteq Answers(options)
           /\ {"no_smbclient", "not_deployed", "old_version"} \intersect options = {}
           /\ ~({"netbsd4", "no_sshpass"} \subseteq options)
           /\ "no_zeroconf" \in options => "no_native" \notin options
  BY DEF Unable, OnLink, Bound, Routed, Answers

\* No probe of a device that is well and all up reports a failure.
LEMMA NoProbeFails ==
    ASSUME RunInv, faults = {}, up = full
    PROVE  /\ SmbdFails(up) = {} /\ BinaryFails(up) = {} /\ RsyncFails(up, options) = {}
           /\ "address" \in up /\ "mdns" \in up
           /\ held.ps = full => ListenerFails(held.ps, up, options) = {}
           /\ {"ramRoot", "smbConf", "tdbOnDisk", "port445", "login", "shares", "writes"} \subseteq up
<1> USE WellIs
<1>1. SmbdFails(up) = {}
  BY DEF SmbdFails, AccountFails, VolumeFails, TdbFails, Named, SmbdParts
<1>2. BinaryFails(up) = {} /\ "address" \in up /\ "mdns" \in up
  BY DEF BinaryFails, MdnsParts
<1>3. RsyncFails(up, options) = {}
  BY DEF RsyncFails
<1>4. held.ps = full => ListenerFails(held.ps, up, options) = {}
  BY DEF ListenerFails, MdnsParts, AfpParts
<1>5. {"ramRoot", "smbConf", "tdbOnDisk", "port445", "login", "shares", "writes"} \subseteq up
  BY DEF SmbdParts, SmbParts
<1> QED
  BY <1>1, <1>2, <1>3, <1>4, <1>5

\* Nor does Bonjour, on whatever families and with either backend.
LEMMA NoBonjourFails ==
    ASSUME RunInv, faults = {}, up = full, ~Unable, held.plan \in {{}, Bound(options)}
    PROVE  BonjourResults(TRUE) = {}
<1> SUFFICES ASSUME NEW f \in BrowsedFamilies(held.plan, options)
             PROVE  ChosenFails(Zeroconf(f), Native(f), options) = {}
  BY DEF BonjourResults
<1>1. OnAir(f, up, options) = up
  BY OnTheLink DEF BrowsedFamilies, OnAir
<1>2. BonjourParts \subseteq up
  BY WellIs
<1>3. Browse(f) = {}
  BY <1>1, <1>2 DEF Browse, BonjourFails, TargetFails, AdiskFails, AdiskLacks, BonjourParts
<1>4. CASE "no_zeroconf" \in options
  <2>1. TriesNative({"zeroconf"}, options)
    BY <1>4, OnTheLink DEF TriesNative, Mismatch
  <2> QED
    BY <1>3, <1>4, <2>1 DEF ChosenFails, Zeroconf, Native
<1>5. CASE "no_zeroconf" \notin options
  BY <1>3, <1>5 DEF ChosenFails, Zeroconf, TriesNative
<1> QED
  BY <1>4, <1>5

\* What is listed of such a run.
LEMMA Outcomes ==
    ASSUME RunInv, faults = {}, up = full, ~Unable
    PROVE  /\ Outcome("tunnel", up, options) = "pass"
           /\ \A t \in Near : Outcome(t, up, options) = IF Denied THEN "unreachable" ELSE "pass"
<1>1. "port445" \in up /\ "login" \in up
  BY NoProbeFails
<1>2. "tunnel" \notin Families /\ "host" \notin Families
  BY DEF Families
<1>3. "tunnel" \notin Near
  BY DEF Near, OnLink, Bound
<1>4. Outcome("tunnel", up, options) = "pass"
  BY <1>1, <1>2 DEF Outcome
<1>5. ASSUME NEW t \in Near
      PROVE  Outcome(t, up, options) = IF Denied THEN "unreachable" ELSE "pass"
  <2>1. t # "tunnel" /\ "ipv4" \in Answers(options) /\ t \notin Families \ Answers(options)
    BY <1>2, <1>3, OnTheLink DEF Near
  <2> QED
    BY <1>1, <2>1 DEF Outcome, Denied
<1> QED
  BY <1>4, <1>5

LEMMA GroupsAre ==
    ASSUME ~Unable, held.plan \in {{}, Bound(options)}, held.reached \subseteq Families
    PROVE  /\ Groups(held.plan, held.reached, options) \in Seq((SUBSET Near) \ {{}})
           /\ Groups(held.plan, held.reached, options) # <<>>
<1> DEFINE targets == Targets(held.plan, options)
           found == held.reached \intersect targets
           group(f) == IF f \in found THEN <<{f}>> ELSE <<>>
           groups == Groups(held.plan, held.reached, options)
<1>1. targets \in (SUBSET Near) \ {{}}
  BY OnTheLink DEF Targets, Near, Bound
<1>2. groups = IF found = {} THEN <<targets>> ELSE group("ipv4") \o group("ipv6")
  BY DEF Groups
<1>3. found \subseteq {"ipv4", "ipv6"} /\ \A f \in found : {f} \in (SUBSET Near) \ {{}}
  BY <1>1 DEF Families
<1> HIDE DEF targets, found, groups
<1> SUFFICES ASSUME NEW S, S = (SUBSET Near) \ {{}}
             PROVE  groups \in Seq(S) /\ groups # <<>>
  BY DEF groups
<1>4. CASE found = {}
  BY <1>1, <1>2, <1>4
<1>5. CASE {"ipv4", "ipv6"} \subseteq found
  <2>1. groups = <<{"ipv4"}>> \o <<{"ipv6"}>>
    BY <1>2, <1>5
  <2>2. <<{"ipv4"}>> \in Seq(S) /\ <<{"ipv6"}>> \in Seq(S)
    BY <1>3, <1>5
  <2> QED
    BY <2>1, <2>2
<1>6. CASE "ipv4" \in found /\ "ipv6" \notin found
  <2>1. groups = <<{"ipv4"}>> \o <<>> /\ {"ipv4"} \in S
    BY <1>2, <1>3, <1>6
  <2>2. <<{"ipv4"}>> \in Seq(S)
    BY <2>1
  <2> QED
    BY <2>1, <2>2
<1>7. CASE "ipv4" \notin found /\ "ipv6" \in found
  <2>1. groups = <<>> \o <<{"ipv6"}>> /\ {"ipv6"} \in S
    BY <1>2, <1>3, <1>7
  <2>2. <<{"ipv6"}>> \in Seq(S)
    BY <2>1
  <2> QED
    BY <2>1, <2>2
<1> QED
  BY <1>3, <1>4, <1>5, <1>6, <1>7

LEMMA CalmLook ==
    ASSUME RunInv, LuckInv, CalmInv, Sweep \/ Notes, CalmRun'
    PROVE  CalmState'
<1> USE DEF RunInv
<1>1. /\ CalmRun /\ CalmState /\ faults = {} /\ ~Unable /\ Steady /\ ~Slip
      /\ UNCHANGED <<options, faults, full, up>>
  <2>1. [Next]_vars
    BY DEF Next, Run, Sweep, Notes
  <2> QED
    BY <2>1, StaysCalm, SweepKeeps, NotesKeep DEF CalmRun
<1>2. up' = full' /\ pc' # "list"
  BY <1>1, Leads DEF CalmState, Sweep, Notes
<1>3. held'.plan \in {{}, Bound(options)} /\ held'.reached \subseteq Families
  <2>1. held.plan \in {{}, Bound(options)} /\ held.reached \subseteq Families /\ Bound(options) \subseteq Families
    BY <1>1 DEF CalmState, Bound, Families
  <2>2. CASE Sweep
    BY <2>1, <2>2, SweepKeeps
  <2>3. CASE Notes
    BY <1>1, <2>1, <2>3, Recalls DEF Notes
  <2> QED
    BY <2>2, <2>3
<1>4. /\ \A r : r \notin Failures({})
      /\ fails = {} /\ up = full
  BY <1>1, NoFailures DEF CalmState
<1>5. /\ SmbdFails(up) = {} /\ BinaryFails(up) = {} /\ RsyncFails(up, options) = {}
      /\ "address" \in up /\ "mdns" \in up
      /\ held.ps = full => ListenerFails(held.ps, up, options) = {}
      /\ {"ramRoot", "smbConf", "tdbOnDisk", "port445", "login", "shares", "writes"} \subseteq up
  BY <1>1, <1>4, NoProbeFails
<1> SUFFICES /\ fails' = {} /\ pc' \notin {"mdns_again", "crashed"}
             /\ pc' \in {"mdns_families", "mdns_fstat"} => held'.ps = full
  BY <1>1, <1>2, <1>3 DEF CalmState
<1> USE DEF Adds, Goes, Nothing, Lost, MdnsBroken, Asks, Check, Stop, MayPass
<1>6. CASE Config \/ SshLogin \/ Deployed \/ Compatibility
  BY <1>1, <1>4, <1>5, <1>6, OnTheLink DEF Config, SshLogin, Deployed, Compatibility
<1>7. CASE StartupAge \/ Naming \/ NetworkPlan \/ DirectPort
  BY <1>1, <1>4, <1>7 DEF StartupAge, Naming, NetworkPlan, DirectPort
<1>8. CASE Smbd
  BY <1>1, <1>4, <1>5, <1>8 DEF Smbd
<1>9. CASE MdnsBinary
  BY <1>1, <1>4, <1>5, <1>9 DEF MdnsBinary, CalmState
<1>10. CASE MdnsProcesses
  <2>1. held'.ps = up
    BY <1>1, <1>10, Recalls
  <2> QED
    BY <1>1, <1>4, <1>10, <2>1 DEF MdnsProcesses
<1>11. CASE MdnsFamilies
  <2>1. held.ps = full
    BY <1>1, <1>11 DEF CalmState, MdnsFamilies
  <2> QED
    BY <1>1, <1>4, <1>5, <1>11, <2>1 DEF MdnsFamilies
<1>12. CASE MdnsSockets
  <2>1. held.ps = full
    BY <1>1, <1>12 DEF CalmState, MdnsSockets
  <2> QED
    BY <1>1, <1>4, <1>5, <1>12, <2>1 DEF MdnsSockets
<1>13. CASE Rsync
  BY <1>1, <1>4, <1>5, <1>13 DEF Rsync
<1>14. CASE ActiveConf
  BY <1>1, <1>4, <1>5, <1>14 DEF ActiveConf
<1>15. CASE Bonjour
  <2>1. BonjourResults(TRUE) = {}
    BY <1>1, <1>4, NoBonjourFails DEF CalmState
  <2> QED
    BY <1>1, <1>4, <1>15, <2>1 DEF Bonjour
<1>16. CASE Grace
  BY <1>1, <1>4, <1>16 DEF Grace
<1> QED
  BY <1>6, <1>7, <1>8, <1>9, <1>10, <1>11, <1>12, <1>13, <1>14, <1>15, <1>16 DEF Sweep, Notes

LEMMA CalmSmb ==
    ASSUME RunInv, LuckInv, CalmInv, Listings \/ FileOp, CalmRun'
    PROVE  CalmState'
<1> USE DEF RunInv
<1>1. /\ CalmRun /\ CalmState /\ faults = {} /\ ~Unable /\ ~Slip
      /\ UNCHANGED <<options, faults, full, up, held>>
  <2>1. [Next]_vars
    BY DEF Next, Run, Listings
  <2> QED
    BY <2>1, StaysCalm, ListingsKeep, FileOpKeeps DEF CalmRun
<1>2. /\ up = full /\ fails = {} /\ held.plan \in {{}, Bound(options)} /\ held.reached \subseteq Families
      /\ pc = "list" => ListedInv
      /\ {"port445", "login", "shares", "writes"} \subseteq up
  BY <1>1, NoProbeFails DEF CalmState
<1> SUFFICES fails' = {} /\ (pc' = "list" => ListedInv')
  BY <1>1, <1>2, Leads DEF CalmState, Listings
<1> USE DEF Adds, Goes, Nothing
<1>3. CASE BeginSmb
  <2>1. CASE "proxied" \in options
    <3>1. listing' = [NoListing EXCEPT !.todo = <<{"tunnel"}>>, !.tunnel = TRUE] /\ fails' = {}
      BY <1>2, <1>3, <2>1 DEF BeginSmb
    <3>2. listing'.tunnel = TRUE /\ listing'.todo = <<{"tunnel"}>>
      BY <3>1 DEF NoListing
    <3> QED
      BY <3>1, <3>2 DEF ListedInv
  <2>2. CASE "proxied" \notin options
    <3> DEFINE groups == Groups(held.plan, held.reached, options)
    <3>1. listing' = [NoListing EXCEPT !.todo = groups] /\ fails' = {}
      BY <1>2, <1>3, <2>2 DEF BeginSmb
    <3>2. groups \in Seq((SUBSET Near) \ {{}}) /\ groups # <<>>
      BY <1>1, <1>2, GroupsAre
    <3> HIDE DEF groups
    <3>3. /\ listing'.tunnel = FALSE /\ listing'.todo = groups /\ listing'.passed = {}
          /\ listing'.lost = {} /\ listing'.seen = {}
      BY <3>1 DEF NoListing
    <3>4. Near' = Near
      BY <1>1 DEF Near, OnLink, Bound
    <3> QED
      BY <3>1, <3>2, <3>3, <3>4 DEF ListedInv
  <2> QED
    BY <2>1, <2>2
<1>4. CASE List
  <2> DEFINE these == {Outcome(t, up, options) : t \in Head(listing.todo)}
  <2>1. pc = "list" /\ listing.todo # <<>> /\ ListGroup(these) /\ ListedInv /\ fails' = {}
    BY <1>1, <1>2, <1>4, OnTheLink DEF List, ListGroup
  <2>2. CASE listing.tunnel = TRUE
    <3>1. listing.todo = <<{"tunnel"}>>
      BY <2>1, <2>2 DEF ListedInv
    <3>2. Head(listing.todo) = {"tunnel"} /\ Tail(listing.todo) = <<>>
      BY <3>1
    <3>3. these = {"pass"}
      BY <1>1, <1>2, <3>2, Outcomes
    <3> HIDE DEF these
    <3>4. /\ listing'.tunnel = TRUE /\ listing'.todo = <<>>
          /\ listing'.passed = listing.passed \union {Head(listing.todo)}
      BY <2>1, <2>2, <3>2, <3>3, ListGroupDoes
    <3> QED
      BY <2>1, <3>4 DEF ListedInv
  <2>3. CASE listing.tunnel = FALSE
    <3> DEFINE S == (SUBSET Near) \ {{}}
    <3>1. listing.todo \in Seq(S)
      BY <2>1, <2>3 DEF ListedInv
    <3>2. Head(listing.todo) \in S /\ Tail(listing.todo) \in Seq(S)
      <4> HIDE DEF S
      <4> QED
        BY <2>1, <3>1
    <3>3. these = IF Denied THEN {"unreachable"} ELSE {"pass"}
      BY <1>1, <1>2, <3>2, Outcomes
    <3>4. Near' = Near /\ Denied' = Denied
      BY <1>1 DEF Near, OnLink, Bound, Denied
    <3> HIDE DEF these, S
    <3>5. CASE Denied
      <4>1. /\ listing'.tunnel = FALSE /\ listing'.todo = Tail(listing.todo) /\ listing'.seen = {}
            /\ listing'.lost = listing.lost \union listing.seen \union {"unreachable"}
            /\ listing'.passed = listing.passed
        BY <2>1, <2>3, <3>3, <3>5, ListGroupDoes DEF Retryable
      <4>2. listing.passed = {} /\ listing.seen = {} /\ listing.lost \subseteq {"unreachable"}
        BY <2>1, <2>3, <3>5 DEF ListedInv
      <4>3. /\ listing'.lost = {"unreachable"} /\ listing'.passed = {} /\ listing'.seen = {}
            /\ listing'.todo \in Seq((SUBSET Near') \ {{}})
        BY <3>2, <3>4, <4>1, <4>2 DEF S
      <4> QED
        BY <2>1, <3>4, <3>5, <4>1, <4>3 DEF ListedInv
    <3>6. CASE ~Denied
      <4>1. /\ listing'.tunnel = FALSE /\ listing'.todo = Tail(listing.todo)
            /\ listing'.passed = listing.passed \union {Head(listing.todo)}
        BY <2>1, <2>3, <3>3, <3>6, ListGroupDoes
      <4>2. listing'.todo \in Seq((SUBSET Near') \ {{}}) /\ listing'.passed # {}
        BY <3>2, <3>4, <4>1 DEF S
      <4> QED
        BY <2>1, <3>4, <3>6, <4>1, <4>2 DEF ListedInv
    <3> QED
      BY <3>5, <3>6
  <2> QED
    BY <2>1, <2>2, <2>3 DEF ListedInv
<1>5. CASE NoneListed
  <2>1. ListedInv /\ listing.todo = <<>> /\ listing.passed = {} /\ ~listing.tunnel
    BY <1>2, <1>5 DEF NoneListed
  <2>2. listing.lost = {"unreachable"}
    BY <2>1 DEF ListedInv
  <2>3. LanOnly = {}
    BY <1>1, OnTheLink DEF LanOnly
  <2>4. /\ fails' = {}
        /\ listing' = [NoListing EXCEPT !.todo = <<{"tunnel"}>>, !.tunnel = TRUE, !.direct = listing.lost]
    BY <1>2, <1>5, <2>2, <2>3 DEF NoneListed
  <2>5. listing'.tunnel = TRUE /\ listing'.todo = <<{"tunnel"}>>
    BY <2>4 DEF NoListing
  <2> QED
    BY <2>4, <2>5 DEF ListedInv
<1>6. CASE TunnelLost
  <2>1. ListedInv /\ listing.tunnel /\ listing.todo = <<>> /\ listing.passed = {}
    BY <1>1, <1>2, <1>6 DEF TunnelLost
  <2> QED
    BY <2>1 DEF ListedInv
<1>7. CASE SelectShare
  BY <1>2, <1>7 DEF SelectShare
<1>8. CASE FileOp
  <2>1. fails' = {} /\ pc' # "list"
    BY <1>1, <1>2, <1>8, Leads DEF FileOp
  <2> QED
    BY <2>1
<1> QED
  BY <1>3, <1>4, <1>5, <1>6, <1>7, <1>8 DEF Listings

(* A device that is well and a client that can reach it: no check fails,   *)
(* with one family or two, with IPv6 or without, through a tunnel where    *)
(* the client may not talk to its own network (run_doctor_checks).         *)
THEOREM WellIsClean == Spec => []NoFalseAlarm
<1>1. Init => LuckInv /\ CalmInv
  <2> SUFFICES ASSUME Init PROVE LuckInv /\ CalmInv
    OBVIOUS
  <2>1. /\ faults \subseteq Parts /\ options \subseteq Options
        /\ luck = [mishaps |-> Mishaps, slipped |-> FALSE, calm |-> up = full]
        /\ pc = "config" /\ fails = {} /\ held = NothingHeld
    BY DEF Init
  <2>2. luck.mishaps = Mishaps
    BY <2>1
  <2>3. LuckInv
    BY <2>1, <2>2, MishapsIs DEF LuckInv
  <2>4. Calm => up = full
    BY <2>1 DEF Calm
  <2>5. held.plan = {} /\ held.reached = {}
    BY <2>1 DEF NothingHeld
  <2> QED
    BY <2>1, <2>3, <2>4, <2>5 DEF CalmInv, CalmRun, CalmState
<1>2. RunInv /\ LuckInv /\ CalmInv /\ [Next]_vars => (LuckInv /\ CalmInv)'
  <2> SUFFICES ASSUME RunInv, LuckInv, CalmInv, [Next]_vars
               PROVE  LuckInv' /\ (CalmRun' => CalmState')
    BY DEF CalmInv
  <2>1. LuckInv'
    BY LuckStep
  <2>2. ASSUME CalmRun', UNCHANGED vars
        PROVE  CalmState'
    <3>1. CalmState
      BY <2>2, StaysCalm
    <3> QED
      BY <2>2, <3>1 DEF CalmState, vars, ListedInv, Near, Denied, OnLink, Bound
  <2> QED
    BY <2>1, <2>2, StaysCalm, CalmLook, CalmSmb DEF Run, Sweep, Notes, Listings
<1>3. CalmInv => NoFalseAlarm
  BY DEF CalmInv, CalmRun, CalmState, NoFalseAlarm
<1> QED
  BY <1>1, <1>2, <1>3, RunHolds, PTL DEF Spec

=============================================================================
