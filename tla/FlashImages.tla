----------------------------- MODULE FlashImages -----------------------------
(***************************************************************************)
(* What flash.py, flash_workflow.py, flash_payloads.py and                 *)
(* apple_firmware.py conclude from the two firmware banks of a NetBSD 4    *)
(* device, its ACP checksums, and the Apple templates that can be had: is a *)
(* bank a valid backup, is it the one that runs, and which image would a   *)
(* patch or a restore write.  An image stands for the bytes up to the      *)
(* footer: an Apple version and the LOGIN script found in it.              *)
(***************************************************************************)
EXTENDS Naturals, Sequences, FiniteSets

CONSTANTS Versions,   \* Apple firmware versions for this device
          Catalog,    \* those Apple's catalog lists, newest first
          Release,    \* Release[v]: the NetBSD release in version v's kernel
          Size,       \* Size[v]: length of version v's image
          Fits        \* versions whose patched image compresses into its place

ASSUME CatalogAssumption ==
    /\ Catalog \in Seq(Versions)
    /\ Fits \subseteq Versions /\ "blank" \notin Versions /\ "any" \notin Versions

Banks == {"primary", "secondary"}
Other == [primary |-> "secondary", secondary |-> "primary"]

(* login "other" is a LOGIN script that is neither Apple's nor ours.       *)
Images == [v : Versions, login : {"stock", "patched", "other"}]
Blank == [v |-> "blank", login |-> "none"]
Stock(v) == [v |-> v, login |-> "stock"]
Patched(v) == [v |-> v, login |-> "patched"]

(* A bank: the image, and the image whose checksum is in the footer.       *)
Contents == [img : Images \union {Blank}, footer : Images \union {Blank}]
Whole(image) == [img |-> image, footer |-> image]

(* find_footer and find_gzip_member: a bank can be analyzed when exactly   *)
(* one footer fits its bytes.                                              *)
Intact(c) == c.img # Blank /\ c.footer = c.img

-----------------------------------------------------------------------------
(* Inspection.  v is what was read: the banks' contents, the checksums ACP *)
(* reported, the running release, and per bank whether the live LOGIN is   *)
(* in it ("unknown" when that was not read or is of another image).        *)

View == [bank : [Banks -> Contents], cks : [Banks -> Images \union {Blank}],
         release : {Release[x] : x \in Versions} \union {"none"},
         live : [Banks -> {"yes", "no", "unknown"}]]

BackupValid(v, b) == Intact(v.bank[b]) /\ v.cks[b] = v.bank[b].footer

Candidate(v, b) == BackupValid(v, b) /\ Release[v.bank[b].img.v] = v.release

BothValid(v) == \A b \in Banks : BackupValid(v, b)

Candidates(v) == {b \in Banks : Candidate(v, b)}

(* The live LOGIN breaks a tie.                                            *)
Selected(v) ==
    LET live == {b \in Candidates(v) : v.live[b] = "yes"}
    IN  IF Cardinality(Candidates(v)) = 1 THEN Candidates(v)
        ELSE IF Cardinality(live) = 1 THEN live ELSE {}

LiveMatch(image, login) == IF image.login = login THEN "yes" ELSE "no"

-----------------------------------------------------------------------------
(* Templates.  cache[v] is the cached copy of version v; "bad" has the     *)
(* right size and the wrong bytes.                                         *)

CacheStates == {"absent", "good", "bad"}

Listed(version) == SelectSeq(Catalog, LAMBDA v : version \in {"any", v})

Got(cache, online, v) == cache[v] = "good" \/ online

(* A download that fails ends the search; a cached copy that fails is      *)
(* downloaded again first, and passed over when that fails too.            *)
EndsSearch(cache, online, v) == cache[v] = "absent" /\ ~online

(* Versions in `building` give a payload from their template.              *)
Works(cache, online, building, v) == Got(cache, online, v) /\ v \in building

(* The first version in the list that works, and none missing before it.   *)
Found(cache, online, version, building) ==
    LET list == Listed(version)
    IN  {list[i] : i \in {i \in DOMAIN list :
            /\ Works(cache, online, building, list[i])
            /\ \A j \in 1 .. i - 1 : /\ ~EndsSearch(cache, online, list[j])
                                     /\ ~Works(cache, online, building, list[j])}}

(* What the search leaves in the cache: whatever it downloaded on the way. *)
CacheAfter(cache, online, version, building) ==
    LET list == Listed(version)
        skipped(v) == \E i, j \in DOMAIN list : list[i] \in Found(cache, online, version, building)
                                                /\ list[j] = v /\ j > i
    IN  [v \in Versions |-> IF online /\ (\E i \in DOMAIN list : list[i] = v) /\ ~skipped(v)
                            THEN "good" ELSE cache[v]]

-----------------------------------------------------------------------------
(* Plans.                                                                  *)

NoPlan == [mode |-> "none", target |-> "none", payload |-> Blank, satisfied |-> FALSE]

(* A patch needs the template the bank was made from, to wrap the patched  *)
(* bank in its headers; a restore takes any of the same length.            *)
PatchBuilds(c, v) == Stock(v) = c.img
RestoreBuilds(c, v) == Size[v] = Size[c.img.v]

PatchReady(v, force) ==
    /\ Intact(v.bank["primary"])
    /\ force \/ (BothValid(v) /\ Candidate(v, "primary"))
    /\ LET image == v.bank["primary"].img
       IN  image.login = "patched" \/ (image.login = "stock" /\ image.v \in Fits)

(* What a patch writes is the bank's own image with LOGIN replaced.         *)
PatchPlan(v, force, found) ==
    LET image == v.bank["primary"].img
    IN  IF ~PatchReady(v, force) THEN {}
        ELSE IF image.login = "patched"
             THEN {[mode |-> "patch", target |-> "primary", payload |-> Blank, satisfied |-> TRUE]}
        ELSE {[mode |-> "patch", target |-> "primary", payload |-> Patched(image.v), satisfied |-> FALSE]
                 : x \in found}

(* Mutant: only the target's backup must validate.                         *)
RestoreTarget_OneValid(v) ==
    IF Selected(v) # {} THEN Selected(v) ELSE Candidates(v) \intersect {"primary"}

(* The selected bank, or the primary when several candidates remain.       *)
RestoreTarget(v) ==
    IF ~BothValid(v) THEN {}
    ELSE IF Selected(v) # {} THEN Selected(v)
    ELSE Candidates(v) \intersect {"primary"}

RestorePlan(v, b, found) ==
    {[mode |-> "restore", target |-> b, payload |-> Stock(x), satisfied |-> v.bank[b].img = Stock(x)]
        : x \in found}

Matching(c) == {v \in Versions : Stock(v) = c.img}

(* check_apple: a candidate bank against the templates, newest first.      *)
MatchFor(cache, online, c) ==
    IF Found(cache, online, "any", Matching(c)) # {} THEN "match"
    ELSE IF /\ Found(cache, online, "any", Versions) # {}
            /\ \A v \in Versions : Listed(v) # <<>> => ~EndsSearch(cache, online, v)
         THEN "differs" ELSE "error"

MatchStatus(matches) ==
    IF \A b \in DOMAIN matches : matches[b] = "match" THEN "all_candidates_match"
    ELSE IF \E b \in DOMAIN matches : matches[b] = "match" THEN "some_candidates_match"
    ELSE "no_candidates_match"
=============================================================================
