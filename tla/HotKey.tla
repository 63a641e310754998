------------------------------- MODULE HotKey -------------------------------
(***************************************************************************)
(* The sliding-window detector of backend/internal/hotkey/detector.go, for *)
(* one key.  Instead of an access's timestamp a bucket has its age, which  *)
(* AgeBuckets increases; the code compares nothing else.  Buckets have     *)
(* count 1, the only count the code makes.                                 *)
(***************************************************************************)
EXTENDS Sorting

CONSTANTS
  WindowDuration,  \* Config, in ticks of the model clock
  ThresholdCount   \* Config

ASSUME HotKeyAssumption ==
  /\ WindowDuration \in Nat \ {0}
  /\ ThresholdCount \in Nat \ {0}

VARIABLES
  keyAccess,  \* the ages of the key's buckets, oldest first
  hotKey,     \* the key is in the map hotKeys
  recent      \* history: the accesses of each of the last ticks

detectorVars == <<keyAccess, hotKey, recent>>

NewDetector ==
  /\ keyAccess = <<>>
  /\ hotKey = FALSE
  /\ recent = [a \in 0 .. WindowDuration - 1 |-> 0]

\* Variant of validBuckets: an access exactly one window old still counts.
validBucketsClosed(buckets) ==
  AtPositions(buckets, {i \in DOMAIN buckets : buckets[i] <= WindowDuration})

\* The buckets with a timestamp after the cutoff.
validBuckets(buckets) ==
  AtPositions(buckets, {i \in DOMAIN buckets : buckets[i] < WindowDuration})

\* Whether the access being recorded makes the key hot.
AccessIsHot == Len(validBuckets(keyAccess)) + 1 >= ThresholdCount

\* Expired buckets go, the access is added, and the verdict is noted.
RecordAccess ==
  /\ keyAccess' = Append(validBuckets(keyAccess), 0)
  /\ hotKey' = AccessIsHot
  /\ recent' = [recent EXCEPT ![0] = @ + 1]

\* GET /hotkeys: the buckets are pruned and the verdict is renewed.
GetHotKeys ==
  /\ keyAccess' = validBuckets(keyAccess)
  /\ hotKey' = (Len(keyAccess') >= ThresholdCount)
  /\ UNCHANGED recent

\* Time passes.  Buckets that no evaluation will count are all alike.
AgeBuckets ==
  /\ keyAccess' = [i \in DOMAIN keyAccess |->
                     IF keyAccess[i] > WindowDuration THEN keyAccess[i]
                     ELSE keyAccess[i] + 1]
  /\ recent' = [a \in DOMAIN recent |-> IF a = 0 THEN 0 ELSE recent[a - 1]]
  /\ UNCHANGED hotKey

=============================================================================
