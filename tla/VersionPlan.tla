------------------------------ MODULE VersionPlan ------------------------------
(***************************************************************************)
(* A release plan (scripts/version_plan.py): the identity allocated        *)
(* once for a release, and what it becomes in each declared version field. *)
(*                                                                         *)
(* A base version X.Y.Z is a number, in the order of versions.  A version  *)
(* or a number written into a file is a record [base, kind, seq]; two are  *)
(* the same text exactly when the records are equal.                       *)
(***************************************************************************)
EXTENDS Integers, Sequences

CONSTANTS Radix,     \* room for the attempts of one run (1,000,000 in the code)
          MaxDev,    \* largest nightly number (2^64 - 2 in the code)
          Floor      \* the policy's build_number_floor

ASSUME PlanAssumption ==
  /\ Radix \in Nat \ {0}
  /\ MaxDev \in Nat
  /\ Floor \in 0 .. 2099999999

Channels == {"nightly", "beta", "rc", "stable"}
MaxBuild == 2100000000
NoBuild == 0

\* What a sequence may be: none for a stable version, a positive number for a beta
\* or candidate, and <<time, run, attempt>> for a nightly.
WellFormed(p) ==
  CASE p.channel = "stable" -> p.seq = <<>>
    [] p.channel = "nightly" -> Len(p.seq) = 3
    [] p.channel \in {"beta", "rc"} -> Len(p.seq) = 1 /\ p.seq[1] > 0

Version(p) == [base |-> p.base, kind |-> p.channel, seq |-> p.seq]
FinalVersion(base) == [base |-> base, kind |-> "stable", seq |-> <<>>]
Number(tuple) == [base |-> 0, kind |-> "number", seq |-> tuple]

-----------------------------------------------------------------------------
(* Projections *)

DevNumber(run, attempt) == run * Radix + attempt

\* A candidate that will be promoted byte for byte already carries the final
\* version; Python packages have a spelling of their own, and number their nightlies
\* by run and attempt.
Package(p, ecosystem) ==
  IF p.channel = "rc" /\ p.promotion = "promote-bytes" THEN FinalVersion(p.base)
  ELSE IF ecosystem = "semver" \/ p.channel = "stable" THEN Version(p)
  ELSE [base |-> p.base, kind |-> "pep440 " \o p.channel,
        seq |-> IF p.channel = "nightly" THEN <<DevNumber(p.seq[2], p.seq[3])>> ELSE p.seq]

\* Apple's build numbers have three parts, the last two of two digits.
AppleLimit == 99990000
AppleBuild(b) ==
  LET n == b - 1 IN <<n \div 10000 + 1, (n \div 100) % 100, n % 100>>

\* Whether plan p has a value for declaration d at all.
Projectable(p, d) ==
  /\ d.value = "build" => p.build # NoBuild
  /\ d.value = "apple-build" => p.build \in 1 .. AppleLimit
  /\ (d.ecosystem = "pep440" /\ p.channel = "nightly") =>
       p.seq[3] < Radix /\ DevNumber(p.seq[2], p.seq[3]) <= MaxDev

\* The fifth projection, "apple-build", is all that is left.
Value(p, d) ==
  CASE d.value = "base" -> FinalVersion(p.base)
    [] d.value = "full" -> Version(p)
    [] d.value = "package" -> Package(p, d.ecosystem)
    [] d.value = "build" -> Number(<<p.build>>)
    [] OTHER -> Number(AppleBuild(p.build))

\* Fields whose committed value says nothing of the base version.
Counter(d) == d.value \in {"build", "apple-build"}

\* No two selectors of a policy name the same fields of a file.
ValidPolicy(declared) ==
  /\ declared # <<>>
  /\ \A i, j \in DOMAIN declared :
       (declared[i].path = declared[j].path /\ declared[i].slots = declared[j].slots) => i = j

\* The plan is one for this policy and source, and every declared field has a value.
ValidPlan(p, policy, declared, source) ==
  /\ WellFormed(p) /\ ValidPolicy(declared)
  /\ p.build = NoBuild \/ (p.build \in 1 .. MaxBuild /\ p.build > Floor)
  /\ p.policy = policy /\ p.source = source
  /\ \A i \in DOMAIN declared : Projectable(p, declared[i])
=============================================================================
