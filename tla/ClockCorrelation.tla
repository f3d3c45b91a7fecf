-------------------------- MODULE ClockCorrelation --------------------------
(***************************************************************************)
(* bt2ccv::ClockCorrelationValidator                                       *)
(* (src/clock-correlation-validator): whether times which different clock  *)
(* classes tell can be compared.  The first clock class validated sets     *)
(* what is expected of the next ones.                                      *)
(***************************************************************************)
EXTENDS Naturals

CONSTANT NoClockClass   \* an optional clock class, UUID, name or UID which is not there

\* _mExpectation and _mRefClockClass.
Unset == [expectation |-> "Unset", ref |-> NoClockClass]

HasComparableIdentity(cc, mip) ==
    IF mip = 0 THEN cc.uuid # NoClockClass
    ELSE cc.name # NoClockClass /\ cc.uid # NoClockClass

HasComparableOrigin(cc, mip) ==
    IF mip = 0 THEN cc.origin = "unix" ELSE cc.origin # "unknown"

\* isSameClockOrigin(), of two known origins.
IsSameOrigin(a, b) == a.origin = b.origin

IsSameId(a, b, mip) ==
    IF mip = 0 THEN a.uuid = b.uuid
    ELSE a.ns = b.ns /\ a.name = b.name /\ a.uid = b.uid

\* The expectation which the first clock class sets.
Expect(cc, mip) ==
    [ref |-> cc,
     expectation |->
        CASE cc = NoClockClass -> "None"
          [] HasComparableOrigin(cc, mip) -> "OriginKnown"
          [] HasComparableIdentity(cc, mip) -> "OriginUnknownWithId"
          [] OTHER -> "OriginUnknownWithoutId"]

\* Mutant: a clock class with a known origin is taken for its identity.
MeetsAnyOrigin(validator, cc, mip) ==
    CASE validator.expectation = "Unset" -> TRUE
      [] validator.expectation = "None" -> cc = NoClockClass
      [] cc = NoClockClass -> FALSE
      [] validator.expectation = "OriginKnown" ->
            HasComparableOrigin(cc, mip) /\ IsSameOrigin(cc, validator.ref)
      [] validator.expectation = "OriginUnknownWithId" ->
            HasComparableIdentity(cc, mip) /\ IsSameId(cc, validator.ref, mip)
      [] OTHER -> cc.obj = validator.ref.obj

\* Whether _validate() doesn't throw.
Meets(validator, cc, mip) ==
    CASE validator.expectation = "Unset" -> TRUE
      [] validator.expectation = "None" -> cc = NoClockClass
      [] cc = NoClockClass -> FALSE
      [] validator.expectation = "OriginKnown" ->
            HasComparableOrigin(cc, mip) /\ IsSameOrigin(cc, validator.ref)
      [] validator.expectation = "OriginUnknownWithId" ->
            /\ ~HasComparableOrigin(cc, mip)
            /\ HasComparableIdentity(cc, mip)
            /\ IsSameId(cc, validator.ref, mip)
      [] OTHER -> cc.obj = validator.ref.obj

\* The validator after it accepted a clock class.
Validated(validator, cc, mip) ==
    IF validator.expectation = "Unset" THEN Expect(cc, mip) ELSE validator

-----------------------------------------------------------------------------
(***************************************************************************)
(* What it is for: two clock classes can be compared if both are missing,  *)
(* if they have the same known origin, if neither origin is known but they *)
(* are instances of the same clock, or if they are the same object.        *)
(***************************************************************************)
Correlatable(a, b, mip) ==
    IF a = NoClockClass \/ b = NoClockClass THEN a = b
    ELSE \/ a.obj = b.obj
         \/ /\ HasComparableOrigin(a, mip) /\ HasComparableOrigin(b, mip)
            /\ IsSameOrigin(a, b)
         \/ /\ ~HasComparableOrigin(a, mip) /\ ~HasComparableOrigin(b, mip)
            /\ HasComparableIdentity(a, mip) /\ HasComparableIdentity(b, mip)
            /\ IsSameId(a, b, mip)
=============================================================================
