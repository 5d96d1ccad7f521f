--------------------------- MODULE LpFeeCalculator ---------------------------
(***************************************************************************)
(* LPFeeCalculator of src/lpFeeCalculator/lpFeeCalculator.ts: the fee of a *)
(* deposit is the mean of a piecewise linear interest rate between the     *)
(* utilisation of the pool before and after it.  Numbers are fixed point,  *)
(* One standing for 10^18, and every division rounds down.  What makes a   *)
(* week's fee of a yearly one is a constant.                               *)
(* A definition X_Variant is a deliberately wrong form of X.               *)
(***************************************************************************)
EXTENDS Integers, FiniteSetsExt

CONSTANTS
  One,            \* fixedPointAdjustment
  WeeklyFee(_)    \* convertApyToWeeklyFee

ASSUME OneAssumption == One \in Nat /\ One > 1 /\ One % 2 = 0

(* The models with which the calculator makes sense: its formulas neither  *)
(* divide by zero nor leave the rate at the kink out.                      *)
RateModel == [UBar : 0..(One - 1), R0 : Nat, R1 : Nat, R2 : Nat]
Usable(model) == model \in RateModel /\ (model.UBar = 0 => model.R1 = 0)

Half == One \div 2
BeforeKink(model, utilization) == Min({utilization, model.UBar})
AfterKink(model, utilization) == Max({0, utilization - model.UBar})

InstantaneousRate(model, utilization) ==
  model.R0
    + (IF model.UBar = 0 THEN 0 ELSE (BeforeKink(model, utilization) * model.R1) \div model.UBar)
    + (AfterKink(model, utilization) * model.R2) \div (One - model.UBar)

(* Two rectangles, each with a triangle on top.                            *)
Rectangle(width, height) == (width * height) \div One
Triangle(width, height) == ((Half * height * width) \div One) \div One
RateAtKink_WithoutBase(model) == model.R1
RateAtKink(model) == model.R0 + model.R1
AreaUnderRateCurve(model, utilization) ==
  LET before == BeforeKink(model, utilization)
      after == AfterKink(model, utilization)
  IN Rectangle(before, model.R0)
       + Triangle(before, InstantaneousRate(model, before) - model.R0)
       + Rectangle(after, RateAtKink(model))
       + Triangle(after, InstantaneousRate(model, utilization) - RateAtKink(model))

ApyFromUtilization(model, before, after) ==
  IF before = after THEN InstantaneousRate(model, before)
  ELSE ((AreaUnderRateCurve(model, after) - AreaUnderRateCurve(model, before)) * One)
         \div (after - before)

RealizedLpFeePct(model, before, after) == WeeklyFee(ApyFromUtilization(model, before, after))

(* How far rounding may take the mean rate from the curve: both are        *)
(* rounded down, and so are the four parts of each area, of which the      *)
(* error is divided by the size of the deposit.                            *)
Tolerance(before, after) == IF before = after THEN 0 ELSE 1 + (4 * One) \div (after - before)

=============================================================================
