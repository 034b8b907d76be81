----------------------------- MODULE WarpGroups -----------------------------
(***************************************************************************)
(* How the warps and the register file of a warp-specialized kernel are    *)
(* shared out: the pass AllocateWarpGroups (AllocateWarpGroups.cpp), and   *)
(* the register counts ConvertWarpSpecializeToLLVM derives for the kernel  *)
(* header.  Register counts are per thread; a warp's share of the register *)
(* file is in units of 32 registers.                                       *)
(***************************************************************************)
EXTENDS Integers, FiniteSets, SequencesExt

CONSTANTS
  WarpsPerGroup,  \* warps of a hardware warp group (4)
  RegFile,        \* registers of an SM over threads of a warp (64 * 1024 / 32)
  BaseWarps,      \* possible "ttg.num-warps"
  UserRegs,       \* possible user-given maxnreg; 0 when there is none
  Modules         \* possible modules: sequences of warp_specialize ops

\* An op: the warps of each partition, the registers each requests (<<>> when
\* no estimate has been set), and the pass's results.
FreshOp(sizes, req) == [sizes |-> sizes, req |-> req, start |-> <<>>, act |-> <<>>]

SumTo(f, n) ==
  LET sum[i \in 0 .. n] == IF i = 0 THEN 0 ELSE sum[i - 1] + f[i] IN sum[n]
Total(seq) == SumTo(seq, Len(seq))

IsOp(op) ==
  /\ op.sizes \in Seq(Nat \ {0}) /\ op.sizes # <<>>
  /\ op.req = <<>> \/ (op.req \in Seq(Nat) /\ Len(op.req) = Len(op.sizes))
  /\ op = FreshOp(op.sizes, op.req)

\* startId % 4 is 0 for the first partition only if the default partition is
\* made of whole warp groups. A module without partitions has nothing to share
\* out.
ASSUME WarpsAssumption ==
  /\ WarpsPerGroup \in Nat \ {0}
  /\ \A b \in BaseWarps : b \in Nat /\ b > 0 /\ b % WarpsPerGroup = 0
  /\ \A m \in Modules :
       m \in Seq({m[i] : i \in DOMAIN m}) /\ m # <<>> /\ \A i \in DOMAIN m : IsOp(m[i])

\* A block has at most 1024 threads, eight warp groups.
BlockGroups == 8
ASSUME BlockAssumption ==
  \A b \in BaseWarps : \A m \in Modules : \A i \in DOMAIN m :
    b + Total(m[i].sizes) <= BlockGroups * WarpsPerGroup

\* setmaxnreg counts registers in eights, from 24 to 256; an SM has 24 for every
\* thread of a block, and no more than 256 for those of two warp groups.
ASSUME RegsAssumption ==
  /\ RegFile \in 24 * BlockGroups * WarpsPerGroup .. 512 * WarpsPerGroup
  /\ \A r \in UserRegs : r = 0 \/ (r \in 24 .. 256 /\ r % 8 = 0)

VARIABLES
  base,     \* warps of the default partition
  user,     \* maxnreg attribute before the pass, 0 if unset
  ops,      \* the module's warp_specialize ops in walk order
  padded,   \* how many of them have been padded
  laid,     \* how many have got start IDs and registers
  maxnreg   \* module attribute after the pass, 0 if unset

vars == <<base, user, ops, padded, laid, maxnreg>>
CeilDiv(a, b) == (a + b - 1) \div b
RoundDown8(n) == (n \div 8) * 8
Clamp(r) == IF r > 256 THEN 256 ELSE r

\* The warp groups beyond the default partition's.
ExtraGroups == CeilDiv(Max({Total(ops[i].sizes) : i \in DOMAIN ops}), WarpsPerGroup)

ExtraWarps == ExtraGroups * WarpsPerGroup

\* NextPowerOf2(n) / 2, of a 32-bit n > 0
PaddingSize(n) == Max({p \in 1 .. n : p \in {2 ^ e : e \in 0 .. 30}})

\* Mutant: one padding partition, whatever remains.
PadOnce(n) == IF n = 0 THEN <<>> ELSE <<PaddingSize(n)>>
Padding(n) ==
  LET pad[left \in 0 .. n] ==
        IF left = 0 THEN <<>> ELSE <<PaddingSize(left)>> \o pad[left - PaddingSize(left)] IN
  pad[n]

\* padToMaxWarpGroups
PadOp ==
  /\ padded < Len(ops)
  /\ LET op == ops[padded + 1]
         pad == Padding(ExtraWarps - Total(op.sizes)) IN
     ops' = [ops EXCEPT ![padded + 1] =
       FreshOp(op.sizes \o pad,
               IF op.req = <<>> THEN <<>> ELSE op.req \o [k \in DOMAIN pad |-> 16])]
  /\ padded' = padded + 1
  /\ UNCHANGED <<base, user, laid, maxnreg>>

-----------------------------------------------------------------------------
\* The maximum registers a thread may have at launch.
LaunchRegs == IF user # 0 THEN user ELSE RoundDown8(RegFile \div (base + ExtraWarps))

\* The orders llvm::sort may produce: decreasing size, equal sizes in any order.
Orders(sizes) ==
  {o \in [DOMAIN sizes -> DOMAIN sizes] :
     /\ \A i, j \in DOMAIN sizes : i # j => o[i] # o[j]
     /\ \A i \in DOMAIN sizes : i > 1 => sizes[o[i - 1]] >= sizes[o[i]]}

StartIds(sizes, order) ==
  [k \in DOMAIN sizes |->
     LET pos == CHOOSE i \in DOMAIN sizes : order[i] = k IN
     base + SumTo([i \in DOMAIN sizes |-> sizes[order[i]]], pos - 1)]

\* A warp group begins with each start ID that is a multiple of its size; a
\* partition is put in the last one that has begun.
Heads(start) == {j \in DOMAIN start : start[j] % WarpsPerGroup = 0}
GroupOf(start, k) == Cardinality({j \in Heads(start) : start[j] <= start[k]})
Members(start, g) == {k \in DOMAIN start : GroupOf(start, k) = g}

\* Mutant: the first request in a group, in eights.
OwnRequest(req, start, g) == CeilDiv(req[CHOOSE k \in Members(start, g) : TRUE], 8) * 8
\* The largest request in a group, in eights.
GroupRegs(req, start, g) == Max({0} \cup {CeilDiv(req[k], 8) * 8 : k \in Members(start, g)})

\* Registers left for the default partition when every group has its request.
Budget(op, start) ==
  LaunchRegs * base
    + Total([g \in 1 .. Cardinality(Heads(start)) |->
        (LaunchRegs - GroupRegs(op.req, start, g))
          * Total([k \in DOMAIN start |-> IF GroupOf(start, k) = g THEN op.sizes[k] ELSE 0])])

\* Mutant: the remainder of the budget is handed out too.
RoundedUp(op, start) == CeilDiv(Budget(op, start) \div base, 8) * 8
Leftover(op, start) == RoundDown8(Budget(op, start) \div base)

\* actualRegisters: the default partition's, then each partition's.
Assigned(op, start) ==
  op.req # <<>> /\ Total(op.sizes) % WarpsPerGroup = 0
    /\ Budget(op, start) > 0 /\ Leftover(op, start) >= 24

\* Mutant: each partition gets its own request.
OwnRegs(op, start) ==
  <<Leftover(op, start)>> \o [k \in DOMAIN start |-> CeilDiv(op.req[k], 8) * 8]
ActualRegs(op, start) ==
  <<Leftover(op, start)>> \o [k \in DOMAIN start |-> GroupRegs(op.req, start, GroupOf(start, k))]

AssignOp ==
  /\ padded = Len(ops) /\ laid < Len(ops)
  /\ LET op == ops[laid + 1] IN
     \E order \in Orders(op.sizes) :
       LET start == StartIds(op.sizes, order) IN
       /\ ops' = [ops EXCEPT
            ![laid + 1].start = start,
            ![laid + 1].act = IF Assigned(op, start) THEN ActualRegs(op, start) ELSE <<>>]
       /\ maxnreg' = IF Assigned(op, start) THEN LaunchRegs ELSE maxnreg
  /\ laid' = laid + 1
  /\ UNCHANGED <<base, user, padded>>

Init ==
  /\ base \in BaseWarps /\ user \in UserRegs /\ ops \in Modules
  /\ padded = 0 /\ laid = 0 /\ maxnreg = user

Finished == laid = Len(ops)
Terminated == Finished /\ UNCHANGED vars

Next == PadOp \/ AssignOp \/ Terminated
Spec == Init /\ [][Next]_vars

-----------------------------------------------------------------------------
(* The kernel header of ConvertWarpSpecializeToLLVM. *)

DefaultFirst == maxnreg + (((maxnreg - 24) * ExtraWarps) \div base)

DefRegs == IF RoundDown8(DefaultFirst) > 256 THEN 256 ELSE RoundDown8(DefaultFirst)

\* Mutant: the workers give up less than the default group takes.
KeepLowRegs == IF RoundDown8(DefaultFirst) > 256 THEN maxnreg ELSE 24
LowRegs ==
  IF RoundDown8(DefaultFirst) > 256
  THEN RoundDown8(maxnreg - (((256 - maxnreg) * base) \div ExtraWarps))
  ELSE 24

-----------------------------------------------------------------------------
(* Properties *)

Op == [sizes : Seq(Nat \ {0}) \ {<<>>}, req : Seq(Nat), start : Seq(Nat), act : Seq(Nat)]

TypeOK ==
  /\ base \in BaseWarps /\ user \in UserRegs /\ maxnreg \in Nat
  /\ ops \in Seq(Op) \ {<<>>} /\ padded \in 0 .. Len(ops) /\ laid \in 0 .. padded

Warps(op, k) == op.start[k] .. op.start[k] + op.sizes[k] - 1

\* The partitions of every op cover the extra warps exactly: no two overlap and
\* no warp is left that does not take part in surrendering registers.
WarpsCovered ==
  \A i \in 1 .. laid : \A w \in base .. base + ExtraWarps - 1 :
    Cardinality({k \in DOMAIN ops[i].sizes : w \in Warps(ops[i], k)}) = 1

\* setmaxnreg acts on a hardware warp group: the warps of one group are all
\* given the same count, whichever order the sort leaves equal sizes in and
\* whatever partitions they belong to.
GroupsAgree ==
  \A i \in 1 .. laid : ops[i].act # <<>> =>
    \A j, k \in DOMAIN ops[i].sizes : \A u \in Warps(ops[i], j), v \in Warps(ops[i], k) :
      u \div WarpsPerGroup = v \div WarpsPerGroup => ops[i].act[j + 1] = ops[i].act[k + 1]

\* Inside every op the warps together never hold more than the launch gave them,
\* so an increase can be granted once the decreases have been made.
RegionFits ==
  \A i \in 1 .. laid : ops[i].act # <<>> =>
    Clamp(ops[i].act[1]) * base
      + Total([k \in DOMAIN ops[i].sizes |-> Clamp(ops[i].act[k + 1]) * ops[i].sizes[k]])
      <= maxnreg * (base + ExtraWarps)

\* The same between ops, with the header's counts.
HeaderFits ==
  Finished /\ maxnreg # 0 => DefRegs * base + LowRegs * ExtraWarps <= maxnreg * (base + ExtraWarps)

\* No partition runs with fewer registers than it asked for.
RequestsMet ==
  \A i \in 1 .. laid : ops[i].act # <<>> =>
    \A k \in DOMAIN ops[i].sizes : ops[i].act[k + 1] >= ops[i].req[k]

\* The inductive invariant: each op padded so far has all the extra warps, none is
\* laid out before all are padded, and the module's register count is the one
\* at launch as soon as an op has been given registers.
Padded ==
  /\ \A i \in DOMAIN ops : ops[i].req = <<>> \/ Len(ops[i].req) = Len(ops[i].sizes)
  /\ \A i \in 1 .. padded : Total(ops[i].sizes) = ExtraWarps
  /\ laid > 0 => padded = Len(ops)
Launched ==
  /\ \A i \in DOMAIN ops : i > laid => ops[i].act = <<>>
  /\ maxnreg = IF \A i \in DOMAIN ops : ops[i].act = <<>> THEN user ELSE LaunchRegs
InBlock == base + ExtraWarps <= BlockGroups * WarpsPerGroup

IInv ==
  /\ TypeOK /\ Padded /\ Launched /\ InBlock
  /\ WarpsCovered /\ GroupsAgree /\ RegionFits /\ RequestsMet
=============================================================================
