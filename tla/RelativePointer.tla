-------------------------- MODULE RelativePointer --------------------------
(***************************************************************************)
(* The pointers of the strings of a region (containers/gnu/pointer.h and   *)
(* cast.h): a _Pointer_adapter over a storage policy, which keeps either   *)
(* an address or the distance of the target from the pointer itself.  The  *)
(* second is what gnu_adapter's pointers use, since processes map a region *)
(* at different addresses; the first is the reference for it.              *)
(*                                                                         *)
(* An object of pointer type is a record of its own address, its policy    *)
(* and the word it holds.  Words wrap.  What an operator returns by value  *)
(* is constructed at an address of the caller's, the parameter `this'.     *)
(* The checks of STLDB_DEBUG are left out: nothing sets their region.      *)
(* Copied_Bitwise is Copied with a plausible slip; nothing uses it.        *)
(***************************************************************************)
EXTENDS Integers

CONSTANTS Word,      \* the number of addresses
          ElementSize

Null == 0
\* reinterpret_cast<std::ptrdiff_t>.
Signed(a) == IF a < Word \div 2 THEN a ELSE a - Word

-----------------------------------------------------------------------------
\* The storage policies.

StdGet(x) == x.held
StdSet(this, arg) == [this |-> this, policy |-> "std", held |-> arg]

\* The distance that stands for null, as a distance of 0 may be meant.
NullDistance == 1
RelativeGet(x) == IF x.held = NullDistance THEN Null ELSE (x.this + x.held) % Word
RelativeSet(this, policy, arg) ==
    [this |-> this, policy |-> policy,
     held |-> IF arg = Null THEN NullDistance ELSE (arg - this) % Word]

\* The policy of pointers to const keeps what that of other pointers keeps.
RelativePolicies == {"relative", "relative to const"}

get(x) == IF x.policy \in RelativePolicies THEN RelativeGet(x) ELSE StdGet(x)
set(this, policy, arg) ==
    IF policy \in RelativePolicies THEN RelativeSet(this, policy, arg) ELSE StdSet(this, arg)

\* The comparisons of a policy take the addresses of relative pointers for signed numbers.
StdLess(x, y) == x.held < y.held
RelativeLess(x, y) == Signed(RelativeGet(x)) < Signed(RelativeGet(y))
PolicyLess(x, y) ==
    IF x.policy \in RelativePolicies THEN RelativeLess(x, y) ELSE StdLess(x, y)
PolicyEqual(x, y) == get(x) = get(y)

-----------------------------------------------------------------------------
\* _Pointer_adapter.

Constructed(this, policy, arg) == set(this, policy, arg)
Copied_Bitwise(this, x) == [x EXCEPT !.this = this]
Copied(this, x) == set(this, x.policy, get(x))
Assigned(x, y) == set(x.this, x.policy, get(y))

\* operator[]; * and -> are those of the index 0.
At(x, index) == (get(x) + index * ElementSize) % Word
Holds(x) == get(x) # Null

Difference(x, y) == Signed((get(x) - get(y)) % Word) \div ElementSize

Plus(this, x, n) == Constructed(this, x.policy, At(x, n))
Moved(x, n) == set(x.this, x.policy, At(x, n))
\* ++ and -- after the pointer: what it becomes, and the copy of what it was.
MovedAfter(this, x, n) == <<Moved(x, n), Copied(this, x)>>

\* Comparisons of pointers of different types, and < of all of them.
Less(x, y) == get(x) < get(y)
EqualsAddress(x, arg) == get(x) = arg
\* The others, when the types are the same, are made of those of the policy.
Equal(x, y) == PolicyEqual(x, y)
AtMost(x, y) == PolicyLess(x, y) \/ PolicyEqual(x, y)

\* __static_pointer_cast ... of a pointer, of an address, and to an address.
Cast(this, policy, x) == Constructed(this, policy, get(x))
CastAddress(this, policy, arg) == Constructed(this, policy, arg)

\* gnu_adapter: an address that the segment manager gave, as its caller gets it, and given back.
Allocated(this, arg) == Constructed(this, "relative", arg)
GivenBack(x) == get(Cast(x.this, "std", x))

-----------------------------------------------------------------------------
\* The same pointer object as a process finds it that maps the region elsewhere.
Remapped(x, shift) == [x EXCEPT !.this = (@ + shift) % Word]

\* The pointer that a distance of 1 cannot tell from null: "there is no reason why any normal
\* pointer would point 1 byte into its own pointer address".
OwnNextByte(this, a) == a # Null /\ a = (this + 1) % Word
\* An object at `this' that points to a, as the relative policy can keep it.
Kept(this, a) == ~OwnNextByte(this, a)

\* Whatever is done with them, a relative pointer and a plain one that are at the same place and
\* point to the same object go on to do so, null included, wherever the temporaries are.
FollowsPlain(this, temp, a, b, n) ==
    LET P(policy) == Constructed(this, policy, a)
        Q(policy) == Constructed(temp, policy, b)
        Both(Op(_)) == \A policy \in RelativePolicies : Op(policy) = Op("std")
    IN  /\ Both(LAMBDA p : get(P(p))) /\ Both(LAMBDA p : Holds(P(p)))
        /\ Both(LAMBDA p : EqualsAddress(P(p), b))
        /\ Kept(temp, a) => /\ Both(LAMBDA p : get(Copied(temp, P(p))))
                            /\ Both(LAMBDA p : get(Assigned(Q(p), P(p))))
                            /\ Both(LAMBDA p : get(Cast(temp, "relative to const", P(p))))
                            /\ Both(LAMBDA p : get(CastAddress(temp, p, a)))
                            /\ Both(LAMBDA p : GivenBack(P(p)))
        /\ Kept(temp, b) => /\ Both(LAMBDA p : Less(P(p), Q(p))) /\ Both(LAMBDA p : Equal(P(p), Q(p)))
                            /\ Both(LAMBDA p : Difference(P(p), Q(p)))
        /\ LET c == (a + n * ElementSize) % Word IN
           a # Null /\ c # Null =>
             /\ Kept(temp, c) => Both(LAMBDA p : get(Plus(temp, P(p), n)))
             /\ Kept(this, c) => Both(LAMBDA p : get(Moved(P(p), n)))
             /\ Kept(this, c) /\ Kept(temp, a) =>
                    Both(LAMBDA p : get(MovedAfter(temp, P(p), n)[2]))

\* <= and its like agree with < where no pair of addresses has the sign bit between them.
OrdersAlike(this, temp, a, b) ==
    LET x == Constructed(this, "relative", a)
        y == Constructed(temp, "relative", b)
    IN  Kept(temp, b) /\ (a < Word \div 2 <=> b < Word \div 2) =>
            (AtMost(x, y) <=> Less(x, y) \/ Equal(x, y))

\* A pointer in the region to an object of the region points to that object in every process, and
\* so do its copies there, whichever process made them.
MeansTheSame(this, to, a, shift) ==
    LET x == Allocated(this, a)
        There(b) == IF b = Null THEN Null ELSE (b + shift) % Word
    IN  Kept(to, a) /\ There(a) # Null =>
            /\ get(Remapped(x, shift)) = There(a)
            /\ get(Copied((to + shift) % Word, Remapped(x, shift))) = There(a)
            /\ get(Remapped(Copied(to, x), shift)) = There(a)
=============================================================================
