------------------------------ MODULE Versions ------------------------------
(***************************************************************************)
(* The version orders and the CVE database of scan/cve.cpp: the comparison *)
(* of Debian package versions, dotted upstream versions and their ranges,  *)
(* and the three functions that look a product up.  A text is a sequence   *)
(* of character codes.  Loops are functions of the number of their turn.   *)
(***************************************************************************)
EXTENDS Integers, Sequences, FiniteSetsExt

CONSTANT IntMax     \* the largest int; std::stoi throws beyond it

Chars == 1..255
Text == Seq(Chars)
Digits == 48..57
NonDigits == Chars \ Digits
Letters == (65..90) \cup (97..122)
Dot == 46
Dash == 45
Colon == 58
Tilde == 126

\* Length of the longest prefix whose characters are in class.
Run(s, class) == Max({n \in 0..Len(s) : \A i \in 1..n : s[i] \in class})
Drop(s, n) == SubSeq(s, n + 1, Len(s))
Sign(m, n) == IF m = n THEN 0 ELSE IF m < n THEN -1 ELSE 1

\* The first of n comparisons that does not find equal.
Decided(n, order) ==
    LET D == {i \in 1..n : order[i] # 0} IN IF D = {} THEN 0 ELSE order[Min(D)]

-----------------------------------------------------------------------------
\* dpkg_char_order on a signed char: a byte above 127 is negative before 256 is added.
DpkgCharOrder(c) ==
    IF c = Tilde THEN -1 ELSE IF c \in Letters \/ c > 127 THEN c ELSE c + 256

\* The run of non-digits that a begins with against b's, each padded with '\0'.
TextOrder(a, b) ==
    LET Order(s, i) == IF i <= Run(s, NonDigits) THEN DpkgCharOrder(s[i]) ELSE 0
        n == Max({Run(a, NonDigits), Run(b, NonDigits)})
    IN  Decided(n, [i \in 1..n |-> Sign(Order(a, i), Order(b, i))])

\* Numbers without leading zeros, as if the longer were not the larger.
Bug_DigitByDigit(x, y) ==
    LET n == Min({Len(x), Len(y)}) IN Decided(n, [i \in 1..n |-> Sign(x[i], y[i])])

\* Numbers without leading zeros: the longer is the larger.
DigitsOrder(x, y) ==
    IF Len(x) # Len(y) THEN Sign(Len(x), Len(y))
    ELSE Decided(Len(x), [i \in 1..Len(x) |-> Sign(x[i], y[i])])

\* The number that s begins with, without leading zeros, and what is behind it.
Number(s) == LET n == SubSeq(s, 1, Run(s, Digits)) IN Drop(n, Run(n, {48}))
BehindText(s) == Drop(s, Run(s, NonDigits))
BehindNumber(s) == Drop(s, Run(s, Digits))

\* What is left of s after each turn of the loop of dpkg_compare_str.
Rest(s) ==
    LET rest[k \in Nat] == IF k = 0 THEN s ELSE BehindNumber(BehindText(rest[k - 1]))
    IN  rest

\* One turn: the runs of non-digits, then the numbers.
TurnOrder(a, b) ==
    LET text == TextOrder(a, b)
    IN  IF text # 0 THEN text ELSE DigitsOrder(Number(BehindText(a)), Number(BehindText(b)))

\* dpkg_compare_str: each turn ends a run in both texts, until both are used up.
DpkgCompareStr(a, b) ==
    LET n == Max({Len(a), Len(b)})
    IN  Decided(n, [k \in 1..n |-> TurnOrder(Rest(a)[k - 1], Rest(b)[k - 1])])

\* parse_dpkg_version: the epoch before the first colon if it is a number, the
\* revision behind the last dash.
ParseDpkgVersion(raw) ==
    LET hasEpoch == Run(raw, Digits) \in 1..(Len(raw) - 1) /\ raw[Run(raw, Digits) + 1] = Colon
        rest == IF hasEpoch THEN Drop(raw, Run(raw, Digits) + 1) ELSE raw
        dashes == {i \in 1..Len(rest) : rest[i] = Dash}
    IN  [epoch |-> IF hasEpoch THEN SubSeq(raw, 1, Run(raw, Digits)) ELSE <<48>>,
         upstream |-> IF dashes = {} THEN rest ELSE SubSeq(rest, 1, Max(dashes) - 1),
         revision |-> IF dashes = {} THEN <<>> ELSE Drop(rest, Max(dashes))]

DpkgCompare(a, b) ==
    LET x == ParseDpkgVersion(a)
        y == ParseDpkgVersion(b)
        epoch == DpkgCompareStr(x.epoch, y.epoch)
        upstream == DpkgCompareStr(x.upstream, y.upstream)
    IN  IF epoch # 0 THEN epoch
        ELSE IF upstream # 0 THEN upstream ELSE DpkgCompareStr(x.revision, y.revision)

\* check_backport for the rows of one CVE and distribution, none for a port whose
\* distribution is not known: a fix of the installed upstream version whose revision is
\* not newer than the installed one.
CheckBackport(fixes, version, revision) ==
    LET iv == ParseDpkgVersion(version \o <<Dash>> \o revision)
    IN  /\ version # <<>> /\ revision # <<>>
        /\ \E i \in 1..Len(fixes) :
              LET fv == ParseDpkgVersion(fixes[i].fixed)
              IN  /\ fixes[i].status \in {"released", "resolved", "fixed"}
                  /\ fixes[i].fixed # <<>>
                  /\ DpkgCompareStr(fv.upstream, iv.upstream) = 0
                  /\ DpkgCompareStr(iv.revision, fv.revision) >= 0

-----------------------------------------------------------------------------
\* std::stoi: the value of the digits that s begins with, or IntMax + 1 for any beyond.
Value(s) ==
    LET n == Run(s, Digits)
        value[i \in 0..n] ==
            IF i = 0 THEN 0
            ELSE LET v == 10 * value[i - 1] + s[i] - 48 IN IF v > IntMax THEN IntMax + 1 ELSE v
    IN  value[n]

\* What is left behind a number and its dot; nothing when the loop of parse ends.
BehindDot(s) ==
    LET n == Run(s, Digits)
    IN  IF n > 0 /\ n < Len(s) /\ s[n + 1] = Dot THEN Drop(s, n + 1) ELSE <<>>
Tails(s) ==
    LET tail[k \in Nat] == IF k = 0 THEN s ELSE BehindDot(tail[k - 1])
    IN  tail

\* VersionMatcher::parse: from the first digit on, numbers separated by single dots;
\* no component at all when a number is none for std::stoi.
ParseVersion(raw) ==
    LET tail == Tails(BehindText(raw))
        n == Max({k \in 0..Len(raw) : \A j \in 0..(k - 1) : Run(tail[j], Digits) > 0})
    IN  IF \E k \in 1..n : Value(tail[k - 1]) > IntMax THEN <<>>
        ELSE [k \in 1..n |-> Value(tail[k - 1])]

\* VersionMatcher::compare: missing components are 0.
CompareVersions(left, right) ==
    LET n == Max({Len(left), Len(right)})
        Part(v, i) == IF i <= Len(v) THEN v[i] ELSE 0
    IN  Decided(n, [i \in 1..n |-> Sign(Part(left, i), Part(right, i))])

Any == <<42>>   \* "*"

\* VersionMatcher::in_range, both ends included.
InRange(version, range) ==
    LET parsed == ParseVersion(version)
    IN  /\ parsed # <<>>
        /\ range[1] # Any => CompareVersions(parsed, ParseVersion(range[1])) >= 0
        /\ range[2] # Any => CompareVersions(parsed, ParseVersion(range[2])) <= 0

-----------------------------------------------------------------------------
\* to_lower, in the C locale.
ToLower(s) == [i \in 1..Len(s) |-> IF s[i] \in 65..90 THEN s[i] + 32 ELSE s[i]]
ProductMatches(dbProduct, portProduct) == ToLower(dbProduct) = ToLower(portProduct)

\* The rows of the database that lookup, match and check_port walk through.
Matching(db, product, version) ==
    IF product = <<>> \/ version = <<>> THEN {}
    ELSE {i \in 1..Len(db) : ProductMatches(db[i].product, product) /\ InRange(version, db[i].range)}

Lookup(db, product, version) == {db[i].cve : i \in Matching(db, product, version)}

\* match and verify_version: the first row that matches; no identifier matches any.
VerifyVersion(db, cve, product, version) ==
    CASE product = <<>> \/ version = <<>> -> "UNKNOWN"
      [] \E i \in Matching(db, product, version) : cve \in {"", db[i].cve} -> "VERSION_MATCH"
      [] OTHER -> "NOT_VULNERABLE"
=============================================================================
