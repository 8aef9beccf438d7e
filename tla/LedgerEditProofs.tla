---------------------------- MODULE LedgerEditProofs ----------------------------
(***************************************************************************)
(* What an edit does to a ledger, for every ledger and every edit: which   *)
(* directives stay whole, how many copies of each are left, where the      *)
(* others have moved, what the balances become, and when the policy an     *)
(* operation has passed on one ledger still holds on another.              *)
(***************************************************************************)
EXTENDS PreparedActions, DataLemmas, FiniteSetTheorems, SequenceTheorems, TLAPS

-----------------------------------------------------------------------------
(* Lines.                                                                  *)

\* A directive is one or three lines long.
LEMMA Heights == \A d : Height(d) \in {1, 3} /\ Height(d) \in Nat
  BY DEF Height

\* A line is a directive and a number, or one of those that are of no directive.
LEMMA LineShape ==
    /\ Loose \subseteq Line /\ Glued \in Line /\ Glued \notin Loose
    /\ Blank \in Loose /\ Note \in Loose /\ Meta \in Loose /\ Remark \in Loose
    /\ \A x \in Loose \cup {Glued} : x[2] = 0 /\ x[1].kind # "txn"
    /\ \A x \in Line : x[2] \in Nat /\ x = <<x[1], x[2]>>
    /\ \A x \in Line : x[2] > 0 => x[1] \in Directive
    /\ \A d \in Directive, i \in Nat \ {0} :
          <<d, i>> \in Line /\ <<d, i>>[1] = d /\ <<d, i>>[2] = i
<1>1. /\ Blank[1].kind = "blank" /\ Note[1].kind = "note" /\ Meta[1].kind = "meta"
      /\ Remark[1].kind = "remark" /\ Glued[1].kind = "glued"
      /\ Blank[2] = 0 /\ Note[2] = 0 /\ Meta[2] = 0 /\ Remark[2] = 0 /\ Glued[2] = 0
  BY DEF Blank, Note, Meta, Remark, Glued
<1>2. /\ Blank = <<Blank[1], Blank[2]>> /\ Note = <<Note[1], Note[2]>>
      /\ Meta = <<Meta[1], Meta[2]>> /\ Remark = <<Remark[1], Remark[2]>>
      /\ Glued = <<Glued[1], Glued[2]>>
  BY DEF Blank, Note, Meta, Remark, Glued
<1>3. Glued \notin Loose  BY <1>1 DEF Loose
<1>4. \A x \in Loose \cup {Glued} : x[2] = 0 /\ x[1].kind # "txn" /\ x = <<x[1], x[2]>>
  BY <1>1, <1>2, Zenon DEF Loose
<1>5. \A x \in Directive \X (Nat \ {0}) :
         x[2] \in Nat /\ x = <<x[1], x[2]>> /\ x[1] \in Directive
  OBVIOUS
<1>6. \A d \in Directive, i \in Nat \ {0} :
          <<d, i>> \in Line /\ <<d, i>>[1] = d /\ <<d, i>>[2] = i
  BY DEF Line
<1>7. ASSUME NEW x \in Line
      PROVE  /\ x[2] \in Nat /\ x = <<x[1], x[2]>> /\ (x[2] > 0 => x[1] \in Directive)
  <2>1. x \in Directive \X (Nat \ {0}) \/ x \in Loose \cup {Glued}  BY DEF Line
  <2>2. x \in Loose \cup {Glued} => x[2] \in Nat /\ ~(x[2] > 0)  BY <1>4
  <2>q. QED BY <2>1, <2>2, <1>4, <1>5
<1>8. Loose \subseteq Line /\ Glued \in Line  BY DEF Line
<1>9. Blank \in Loose /\ Note \in Loose /\ Meta \in Loose /\ Remark \in Loose  BY DEF Loose
<1>q. QED BY <1>3, <1>4, <1>6, <1>7, <1>8, <1>9

\* The text of one directive is its lines in order, and is whole.
LEMMA LinesOfShape ==
    ASSUME NEW d \in Directive
    PROVE  /\ LinesOf(d) \in Seq(Line)
           /\ Len(LinesOf(d)) = Height(d)
           /\ \A i \in 1 .. Height(d) : LinesOf(d)[i] = <<d, i>>
           /\ Whole(LinesOf(d))
<1> DEFINE h == Height(d)
           s == [i \in 1 .. h |-> <<d, i>>]
<1>1. h \in Nat \ {0} /\ LinesOf(d) = s  BY Heights DEF LinesOf
<1> HIDE DEF h
<1>2. \A i \in 1 .. h : <<d, i>> \in Line  BY <1>1, LineShape
<1>3. s \in Seq(Line) /\ Len(s) = h /\ DOMAIN s = 1 .. h
  BY <1>1, <1>2
<1>4. ASSUME NEW k \in 1 .. h PROVE s[k] = <<d, k>> /\ s[k][1] = d /\ s[k][2] = k
  BY <1>1, LineShape
<1>5. ASSUME NEW k \in 1 .. h, k < h PROVE s[k + 1] = <<d, k + 1>>
  <2>1. k + 1 \in 1 .. h  BY <1>1, <1>5
  <2>q. QED BY <2>1, <1>4
<1>6. ASSUME NEW k \in 1 .. h, k > 1 PROVE s[k - 1] = <<d, k - 1>>
  <2>1. k - 1 \in 1 .. h  BY <1>1, <1>6
  <2>q. QED BY <2>1, <1>4
<1> HIDE DEF s
<1>7. Whole(s)  BY <1>1, <1>3, <1>4, <1>5, <1>6 DEF Whole, h
<1>q. QED BY <1>1, <1>3, <1>4, <1>7 DEF h

\* A comment behind a posting changes neither the height of a transaction nor what
\* it says.
LEMMA CommentedShape ==
    ASSUME NEW d \in Transaction
    PROVE  /\ d \in Directive /\ Commented(d) \in Transaction /\ Commented(d) \in Directive
           /\ Plain(d) \in Transaction /\ Plain(Commented(d)) = Plain(d)
           /\ Height(d) = 3 /\ Height(Commented(d)) = 3
<1>1. d.kind = "txn"  BY DEF Transaction
<1>2. Commented(d) \in Transaction /\ Commented(d).kind = "txn"
  BY <1>1 DEF Transaction, Commented
<1>3. Plain(d) = [d EXCEPT !.note = FALSE] /\ Plain(d) \in Transaction
  BY <1>1 DEF Plain, Transaction
<1>4. Plain(Commented(d)) = [Commented(d) EXCEPT !.note = FALSE]  BY <1>2 DEF Plain
<1>5. [Commented(d) EXCEPT !.note = FALSE] = [d EXCEPT !.note = FALSE]
  BY DEF Commented, Transaction
<1>q. QED BY <1>1, <1>2, <1>3, <1>4, <1>5 DEF Height, Directive

\* What an index can show of a transaction, and the caller may name.
Text == [directive : Transaction, tail : Seq({Note, Meta}), ended : BOOLEAN]

\* The directives a text may be the first characters of.
Heads(text) == {text.directive, Commented(text.directive)}

LEMMA TextShape ==
    ASSUME NEW text \in Text
    PROVE  /\ text.directive \in Transaction /\ text.ended \in BOOLEAN
           /\ text.tail \in Seq({Note, Meta}) /\ Len(text.tail) \in Nat
           /\ Size(text) \in Nat /\ Size(text) = 3 + Len(text.tail)
           /\ \A x \in Heads(text) : x \in Transaction /\ Height(x) = 3
                                      /\ Plain(x) = Plain(text.directive)
<1>1. text.directive \in Transaction /\ text.ended \in BOOLEAN /\ text.tail \in Seq({Note, Meta})
  BY DEF Text
<1>2. Len(text.tail) \in Nat  BY <1>1, LenProperties
<1>3. Size(text) = 3 + Len(text.tail)  BY <1>1, CommentedShape DEF Size
<1>q. QED BY <1>1, <1>2, <1>3, CommentedShape DEF Heads

\* The lines of a text are those of its directive, then comments and metadata.
LEMMA TextLinesShape ==
    ASSUME NEW text \in Text
    PROVE  /\ TextLines(text) \in Seq(Line) /\ Len(TextLines(text)) = Size(text)
           /\ \A i \in 1 .. 3 : TextLines(text)[i] = <<text.directive, i>>
           /\ \A i \in 1 .. Len(text.tail) :
                 TextLines(text)[3 + i] = text.tail[i] /\ text.tail[i] \in {Note, Meta}
<1> DEFINE d == text.directive
           s == LinesOf(d)
           t == text.tail
<1>1. s \in Seq(Line) /\ Len(s) = 3 /\ \A i \in 1 .. 3 : s[i] = <<d, i>>
  BY TextShape, CommentedShape, LinesOfShape
<1>2. t \in Seq(Line) /\ Len(t) \in Nat /\ \A i \in 1 .. Len(t) : t[i] \in {Note, Meta}
  <2>1. t \in Seq({Note, Meta}) /\ {Note, Meta} \subseteq Line  BY TextShape, LineShape
  <2>2. t \in Seq(Line)  BY <2>1
  <2> HIDE DEF t
  <2>q. QED BY <2>1, <2>2, LenProperties, ElementOfSeq
<1> HIDE DEF s
<1>3. /\ s \o t \in Seq(Line) /\ Len(s \o t) = Len(s) + Len(t)
      /\ \A i \in 1 .. Len(s) : (s \o t)[i] = s[i]
      /\ \A i \in 1 .. Len(t) : (s \o t)[Len(s) + i] = t[i]
  BY <1>1, <1>2, Concatenated
<1>4. TextLines(text) = s \o t  BY DEF TextLines, s
<1> DEFINE all == s \o t
<1> HIDE DEF all, t
<1>5. /\ all \in Seq(Line) /\ Len(all) = 3 + Len(t)
      /\ \A i \in 1 .. 3 : all[i] = s[i]
      /\ \A i \in 1 .. Len(t) : all[3 + i] = t[i]
  BY <1>1, <1>3 DEF all
<1>6. TextLines(text) = all /\ Size(text) = 3 + Len(t)  BY <1>4, TextShape DEF all, t
<1>q. QED BY <1>1, <1>2, <1>5, <1>6 DEF t

\* The lines from a + 1 to b gave way to others.
Spliced(old, a, b, mid, new) ==
    /\ a \in 0 .. Len(old) /\ b \in a .. Len(old)
    /\ mid \in Seq(Line) /\ new \in Seq(Line)
    /\ Len(new) = Len(old) + Len(mid) - (b - a)
    /\ \A i \in 1 .. a : new[i] = old[i]
    /\ \A i \in 1 .. Len(mid) : new[a + i] = mid[i]
    /\ \A i \in b + 1 .. Len(old) : new[i + Len(mid) - (b - a)] = old[i]

\* What stands before a place, new lines, and what stands after another, is a splice.
LEMMA SpliceOf ==
    ASSUME NEW old \in Seq(Line), NEW mid \in Seq(Line),
           NEW a \in 0 .. Len(old), NEW b \in a .. Len(old)
    PROVE  Spliced(old, a, b, mid, SubSeq(old, 1, a) \o mid \o SubSeq(old, b + 1, Len(old)))
<1> DEFINE n    == Len(old)
           m    == Len(mid)
           pre  == SubSeq(old, 1, a)
           post == SubSeq(old, b + 1, n)
           new  == pre \o mid \o post
<1>1. n \in Nat /\ m \in Nat /\ \A i \in 1 .. n : old[i] \in Line  BY LenProperties, ElementOfSeq
<1>2. pre \in Seq(Line) /\ Len(pre) = a /\ \A i \in 1 .. a : pre[i] = old[i]
  <2>2. /\ pre \in Seq(Line) /\ Len(pre) = a - 1 + 1
        /\ \A i \in 1 .. a - 1 + 1 : pre[i] = old[1 + i - 1]
    <3>1. 1 \in Nat \ {0} /\ a \in 0 .. Len(old) /\ 1 <= a + 1  BY <1>1
    <3>q. QED BY <3>1, Cut
  <2> HIDE DEF pre
  <2>3. a - 1 + 1 = a /\ \A i \in 1 .. a : 1 + i - 1 = i  BY <1>1
  <2>4. \A i \in 1 .. a : pre[i] = old[1 + i - 1]  BY <2>2, <2>3, Zenon
  <2>q. QED BY <2>2, <2>3, <2>4
<1>3. post \in Seq(Line) /\ Len(post) = n - b /\ \A i \in 1 .. n - b : post[i] = old[b + i]
  <2>2. /\ post \in Seq(Line) /\ Len(post) = n - (b + 1) + 1
        /\ \A i \in 1 .. n - (b + 1) + 1 : post[i] = old[(b + 1) + i - 1]
    <3>1. b + 1 \in Nat \ {0} /\ n \in 0 .. Len(old) /\ b + 1 <= n + 1  BY <1>1
    <3>q. QED BY <3>1, Cut
  <2> HIDE DEF post
  <2>3. n - (b + 1) + 1 = n - b /\ \A i \in 1 .. n - b : (b + 1) + i - 1 = b + i
    BY <1>1
  <2>4. \A i \in 1 .. n - b : post[i] = old[(b + 1) + i - 1]  BY <2>2, <2>3, Zenon
  <2>q. QED BY <2>2, <2>3, <2>4
<1>4. pre \in Seq(Line) /\ post \in Seq(Line)  BY <1>2, <1>3
<1> HIDE DEF pre, post
<1>5. /\ new \in Seq(Line) /\ Len(new) = a + m + (n - b)
      /\ \A i \in 1 .. a : new[i] = pre[i]
      /\ \A i \in 1 .. m : new[a + i] = mid[i]
      /\ \A i \in 1 .. n - b : new[a + m + i] = post[i]
  <2>1. /\ new \in Seq(Line) /\ Len(new) = Len(pre) + Len(mid) + Len(post)
        /\ \A i \in 1 .. Len(pre) : new[i] = pre[i]
        /\ \A i \in 1 .. Len(mid) : new[Len(pre) + i] = mid[i]
        /\ \A i \in 1 .. Len(post) : new[Len(pre) + Len(mid) + i] = post[i]
    <3>1. mid \in Seq(Line)  OBVIOUS
    <3> HIDE DEF n, m
    <3>q. QED BY <1>4, <3>1, Joined
  <2> HIDE DEF new
  <2>q. QED BY <2>1, <1>2, <1>3, Zenon
<1> HIDE DEF new
<1>6. Len(new) = n + m - (b - a)  BY <1>1, <1>5
<1>7. \A i \in 1 .. a : new[i] = old[i]  BY <1>2, <1>5
<1>8. ASSUME NEW i \in b + 1 .. n PROVE new[i + m - (b - a)] = old[i]
  <2>1. i - b \in 1 .. n - b /\ a + m + (i - b) = i + m - (b - a) /\ b + (i - b) = i
    BY <1>1
  <2>q. QED BY <2>1, <1>3, <1>5
<1>q. QED BY <1>5, <1>6, <1>7, <1>8 DEF Spliced, new, pre, post

\* The end of a directive, or of a line of none.
Clean(lines, m) == m < Len(lines) => lines[m + 1][2] <= 1

\* A clean place of a whole file is where a directive ends.
LEMMA CleanEnd ==
    ASSUME NEW lines \in Seq(Line), Whole(lines), NEW m \in 1 .. Len(lines), Clean(lines, m)
    PROVE  lines[m] \in Loose \/ lines[m][2] = Height(lines[m][1])
<1>1. Len(lines) \in Nat /\ DOMAIN lines = 1 .. Len(lines)  BY LenProperties
<1> DEFINE d == lines[m][1]
           i == lines[m][2]
<1> SUFFICES ASSUME lines[m] \notin Loose, i # Height(d) PROVE FALSE  OBVIOUS
<1>2. i \in 1 .. Height(d) /\ (i < Height(d) => m < Len(lines) /\ lines[m + 1] = <<d, i + 1>>)
  BY <1>1 DEF Whole
<1>3. i < Height(d) /\ i > 0  BY <1>2, Heights
<1>4. lines[m + 1][2] = i + 1  BY <1>2, <1>3
<1>q. QED BY <1>2, <1>3, <1>4 DEF Clean

\* A splice between clean places of whole lines leaves the file whole.
LEMMA SplicedWhole ==
    ASSUME NEW old \in Seq(Line), NEW a, NEW b, NEW mid, NEW new, Spliced(old, a, b, mid, new),
           Whole(old), Whole(mid), Clean(old, a), Clean(old, b)
    PROVE  Whole(new)
<1> DEFINE n  == Len(old)
           m  == Len(mid)
           by == m - (b - a)
<1>1. /\ n \in Nat /\ m \in Nat /\ a \in 0 .. n /\ b \in a .. n /\ by \in Int
      /\ DOMAIN old = 1 .. n /\ DOMAIN mid = 1 .. m /\ DOMAIN new = 1 .. n + by
      /\ new \in Seq(Line) /\ mid \in Seq(Line) /\ Len(new) = n + by
  BY LenProperties DEF Spliced
<1>2. /\ \A i \in 1 .. a : new[i] = old[i]
      /\ \A i \in 1 .. m : new[a + i] = mid[i]
      /\ \A i \in b + 1 .. n : new[i + by] = old[i]
  <2>1. \A i \in b + 1 .. n : i + m - (b - a) = i + by  BY <1>1
  <2>q. QED BY <2>1 DEF Spliced
<1> DEFINE Fits(s, k) ==
              \/ s[k] \in Loose
              \/ /\ s[k][2] \in 1 .. Height(s[k][1])
                 /\ s[k][2] > 1 => k > 1 /\ s[k - 1] = <<s[k][1], s[k][2] - 1>>
                 /\ s[k][2] < Height(s[k][1]) => k < Len(s) /\ s[k + 1] = <<s[k][1], s[k][2] + 1>>
<1>3. (\A k \in 1 .. n : Fits(old, k)) /\ (\A k \in 1 .. m : Fits(mid, k))
  BY <1>1 DEF Whole
<1>4. SUFFICES \A k \in 1 .. n + by : Fits(new, k)  BY <1>1 DEF Whole
<1>5. ASSUME NEW k \in 1 .. a PROVE Fits(new, k)
  <2>1. new[k] = old[k] /\ k \in 1 .. n  BY <1>1, <1>2
  <2>2. CASE old[k] \in Loose  BY <2>1, <2>2
  <2>3. CASE old[k] \notin Loose
    <3>1. /\ old[k][2] \in 1 .. Height(old[k][1])
          /\ old[k][2] > 1 => k > 1 /\ old[k - 1] = <<old[k][1], old[k][2] - 1>>
          /\ old[k][2] < Height(old[k][1]) => k < n /\ old[k + 1] = <<old[k][1], old[k][2] + 1>>
      BY <2>1, <2>3, <1>3
    <3>2. k > 1 => new[k - 1] = old[k - 1]
      <4> SUFFICES ASSUME k > 1 PROVE new[k - 1] = old[k - 1]  OBVIOUS
      <4>1. k - 1 \in 1 .. a  BY <1>1
      <4>q. QED BY <4>1, <1>2
    <3>3. old[k][2] < Height(old[k][1]) => k < n + by /\ new[k + 1] = old[k + 1]
      <4> SUFFICES ASSUME old[k][2] < Height(old[k][1])
                   PROVE  k < n + by /\ new[k + 1] = old[k + 1]  OBVIOUS
      <4>1. k # a
        <5> SUFFICES ASSUME k = a PROVE FALSE  OBVIOUS
        <5>1. a \in 1 .. Len(old)  BY <1>1
        <5>2. old[a][2] = Height(old[a][1])  BY <5>1, <2>3, CleanEnd
        <5>q. QED BY <5>2, Heights
      <4>2. k + 1 \in 1 .. a /\ k < n + by  BY <1>1, <4>1
      <4>q. QED BY <4>2, <1>2
    <3>q. QED BY <1>1, <2>1, <3>1, <3>2, <3>3
  <2>q. QED BY <2>2, <2>3
<1>6. ASSUME NEW j \in 1 .. m PROVE Fits(new, a + j)
  <2>1. new[a + j] = mid[j] /\ Fits(mid, j)  BY <1>2, <1>3
  <2>2. CASE mid[j] \in Loose  BY <2>1, <2>2
  <2>3. CASE mid[j] \notin Loose
    <3>1. /\ mid[j][2] \in 1 .. Height(mid[j][1])
          /\ mid[j][2] > 1 => j > 1 /\ mid[j - 1] = <<mid[j][1], mid[j][2] - 1>>
          /\ mid[j][2] < Height(mid[j][1]) => j < m /\ mid[j + 1] = <<mid[j][1], mid[j][2] + 1>>
      BY <2>1, <2>3
    <3>2. j > 1 => a + j > 1 /\ new[(a + j) - 1] = mid[j - 1]
      <4> SUFFICES ASSUME j > 1 PROVE a + j > 1 /\ new[(a + j) - 1] = mid[j - 1]  OBVIOUS
      <4>1. j - 1 \in 1 .. m /\ (a + j) - 1 = a + (j - 1) /\ a + j > 1  BY <1>1
      <4>q. QED BY <4>1, <1>2
    <3>3. j < m => a + j < n + by /\ new[(a + j) + 1] = mid[j + 1]
      <4> SUFFICES ASSUME j < m PROVE a + j < n + by /\ new[(a + j) + 1] = mid[j + 1]  OBVIOUS
      <4>1. j + 1 \in 1 .. m /\ (a + j) + 1 = a + (j + 1) /\ a + j < n + by  BY <1>1
      <4>q. QED BY <4>1, <1>2
    <3> HIDE DEF by
    <3>q. QED BY <1>1, <2>1, <3>1, <3>2, <3>3
  <2>q. QED BY <2>2, <2>3
<1>7. ASSUME NEW j \in b + 1 .. n PROVE Fits(new, j + by)
  <2>0. j \in 1 .. n  BY <1>1
  <2>1. new[j + by] = old[j] /\ Fits(old, j) /\ j \in 1 .. n
    <3> HIDE DEF Fits
    <3>q. QED BY <1>2, <1>3, <2>0
  <2>2. CASE old[j] \in Loose  BY <2>1, <2>2
  <2>3. CASE old[j] \notin Loose
    <3>1. /\ old[j][2] \in 1 .. Height(old[j][1])
          /\ old[j][2] > 1 => j > 1 /\ old[j - 1] = <<old[j][1], old[j][2] - 1>>
          /\ old[j][2] < Height(old[j][1]) => j < n /\ old[j + 1] = <<old[j][1], old[j][2] + 1>>
      BY <2>1, <2>3
    <3>2. old[j][2] > 1 => j + by > 1 /\ new[(j + by) - 1] = old[j - 1]
      <4> SUFFICES ASSUME old[j][2] > 1 PROVE j + by > 1 /\ new[(j + by) - 1] = old[j - 1]
        OBVIOUS
      <4>1. j # b + 1
        <5> SUFFICES ASSUME j = b + 1 PROVE FALSE  OBVIOUS
        <5>1. old[b + 1][2] <= 1 /\ old[b + 1][2] > 1  BY <1>1 DEF Clean
        <5>2. old[b + 1][2] \in Nat  BY <2>1, LineShape, ElementOfSeq
        <5>q. QED BY <5>1, <5>2
      <4>0. n \in Int /\ b \in Int /\ j \in b + 1 .. n  BY <1>1
      <4>2. j - 1 \in b + 1 .. n /\ j >= b + 2
        <5> HIDE DEF n
        <5>q. QED BY <4>0, <4>1
      <4>3. j + by > 1  BY <1>1, <4>2
      <4>4. (j + by) - 1 = (j - 1) + by
        <5> HIDE DEF by
        <5>q. QED BY <1>1, <4>2
      <4>q. QED BY <4>2, <4>3, <4>4, <1>2
    <3>3. j < n => j + by < n + by /\ new[(j + by) + 1] = old[j + 1]
      <4> SUFFICES ASSUME j < n PROVE j + by < n + by /\ new[(j + by) + 1] = old[j + 1]  OBVIOUS
      <4>1. j + 1 \in b + 1 .. n /\ (j + by) + 1 = (j + 1) + by /\ j + by < n + by  BY <1>1
      <4>q. QED BY <4>1, <1>2
    <3> HIDE DEF by
    <3>q. QED BY <1>1, <2>1, <3>1, <3>2, <3>3
  <2>q. QED BY <2>2, <2>3
<1>8. ASSUME NEW k \in 1 .. n + by PROVE Fits(new, k)
  <2>1. \/ k \in 1 .. a
        \/ k - a \in 1 .. m /\ k = a + (k - a)
        \/ k - by \in b + 1 .. n /\ k = (k - by) + by
    BY <1>1
  <2> HIDE DEF Fits, by
  <2>q. QED BY <2>1, <1>5, <1>6, <1>7
<1>q. QED BY <1>8

\* The lines of a directive stand together below its first.
LEMMA Block ==
    ASSUME NEW lines \in Seq(Line), Whole(lines), NEW k \in 1 .. Len(lines), lines[k][2] = 1
    PROVE  /\ lines[k][1] \in Directive
           /\ k + Height(lines[k][1]) - 1 <= Len(lines)
           /\ \A i \in 1 .. Height(lines[k][1]) : lines[k + i - 1] = <<lines[k][1], i>>
           /\ Clean(lines, k - 1)
           /\ Clean(lines, k + Height(lines[k][1]) - 1)
<1> DEFINE d == lines[k][1]
           h == Height(d)
           n == Len(lines)
<1>1. /\ n \in Nat /\ DOMAIN lines = 1 .. n /\ \A i \in 1 .. n : lines[i] \in Line
      /\ k \in 1 .. n /\ h \in {1, 3}
  BY LenProperties, ElementOfSeq, Heights
<1>2. d \in Directive /\ lines[k] = <<d, 1>>
  <2>1. lines[k] \in Line  BY <1>1
  <2>q. QED BY <2>1, LineShape
<1> HIDE DEF h
<1>3. ASSUME NEW j \in 1 .. n, NEW i \in 1 .. h, lines[j] = <<d, i>>, i < h
      PROVE  j < n /\ lines[j + 1] = <<d, i + 1>>
  <2>1. lines[j] \notin Loose /\ lines[j][1] = d /\ lines[j][2] = i
    <3>1. i \in Nat \ {0}  BY <1>1
    <3>2. lines[j][1] = d /\ lines[j][2] = i  BY <1>2, <1>3, <3>1, LineShape
    <3>q. QED BY <3>1, <3>2, LineShape
  <2>2. \/ lines[j] \in Loose
        \/ (lines[j][2] < Height(lines[j][1]) =>
              j < Len(lines) /\ lines[j + 1] = <<lines[j][1], lines[j][2] + 1>>)
    BY <1>1 DEF Whole
  <2>q. QED BY <2>1, <2>2, <1>3 DEF h
<1> DEFINE P(i) == k + i - 1 \in 1 .. n /\ lines[k + i - 1] = <<d, i>>
<1>4. P(1)
  <2>1. k + 1 - 1 = k  BY <1>1
  <2>q. QED BY <2>1, <1>1, <1>2
<1>5. ASSUME NEW i \in 1 .. h, i < h, P(i) PROVE P(i + 1)
  <2> DEFINE j == k + i - 1
  <2>1. j + 1 = k + (i + 1) - 1 /\ j \in 1 .. n  BY <1>1, <1>5
  <2>2. j < n /\ lines[j + 1] = <<d, i + 1>>  BY <2>1, <1>3, <1>5
  <2>3. j + 1 \in 1 .. n  BY <2>1, <2>2, <1>1
  <2> HIDE DEF j
  <2>q. QED BY <2>1, <2>2, <2>3
<1>6. ASSUME NEW i \in 1 .. h PROVE P(i)
  <2>1. 2 \in 1 .. h => P(2)
    <3>1. 2 \in 1 .. h => 1 \in 1 .. h /\ 1 < h /\ 1 + 1 = 2  BY <1>1
    <3> HIDE DEF P
    <3>q. QED BY <3>1, <1>4, <1>5
  <2>2. 3 \in 1 .. h => P(3)
    <3>1. 3 \in 1 .. h => 2 \in 1 .. h /\ 2 < h /\ 2 + 1 = 3  BY <1>1
    <3> HIDE DEF P
    <3>q. QED BY <3>1, <2>1, <1>5
  <2>3. i \in {1, 2, 3}  BY <1>1
  <2> HIDE DEF P
  <2>q. QED BY <2>1, <2>2, <2>3, <1>4
<1>7. k + h - 1 \in 1 .. n /\ lines[k + h - 1] = <<d, h>>
  <2>1. h \in 1 .. h  BY <1>1
  <2>q. QED BY <2>1, <1>6
<1>8. Clean(lines, k - 1)
  <2>1. (k - 1) + 1 = k /\ 1 <= 1  BY <1>1
  <2>q. QED BY <2>1 DEF Clean
<1>9. Clean(lines, k + h - 1)
  <2> DEFINE m == k + h - 1
             x == lines[m + 1]
  <2>1. lines[m][1] = d /\ lines[m][2] = h /\ m \in 1 .. n
    BY <1>1, <1>2, <1>7, LineShape
  <2> HIDE DEF m
  <2> SUFFICES ASSUME m < n, ~(x[2] <= 1) PROVE FALSE  BY DEF Clean, m
  <2>2. m + 1 \in 1 .. n /\ x \in Line /\ x[2] \in Nat /\ x[2] > 1
    <3>1. m + 1 \in 1 .. n  BY <1>1, <2>1
    <3>2. x \in Line /\ x[2] \in Nat  BY <3>1, <1>1, LineShape
    <3>q. QED BY <3>1, <3>2
  <2>3. x \notin Loose  BY <2>2, LineShape
  <2>4. x[2] \in 1 .. Height(x[1]) /\ lines[(m + 1) - 1] = <<x[1], x[2] - 1>>
    BY <1>1, <2>2, <2>3 DEF Whole
  <2>5. lines[m] = <<x[1], x[2] - 1>>
    <3>1. (m + 1) - 1 = m  BY <2>1
    <3>q. QED BY <3>1, <2>4
  <2>6. x[1] = d /\ x[2] - 1 = h  BY <2>1, <2>5
  <2>q. QED BY <2>2, <2>4, <2>6, <1>1 DEF h
<1>q. QED BY <1>1, <1>2, <1>6, <1>7, <1>8, <1>9 DEF h

\* Lines that are those of a directive.
HasBlock(lines, d, k) ==
    /\ k \in 1 .. Len(lines) /\ d \in Directive
    /\ k + Height(d) - 1 \in 1 .. Len(lines)
    /\ \A i \in 1 .. Height(d) : lines[k + i - 1] = <<d, i>>

\* Before and after a directive of a whole file are clean places.
LEMMA BlockAt ==
    ASSUME NEW lines \in Seq(Line), Whole(lines), NEW d, NEW k, HasBlock(lines, d, k)
    PROVE  Clean(lines, k - 1) /\ Clean(lines, k + Height(d) - 1)
<1>1. 1 \in 1 .. Height(d) /\ k + 1 - 1 = k  BY Heights DEF HasBlock
<1>2. lines[k] = <<d, 1>>  BY <1>1 DEF HasBlock
<1>3. lines[k][1] = d /\ lines[k][2] = 1  BY <1>2
<1>q. QED BY <1>3, Block DEF HasBlock

\* A first line of a whole file is the first of the whole directive.
LEMMA BlockOf ==
    ASSUME NEW lines \in Seq(Line), Whole(lines), NEW k \in 1 .. Len(lines), lines[k][2] = 1
    PROVE  HasBlock(lines, lines[k][1], k)
<1>1. Len(lines) \in Nat  BY LenProperties
<1>q. QED BY <1>1, Block, Heights DEF HasBlock

\* The lines of a text stand at a place.
Bears(lines, text, k) ==
    /\ k \in 1 .. Len(lines) /\ k + Size(text) - 1 \in 1 .. Len(lines)
    /\ \A i \in 1 .. 3 : lines[k + i - 1] = <<text.directive, i>>
    /\ \A i \in 1 .. Len(text.tail) : lines[k + 2 + i] = text.tail[i]

\* The lines from a place are those of a text exactly when they stand there.
LEMMA BearsIs ==
    ASSUME NEW file, file.lines \in Seq(Line), NEW text \in Text, NEW k \in 1 .. Len(file.lines)
    PROVE  Bears(file.lines, text, k) <=> /\ k + Size(text) - 1 <= Len(file.lines)
                                          /\ LinesFrom(file, text, k) = TextLines(text)
<1> DEFINE s == file.lines
           n == Len(s)
           z == Size(text)
           last == k + z - 1
           t == SubSeq(s, k, last)
           u == TextLines(text)
           d == text.directive
           l == text.tail
<1>1. n \in Nat /\ z \in Nat /\ z = 3 + Len(l) /\ Len(l) \in Nat  BY LenProperties, TextShape
<1>2. /\ u \in Seq(Line) /\ Len(u) = z
      /\ \A i \in 1 .. 3 : u[i] = <<d, i>>
      /\ \A i \in 1 .. Len(l) : u[3 + i] = l[i]
  BY TextLinesShape
<1>3. LinesFrom(file, text, k) = t  BY DEF LinesFrom
<1>4. k \in 1 .. n  OBVIOUS
<1>5. s \in Seq(Line)  OBVIOUS
<1> HIDE DEF n, z, s, u, l
<1>6. ASSUME last <= n
      PROVE  /\ last \in 1 .. n /\ t \in Seq(Line) /\ Len(t) = z
             /\ \A i \in 1 .. z : t[i] = s[k + i - 1]
  <2>1. k \in Nat \ {0} /\ last \in 0 .. n /\ k <= last + 1 /\ last - k + 1 = z /\ last \in 1 .. n
    BY <1>1, <1>4, <1>6
  <2>2. /\ t \in Seq(Line) /\ Len(t) = last - k + 1
        /\ \A i \in 1 .. last - k + 1 : t[i] = s[k + i - 1]
    <3> HIDE DEF last
    <3>q. QED BY <2>1, <1>5, Cut DEF n
  <2> HIDE DEF t
  <2>q. QED BY <2>1, <2>2
<1> HIDE DEF t
<1>7. ASSUME last <= n, t = u
      PROVE  /\ last \in 1 .. n
             /\ \A i \in 1 .. 3 : s[k + i - 1] = <<d, i>>
             /\ \A i \in 1 .. Len(l) : s[k + 2 + i] = l[i]
  <2>1. ASSUME NEW i \in 1 .. 3 PROVE s[k + i - 1] = <<d, i>>
    <3>1. i \in 1 .. z  BY <1>1
    <3>q. QED BY <3>1, <1>2, <1>6, <1>7
  <2>2. ASSUME NEW i \in 1 .. Len(l) PROVE s[k + 2 + i] = l[i]
    <3>1. 3 + i \in 1 .. z /\ k + (3 + i) - 1 = k + 2 + i  BY <1>1, <1>4
    <3>q. QED BY <3>1, <1>2, <1>6, <1>7
  <2>q. QED BY <2>1, <2>2, <1>6, <1>7
<1>8. ASSUME last \in 1 .. n,
             \A i \in 1 .. 3 : s[k + i - 1] = <<d, i>>,
             \A i \in 1 .. Len(l) : s[k + 2 + i] = l[i]
      PROVE  last <= n /\ t = u
  <2>1. last <= n  BY <1>1, <1>8
  <2>2. ASSUME NEW i \in 1 .. z PROVE t[i] = u[i]
    <3>1. CASE i \in 1 .. 3  BY <3>1, <2>1, <1>2, <1>6, <1>8
    <3>2. CASE i > 3
      <4>1. i - 3 \in 1 .. Len(l) /\ 3 + (i - 3) = i /\ k + 2 + (i - 3) = k + i - 1
        BY <3>2, <1>1, <1>4
      <4>q. QED BY <4>1, <2>1, <1>2, <1>6, <1>8
    <3>3. i \in 1 .. 3 \/ i > 3  BY <1>1
    <3>q. QED BY <3>1, <3>2, <3>3
  <2>3. t = u  BY <2>1, <2>2, <1>2, <1>6, SeqEqual
  <2>q. QED BY <2>1, <2>3
<1>9. Bears(s, text, k) <=> /\ last \in 1 .. n
                            /\ \A i \in 1 .. 3 : s[k + i - 1] = <<d, i>>
                            /\ \A i \in 1 .. Len(l) : s[k + 2 + i] = l[i]
  BY <1>4 DEF Bears, z, n, l
<1> HIDE DEF last
<1>10. Bears(s, text, k) <=> last <= n /\ t = u  BY <1>7, <1>8, <1>9
<1>q. QED BY <1>3, <1>10 DEF s, n, z, last, u

\* Where a text is struck: at a directive it begins with, and then at comments and
\* metadata.
Struck(lines, x, text, k) ==
    /\ x \in Heads(text) /\ HasBlock(lines, x, k)
    /\ k + Size(text) - 1 \in 1 .. Len(lines)
    /\ \A i \in k + 3 .. k + Size(text) - 1 : lines[i] \in {Note, Meta}

\* Where the lines of a text stand, its directive is struck.
LEMMA BearsStruck ==
    ASSUME NEW lines \in Seq(Line), NEW text \in Text, NEW k, Bears(lines, text, k)
    PROVE  Struck(lines, text.directive, text, k)
<1> DEFINE n == Len(lines)
           z == Size(text)
           d == text.directive
           l == text.tail
<1>1. n \in Nat /\ z \in Nat /\ z = 3 + Len(l) /\ Len(l) \in Nat  BY LenProperties, TextShape
<1>2. /\ k \in 1 .. n /\ k + z - 1 \in 1 .. n
      /\ \A i \in 1 .. 3 : lines[k + i - 1] = <<d, i>>
      /\ \A i \in 1 .. Len(l) : lines[k + 2 + i] = l[i]
  BY DEF Bears
<1>3. d \in Heads(text) /\ d \in Directive /\ Height(d) = 3
  BY TextShape, CommentedShape DEF Heads
<1>4. \A i \in 1 .. Len(l) : l[i] \in {Note, Meta}  BY TextLinesShape
<1>5. k + z - 1 \in 1 .. Len(lines)  BY <1>2
<1> HIDE DEF n, z, l, d
<1>6. HasBlock(lines, d, k)
  <2>1. k + 3 - 1 \in 1 .. n  BY <1>1, <1>2
  <2>q. QED BY <2>1, <1>2, <1>3 DEF HasBlock, n
<1>7. ASSUME NEW i \in k + 3 .. k + z - 1 PROVE lines[i] \in {Note, Meta}
  <2>1. i - k - 2 \in 1 .. Len(l) /\ k + 2 + (i - k - 2) = i  BY <1>1, <1>2
  <2>q. QED BY <2>1, <1>2, <1>4
<1>q. QED BY <1>3, <1>5, <1>6, <1>7 DEF Struck, z, d

\* Where a text occurs, one of its heads is struck; another than its directive only
\* when the text ends with the postings and without a newline.
LEMMA OccursStruck ==
    ASSUME NEW file, file.lines \in Seq(Line), NEW text \in Text,
           NEW k \in 1 .. Len(file.lines), OccursAt(file, text, k)
    PROVE  \E x \in Heads(text) : Struck(file.lines, x, text, k)
<1> DEFINE s == file.lines
           n == Len(s)
           d == text.directive
           x == Commented(d)
           last == k + Size(text) - 1
<1>1. CASE LinesFrom(file, text, k) = TextLines(text)
  <2>1. Bears(s, text, k)  BY <1>1, BearsIs DEF OccursAt
  <2>2. Struck(s, d, text, k)  BY <2>1, BearsStruck
  <2>q. QED BY <2>2 DEF Heads
<1>2. CASE text.tail = <<>> /\ LinesFrom(file, text, k) = LinesOf(x)
  <2>1. x \in Heads(text) /\ x \in Directive /\ Height(x) = 3 /\ Size(text) = 3
    BY <1>2, TextShape, CommentedShape, Tuple0 DEF Heads
  <2>2. last <= n /\ n \in Nat /\ k \in 1 .. n  BY LenProperties DEF OccursAt
  <2>3. last = k + 2  BY <2>1, <2>2
  <2>4. k \in Nat \ {0} /\ k + 2 \in 0 .. n /\ k <= (k + 2) + 1 /\ (k + 2) - k + 1 = 3
        /\ k + 2 \in 1 .. n
    BY <2>2, <2>3
  <2>5. \A i \in 1 .. (k + 2) - k + 1 : SubSeq(s, k, k + 2)[i] = s[k + i - 1]
    <3> HIDE DEF s
    <3>1. s \in Seq(Line)  BY DEF s
    <3>q. QED BY <2>4, <3>1, Cut
  <2>6. SubSeq(s, k, k + 2) = LinesOf(x)  BY <1>2, <2>3 DEF LinesFrom
  <2>7. \A i \in 1 .. 3 : LinesOf(x)[i] = <<x, i>>  BY <2>1, LinesOfShape
  <2> HIDE DEF s, n, x
  <2>8. \A i \in 1 .. 3 : s[k + i - 1] = <<x, i>>  BY <2>4, <2>5, <2>6, <2>7
  <2>9. k + 3 - 1 = k + 2 /\ k + 3 .. k + 3 - 1 = {}  BY <2>4
  <2>10. HasBlock(s, x, k)  BY <2>1, <2>2, <2>4, <2>8, <2>9 DEF HasBlock, n
  <2>11. Struck(s, x, text, k)  BY <2>1, <2>4, <2>9, <2>10 DEF Struck, n
  <2>q. QED BY <2>1, <2>11 DEF s, x
<1>q. QED BY <1>1, <1>2 DEF OccursAt

\* Below a line of no directive no directive is cut.
LEMMA LooseClean ==
    ASSUME NEW lines \in Seq(Line), Whole(lines), NEW m \in 1 .. Len(lines), lines[m] \in Loose
    PROVE  Clean(lines, m)
<1> SUFFICES ASSUME m < Len(lines), ~(lines[m + 1][2] <= 1) PROVE FALSE  BY DEF Clean
<1> DEFINE x == lines[m + 1]
<1>1. /\ Len(lines) \in Nat /\ DOMAIN lines = 1 .. Len(lines)
      /\ m + 1 \in 1 .. Len(lines) /\ (m + 1) - 1 = m
  BY LenProperties
<1>2. x \in Line  BY <1>1, ElementOfSeq
<1>3. x[2] \in Nat /\ x[2] > 1 /\ x \notin Loose  BY <1>2, LineShape
<1>4. lines[m] = <<x[1], x[2] - 1>> /\ x[2] \in 1 .. Height(x[1])
  BY <1>1, <1>3 DEF Whole
<1>5. lines[m][2] = x[2] - 1 /\ x[2] - 1 > 0  BY <1>3, <1>4
<1>q. QED BY <1>5, LineShape

\* What is struck is in the file, and begins and ends at clean places.
LEMMA StruckShape ==
    ASSUME NEW lines \in Seq(Line), NEW text \in Text, NEW x, NEW k, Struck(lines, x, text, k)
    PROVE  LET last == k + Size(text) - 1
           IN  /\ k \in 1 .. Len(lines) /\ last \in k + 2 .. Len(lines) /\ last \in Nat
               /\ x \in Transaction /\ Height(x) = 3 /\ Plain(x) = Plain(text.directive)
               /\ \A i \in 1 .. 3 : lines[k + i - 1] = <<x, i>>
               /\ \A i \in k .. last : lines[i] # Glued
               /\ Whole(lines) => Clean(lines, k - 1) /\ Clean(lines, last)
<1> DEFINE n == Len(lines)
           z == Size(text)
           last == k + z - 1
<1>1. /\ n \in Nat /\ z \in Nat /\ z >= 3 /\ x \in Heads(text)
      /\ x \in Transaction /\ Height(x) = 3 /\ Plain(x) = Plain(text.directive)
  BY LenProperties, TextShape DEF Struck
<1>2. /\ k \in 1 .. n /\ last \in 1 .. n /\ HasBlock(lines, x, k)
      /\ \A i \in k + 3 .. last : lines[i] \in {Note, Meta}
      /\ \A i \in 1 .. 3 : lines[k + i - 1] = <<x, i>>
  BY <1>1 DEF Struck, HasBlock
<1> HIDE DEF n, z
<1>3. last \in k + 2 .. n /\ last \in Nat  BY <1>1, <1>2
<1>4. ASSUME NEW i \in k .. last PROVE lines[i] # Glued
  <2>1. CASE i \in k .. k + 2
    <3>1. i - k + 1 \in 1 .. 3 /\ k + (i - k + 1) - 1 = i  BY <2>1, <1>2
    <3>2. lines[i] = <<x, i - k + 1>> /\ i - k + 1 > 0  BY <3>1, <1>2
    <3>3. lines[i][2] = i - k + 1  BY <3>2
    <3>q. QED BY <3>1, <3>2, <3>3, LineShape
  <2>2. CASE i \in k + 3 .. last
    <3>1. lines[i] \in {Note, Meta}  BY <2>2, <1>2
    <3>2. Note # Glued /\ Meta # Glued  BY LineShape
    <3>q. QED BY <3>1, <3>2
  <2>3. i \in k .. k + 2 \/ i \in k + 3 .. last  BY <1>2, <1>3
  <2>q. QED BY <2>1, <2>2, <2>3
<1>5. ASSUME Whole(lines) PROVE Clean(lines, k - 1) /\ Clean(lines, last)
  <2>1. Clean(lines, k - 1) /\ Clean(lines, k + 3 - 1)  BY <1>1, <1>2, <1>5, BlockAt
  <2>2. CASE last = k + 3 - 1
    <3> HIDE DEF last
    <3>q. QED BY <2>1, <2>2
  <2>3. CASE last \in k + 3 .. last
    <3>1. lines[last] \in {Note, Meta}  BY <2>3, <1>2
    <3>2. lines[last] \in Loose  BY <3>1, LineShape
    <3>3. last \in 1 .. Len(lines)  BY <1>2 DEF n
    <3> HIDE DEF last
    <3>q. QED BY <2>1, <3>2, <3>3, <1>5, LooseClean
  <2>4. last = k + 3 - 1 \/ last \in k + 3 .. last  BY <1>2, <1>3
  <2>q. QED BY <2>2, <2>3, <2>4
<1>q. QED BY <1>1, <1>2, <1>3, <1>4, <1>5 DEF last, z, n

\* A transaction ends with the last indented line below its header.
Ends(lines, k, x) ==
    /\ x \in k .. Len(lines)
    /\ \A i \in (k + 1) .. x : IsIndented(lines[i])
    /\ x = Len(lines) \/ ~IsIndented(lines[x + 1])

LEMMA EndIs ==
    ASSUME NEW file, file.lines \in Seq(Line), NEW k \in 1 .. Len(file.lines)
    PROVE  /\ Ends(file.lines, k, EndOf(file, k))
           /\ \A x : Ends(file.lines, k, x) => x = EndOf(file, k)
<1> DEFINE s == file.lines
           n == Len(s)
           E == {e \in k .. n : e = n \/ ~IsIndented(s[e + 1])}
           P(e) == /\ \A i \in (k + 1) .. e : IsIndented(s[i])
                   /\ e = n \/ ~IsIndented(s[e + 1])
<1>1. n \in Nat /\ k \in 1 .. n  BY LenProperties
<1>2. EndOf(file, k) = CHOOSE e \in k .. n : P(e)  BY DEF EndOf
<1>3. \A e : Ends(s, k, e) <=> e \in k .. n /\ P(e)  BY DEF Ends
<1> HIDE DEF n, s
<1>4. \E m \in k .. n : P(m)
  <2>1. n \in E /\ E \subseteq Nat  BY <1>1
  <2>2. PICK m \in E : \A e \in E : m <= e
    <3> HIDE DEF E
    <3>q. QED BY <2>1, LeastNatural
  <2>3. ASSUME NEW i \in (k + 1) .. m PROVE IsIndented(s[i])
    <3>1. i - 1 \in k .. n /\ (i - 1) + 1 = i /\ i - 1 < m  BY <1>1, <2>2
    <3>2. i - 1 \notin E  BY <3>1, <2>2, <1>1
    <3>q. QED BY <3>1, <3>2
  <2>q. QED BY <2>2, <2>3
<1> DEFINE c == CHOOSE e \in k .. n : P(e)
<1>5. c \in k .. n /\ P(c)
  <2> HIDE DEF P
  <2>q. QED BY <1>4
<1> HIDE DEF c
<1>6. ASSUME NEW x \in k .. n, P(x) PROVE x = c
  <2>1. CASE x < c
    <3>1. x + 1 \in (k + 1) .. c /\ x # n  BY <2>1, <1>1, <1>5
    <3>q. QED BY <3>1, <1>5, <1>6
  <2>2. CASE x > c
    <3>1. c + 1 \in (k + 1) .. x /\ c # n  BY <2>2, <1>1, <1>5
    <3>q. QED BY <3>1, <1>5, <1>6
  <2>3. x < c \/ x = c \/ x > c  BY <1>1, <1>5
  <2>q. QED BY <2>1, <2>2, <2>3
<1> HIDE DEF P
<1>7. EndOf(file, k) = c  BY <1>2 DEF c
<1>q. QED BY <1>3, <1>5, <1>6, <1>7 DEF s

\* A transaction of a whole file is its block, and comments and metadata below.
LEMMA EndOfBlock ==
    ASSUME NEW file, file.lines \in Seq(Line), Whole(file.lines), NEW k \in Headers(file)
    PROVE  /\ k \in 1 .. Len(file.lines) /\ file.lines[k][2] = 1
           /\ file.lines[k][1] \in Transaction
           /\ HasBlock(file.lines, file.lines[k][1], k)
           /\ EndOf(file, k) \in k + 2 .. Len(file.lines)
           /\ \A i \in k + 3 .. EndOf(file, k) : file.lines[i] \in {Note, Meta}
           /\ EndOf(file, k) = Len(file.lines) \/ ~IsIndented(file.lines[EndOf(file, k) + 1])
<1> DEFINE s == file.lines
           d == s[k][1]
           n == Len(s)
           e == EndOf(file, k)
<1>1. n \in Nat /\ DOMAIN s = 1 .. n  BY LenProperties
<1>2. k \in 1 .. n /\ s[k][2] = 1 /\ d.kind = "txn"  BY <1>1 DEF Headers, IsHeader
<1>3. HasBlock(s, d, k)  BY <1>2, BlockOf
<1>4. d \in Transaction /\ Height(d) = 3
  <2>1. d \in Directive  BY <1>3 DEF HasBlock
  <2>q. QED BY <2>1, <1>2 DEF Directive, Price, Height
<1>5. k + 2 \in 1 .. n /\ \A i \in 1 .. 3 : s[k + i - 1] = <<d, i>>
  <2>1. k + 3 - 1 = k + 2  BY <1>1, <1>2
  <2>q. QED BY <2>1, <1>3, <1>4 DEF HasBlock
<1>6. Clean(s, k + 2)
  <2>1. k + 3 - 1 = k + 2  BY <1>1, <1>2
  <2>q. QED BY <2>1, <1>3, <1>4, BlockAt
<1>7. Ends(s, k, e)  BY <1>2, EndIs
<1>8. \A i \in 1 .. n : s[i] \in Line  BY <1>1, ElementOfSeq
<1>9. Whole(s)  OBVIOUS
<1> HIDE DEF s, d, n, e
<1>10. /\ e \in k .. n /\ \A i \in (k + 1) .. e : IsIndented(s[i])
       /\ e = n \/ ~IsIndented(s[e + 1])
  BY <1>7 DEF Ends, n
<1>11. IsIndented(s[k + 1]) /\ IsIndented(s[k + 2])
  <2>1. 2 \in 1 .. 3 /\ 3 \in 1 .. 3 /\ k + 2 - 1 = k + 1 /\ k + 3 - 1 = k + 2  BY <1>1, <1>2
  <2>2. s[k + 1] = <<d, 2>> /\ s[k + 2] = <<d, 3>>  BY <2>1, <1>5
  <2>3. s[k + 1][1] = d /\ s[k + 1][2] = 2 /\ s[k + 2][1] = d /\ s[k + 2][2] = 3  BY <2>2
  <2>4. s[k + 1][1].kind = "txn" /\ s[k + 2][1].kind = "txn"  BY <2>3, <1>2
  <2>q. QED BY <2>3, <2>4 DEF IsIndented
<1>12. e \in k + 2 .. n
  <2>1. e # k
    <3> SUFFICES ASSUME e = k PROVE FALSE  OBVIOUS
    <3>1. k # n  BY <1>1, <1>2, <1>5
    <3>q. QED BY <3>1, <1>10, <1>11
  <2>2. e # k + 1
    <3> SUFFICES ASSUME e = k + 1 PROVE FALSE  OBVIOUS
    <3>1. k + 1 # n /\ (k + 1) + 1 = k + 2  BY <1>1, <1>2, <1>5
    <3>q. QED BY <3>1, <1>10, <1>11
  <2>q. QED BY <2>1, <2>2, <1>1, <1>2, <1>10
<1> DEFINE B == {i \in k + 3 .. e : s[i] \notin {Note, Meta}}
<1>13. B = {}
  <2> SUFFICES ASSUME B # {} PROVE FALSE  OBVIOUS
  <2>1. B \subseteq Nat  BY <1>1, <1>2
  <2>2. PICK m \in B : \A i \in B : m <= i
    <3> HIDE DEF B
    <3>q. QED BY <2>1, LeastNatural
  <2>3. /\ m \in (k + 1) .. e /\ m \in 1 .. n /\ m - 1 \in (k + 1) .. e /\ m - 1 \in 1 .. n
        /\ m >= k + 3 /\ m \in Int
    BY <1>1, <1>2, <1>10, <2>2
  <2>4. s[m][1].kind = "txn" /\ s[m][2] > 1 /\ s[m][2] \in Nat /\ s[m] \notin Loose
    <3>1. IsIndented(s[m]) /\ s[m] \notin {Note, Meta}  BY <2>2, <2>3, <1>10
    <3>2. s[m][1].kind = "txn" /\ s[m][2] > 1  BY <3>1 DEF IsIndented
    <3>3. s[m][2] \in Nat  BY <2>3, <1>8, LineShape
    <3>q. QED BY <3>2, <3>3, LineShape
  <2>5. s[m - 1] = <<s[m][1], s[m][2] - 1>>  BY <2>3, <2>4, <1>1, <1>9 DEF Whole
  <2>6. s[m - 1][1].kind = "txn" /\ s[m - 1][2] = s[m][2] - 1  BY <2>4, <2>5
  <2>7. m # k + 3
    <3> SUFFICES ASSUME m = k + 3 PROVE FALSE  OBVIOUS
    <3>1. k + 2 < n /\ (k + 2) + 1 = m  BY <2>3, <1>1, <1>2
    <3>2. s[m][2] <= 1  BY <3>1, <1>6 DEF Clean, n
    <3>q. QED BY <3>2, <2>4
  <2>8. m - 1 \in k + 3 .. e /\ m - 1 < m  BY <2>3, <2>7, <1>1, <1>2, <1>10
  <2>9. s[m - 1] \in {Note, Meta}  BY <2>2, <2>3, <2>8
  <2>10. s[m - 1][2] = 0  BY <2>9, LineShape
  <2>q. QED BY <2>4, <2>6, <2>10
<1>14. \A i \in k + 3 .. e : s[i] \in {Note, Meta}  BY <1>13
<1>q. QED BY <1>2, <1>3, <1>4, <1>10, <1>12, <1>14 DEF s, d, n, e

\* Joining is a splice at the end of the first text ...
LEMMA AtEnd ==
    ASSUME NEW s \in Seq(Line), NEW t \in Seq(Line)
    PROVE  Spliced(s, Len(s), Len(s), t, s \o t)
<1> DEFINE n == Len(s)
           m == Len(t)
           all == s \o t
<1>1. /\ all \in Seq(Line) /\ Len(all) = n + m
      /\ \A i \in 1 .. n : all[i] = s[i]
      /\ \A i \in 1 .. m : all[n + i] = t[i]
  BY Concatenated
<1>2. n \in Nat /\ m \in Nat  BY LenProperties
<1> HIDE DEF all, m
<1>3. n \in 0 .. n /\ n \in n .. n /\ n + m = n + m - (n - n) /\ (n + 1) .. n = {}
  <2> HIDE DEF n
  <2>q. QED BY <1>2
<1> HIDE DEF n
<1>q. QED BY <1>1, <1>3 DEF Spliced, n, m, all

\* ... and one at the start of the second.
LEMMA AtStart ==
    ASSUME NEW s \in Seq(Line), NEW t \in Seq(Line)
    PROVE  Spliced(t, 0, 0, s, s \o t)
<1> DEFINE n == Len(s)
           m == Len(t)
           all == s \o t
<1>1. /\ all \in Seq(Line) /\ Len(all) = n + m
      /\ \A i \in 1 .. n : all[i] = s[i]
      /\ \A i \in 1 .. m : all[n + i] = t[i]
  BY Concatenated
<1>2. n \in Nat /\ m \in Nat  BY LenProperties
<1> HIDE DEF all, m, n
<1>3. 0 \in 0 .. m /\ n + m = m + n - (0 - 0) /\ 1 .. 0 = {}
  BY <1>2
<1>4. \A i \in 1 .. n : 0 + i = i  BY <1>2
<1>5. \A i \in 0 + 1 .. m : i \in 1 .. m /\ i + n - (0 - 0) = n + i  BY <1>2
<1>q. QED BY <1>1, <1>3, <1>4, <1>5 DEF Spliced, n, m, all

\* The start and the end of a whole file are clean.
LEMMA CleanEnds ==
    ASSUME NEW s \in Seq(Line), Whole(s)
    PROVE  Clean(s, 0) /\ Clean(s, Len(s))
<1>1. Len(s) \in Nat /\ DOMAIN s = 1 .. Len(s)  BY LenProperties
<1>2. Clean(s, Len(s))  BY <1>1 DEF Clean
<1>3. ASSUME 0 < Len(s) PROVE s[0 + 1][2] <= 1
  <2>1. 0 + 1 = 1 /\ 1 \in 1 .. Len(s)  BY <1>1, <1>3
  <2>2. s[1] \in Line /\ s[1][2] \in Nat  BY <2>1, LineShape, ElementOfSeq
  <2>3. s[1] \in Loose \/ (s[1][2] > 1 => 1 > 1)  BY <1>1, <2>1 DEF Whole
  <2>4. CASE s[1] \in Loose  BY <2>1, <2>4, LineShape
  <2>5. CASE s[1][2] > 1 => 1 > 1  BY <2>1, <2>2, <2>5
  <2>q. QED BY <2>3, <2>4, <2>5
<1>q. QED BY <1>2, <1>3 DEF Clean

\* Whole texts one after the other are whole.
LEMMA WholeConcat ==
    ASSUME NEW s \in Seq(Line), NEW t \in Seq(Line), Whole(s), Whole(t)
    PROVE  s \o t \in Seq(Line) /\ Whole(s \o t)
<1>1. Spliced(s, Len(s), Len(s), t, s \o t)  BY AtEnd
<1>2. Clean(s, Len(s))  BY CleanEnds
<1>q. QED BY <1>1, <1>2, SplicedWhole DEF Spliced

\* A text below an empty line is whole when it is.
LEMMA BelowShape ==
    ASSUME NEW text \in Seq(Line)
    PROVE  /\ Below(text) \in Seq(Line) /\ Spliced(text, 0, 0, <<Blank>>, Below(text))
           /\ Whole(text) => Whole(Below(text))
<1>1. <<Blank>> \in Seq(Line) /\ Len(<<Blank>>) = 1 /\ <<Blank>>[1] = Blank
  BY LineShape, Tuple1
<1>2. Spliced(text, 0, 0, <<Blank>>, Below(text))  BY <1>1, AtStart DEF Below
<1>3. Whole(<<Blank>>)  BY <1>1, LineShape DEF Whole
<1>q. QED BY <1>1, <1>2, <1>3, CleanEnds, SplicedWhole DEF Spliced

\* Comments and empty lines stand before a text.
Prefaced(all, text) ==
    \E pre \in Seq(Line) : /\ \A i \in 1 .. Len(pre) : pre[i] \in Loose
                           /\ Whole(pre) /\ all = pre \o text

\* What is appended for a directive is its lines, below lines of none, and is whole.
LEMMA ParagraphShape ==
    ASSUME NEW d \in Directive
    PROVE  /\ Paragraph(d) \in Seq(Line) /\ Whole(Paragraph(d))
           /\ Prefaced(Paragraph(d), LinesOf(d))
<1> DEFINE two == <<Remark, Remark>>
           text == LinesOf(d)
<1>1. text \in Seq(Line) /\ Whole(text)  BY LinesOfShape
<1>2. two \in Seq(Line) /\ Len(two) = 2 /\ DOMAIN two = 1 .. 2
      /\ \A i \in 1 .. 2 : two[i] \in Loose
  BY LineShape, Tuple2
<1>3. Whole(two)  BY <1>2 DEF Whole
<1> HIDE DEF text, two
<1>4. two \o text \in Seq(Line) /\ Whole(two \o text)  BY <1>1, <1>2, <1>3, WholeConcat
<1>5. <<>> \in Seq(Line) /\ Len(<<>>) = 0 /\ Whole(<<>>) /\ <<>> \o text = text
  <2>1. Whole(<<>>)  BY DEF Whole
  <2>2. <<>> \o text = text  BY <1>1, ConcatEmptySeq
  <2>q. QED BY <2>1, <2>2, Tuple0
<1>6. Paragraph(d) = two \o text \/ Paragraph(d) = <<>> \o text
  BY <1>5 DEF Paragraph, two, text
<1>7. \A i \in 1 .. Len(<<>>) : <<>>[i] \in Loose  BY <1>5
<1>q. QED BY <1>1, <1>2, <1>3, <1>4, <1>5, <1>6, <1>7 DEF text, Prefaced

\* A text is made of its directives one after the other.
TextSteps(ds, f) ==
    /\ f \in [0 .. Len(ds) -> Seq(Line)]
    /\ f[0] = <<>>
    /\ \A k \in 1 .. Len(ds) :
          f[k] = IF k = 1 THEN Paragraph(ds[1]) ELSE f[k - 1] \o Below(Paragraph(ds[k]))

\* TextOf is computed step by step.
LEMMA TextIs ==
    ASSUME NEW ds \in Seq(Directive)
    PROVE  \E f : TextSteps(ds, f) /\ TextOf(ds) = f[Len(ds)]
<1> DEFINE n == Len(ds)
           X == Seq(Line)
           step == [k \in 1 .. n |-> [t \in X |->
                        IF k = 1 THEN Paragraph(ds[1]) ELSE t \o Below(Paragraph(ds[k]))]]
           next(f, k) == CASE k = 0 -> <<>>
                           [] k = 1 -> Paragraph(ds[1])
                           [] OTHER -> f[k - 1] \o Below(Paragraph(ds[k]))
<1>1. n \in Nat /\ \A k \in 1 .. n : ds[k] \in Directive  BY LenProperties, ElementOfSeq
<1>2. \A k \in 1 .. n : Paragraph(ds[k]) \in X /\ Below(Paragraph(ds[k])) \in X
  <2>1. \A k \in 1 .. n : Paragraph(ds[k]) \in Seq(Line)
    <3> HIDE DEF n
    <3>q. QED BY <1>1, ParagraphShape
  <2>2. \A t \in Seq(Line) : Below(t) \in Seq(Line)  BY BelowShape
  <2>q. QED BY <2>1, <2>2
<1>3. <<>> \in X  BY Tuple0
<1>4. ASSUME NEW k \in 1 .. n, NEW t \in X
      PROVE  (IF k = 1 THEN Paragraph(ds[1]) ELSE t \o Below(Paragraph(ds[k]))) \in X
  <2>1. k = 1 => Paragraph(ds[1]) \in X  BY <1>2
  <2>2. t \o Below(Paragraph(ds[k])) \in X  BY <1>2, ConcatProperties
  <2> HIDE DEF X
  <2>q. QED BY <2>1, <2>2
<1> HIDE DEF n
<1>5. Steps(step, n, X)
  <2> SUFFICES ASSUME NEW k \in 1 .. n, NEW t \in X PROVE step[k][t] \in X  BY DEF Steps
  <2> HIDE DEF X
  <2>q. QED BY <1>4
<1>6. PICK g : Iterated(g, n, X, <<>>, step)
  <2> HIDE DEF step, X
  <2>q. QED BY <1>1, <1>3, <1>5, Iterates
<1>7. g \in [0 .. n -> X] /\ g[0] = <<>> /\ \A k \in 1 .. n : g[k] = step[k][g[k - 1]]
  <2> HIDE DEF step, X
  <2>q. QED BY <1>6 DEF Iterated
<1>8. ASSUME NEW k \in 1 .. n
      PROVE  g[k] = IF k = 1 THEN Paragraph(ds[1]) ELSE g[k - 1] \o Below(Paragraph(ds[k]))
  <2>1. k - 1 \in 0 .. n  BY <1>1
  <2>2. g[k - 1] \in X  BY <1>7, <2>1
  <2> HIDE DEF X
  <2>q. QED BY <1>7, <2>2
<1> HIDE DEF step, X
<1>9. g = [k \in 0 .. n |-> next(g, k)]
  <2>1. ASSUME NEW k \in 0 .. n PROVE g[k] = next(g, k)
    <3>1. k = 0 \/ (k \in 1 .. n /\ k # 0)  BY <1>1
    <3>q. QED BY <3>1, <1>7, <1>8
  <2>2. g = [k \in 0 .. n |-> g[k]]  BY <1>7
  <2> HIDE DEF next
  <2>q. QED BY <2>1, <2>2
<1> DEFINE f == CHOOSE h : h = [k \in 0 .. n |-> next(h, k)]
<1>10. f = [k \in 0 .. n |-> next(f, k)]  BY <1>9
<1>11. TextOf(ds) = f[n]  BY DEF TextOf, n
<1> HIDE DEF f
<1>12. f[0] = <<>>
  <2>1. 0 \in 0 .. n  BY <1>1
  <2>q. QED BY <1>10, <2>1
<1>13. ASSUME NEW k \in 1 .. n
       PROVE  f[k] = IF k = 1 THEN Paragraph(ds[1]) ELSE f[k - 1] \o Below(Paragraph(ds[k]))
  <2>1. k \in 0 .. n /\ k # 0  BY <1>1
  <2>2. f[k] = next(f, k)
    <3> HIDE DEF next
    <3>q. QED BY <1>10, <2>1
  <2>q. QED BY <2>1, <2>2
<1>14. f \in [0 .. n -> X]
  <2> DEFINE T == {k \in 0 .. n : f[k] \in X}
  <2>1. 0 \in T  BY <1>1, <1>3, <1>12
  <2>2. ASSUME NEW k \in 0 .. n - 1, k \in T PROVE k + 1 \in T
    <3>1. k + 1 \in 1 .. n /\ (k + 1) - 1 = k /\ k + 1 \in 0 .. n  BY <1>1
    <3>2. f[k + 1] = IF k + 1 = 1 THEN Paragraph(ds[1]) ELSE f[k] \o Below(Paragraph(ds[k + 1]))
      BY <1>13, <3>1
    <3>q. QED BY <1>4, <2>2, <3>1, <3>2
  <2>3. 0 .. n \subseteq T
    <3> HIDE DEF T
    <3>q. QED BY <1>1, <2>1, <2>2, Induction
  <2> HIDE DEF next
  <2>4. \A k \in 0 .. n : f[k] \in X  BY <2>3
  <2>5. f = [k \in 0 .. n |-> f[k]]  BY <1>10
  <2>q. QED BY <2>4, <2>5
<1>q. QED BY <1>11, <1>12, <1>13, <1>14 DEF TextSteps, n, X

\* The text of several directives is whole.
LEMMA TextWhole ==
    ASSUME NEW ds \in Seq(Directive)
    PROVE  TextOf(ds) \in Seq(Line) /\ Whole(TextOf(ds))
<1> DEFINE n == Len(ds)
<1>1. n \in Nat /\ \A k \in 1 .. n : ds[k] \in Directive  BY LenProperties, ElementOfSeq
<1>2. PICK f : TextSteps(ds, f) /\ TextOf(ds) = f[n]  BY TextIs
<1> DEFINE T == {k \in 0 .. n : Whole(f[k])}
<1>3. 0 \in T
  <2>1. Whole(<<>>)  BY DEF Whole
  <2>q. QED BY <1>1, <1>2, <2>1 DEF TextSteps
<1>4. ASSUME NEW k \in 0 .. n - 1, k \in T PROVE k + 1 \in T
  <2>1. k + 1 \in 1 .. n /\ (k + 1) - 1 = k /\ k + 1 \in 0 .. n /\ k \in 0 .. n  BY <1>1
  <2>2. /\ f[k] \in Seq(Line) /\ Whole(f[k])
        /\ f[k + 1] = IF k + 1 = 1 THEN Paragraph(ds[1]) ELSE f[k] \o Below(Paragraph(ds[k + 1]))
    BY <1>2, <1>4, <2>1 DEF TextSteps
  <2>3. Paragraph(ds[k + 1]) \in Seq(Line) /\ Whole(Paragraph(ds[k + 1]))
    BY <1>1, <2>1, ParagraphShape
  <2>4. Below(Paragraph(ds[k + 1])) \in Seq(Line) /\ Whole(Below(Paragraph(ds[k + 1])))
    BY <2>3, BelowShape
  <2>5. Whole(f[k] \o Below(Paragraph(ds[k + 1])))  BY <2>2, <2>4, WholeConcat
  <2>q. QED BY <2>1, <2>2, <2>3, <2>5
<1>5. 0 .. n \subseteq T
  <2> HIDE DEF T
  <2>q. QED BY <1>1, <1>3, <1>4, Induction
<1>6. n \in 0 .. n  BY <1>1
<1>q. QED BY <1>2, <1>5, <1>6 DEF TextSteps

\* A file with other lines is a file.
LEMMA FileShape ==
    ASSUME NEW file \in File
    PROVE  /\ file.lines \in Seq(Line) /\ file.ended \in BOOLEAN /\ file.opens \in SUBSET Opening
           /\ Len(file.lines) \in Nat /\ DOMAIN file.lines = 1 .. Len(file.lines)
           /\ \A i \in 1 .. Len(file.lines) : file.lines[i] \in Line
           /\ \A lines \in Seq(Line), ended \in BOOLEAN :
                 LET new == [file EXCEPT !.lines = lines, !.ended = ended]
                 IN  /\ new \in File /\ new.lines = lines /\ new.ended = ended
                     /\ new.opens = file.opens
<1>1. file.lines \in Seq(Line) /\ file.ended \in BOOLEAN /\ file.opens \in SUBSET Opening
  BY DEF File
<1>2. /\ Len(file.lines) \in Nat /\ DOMAIN file.lines = 1 .. Len(file.lines)
      /\ \A i \in 1 .. Len(file.lines) : file.lines[i] \in Line
  BY <1>1, LenProperties, ElementOfSeq
<1>3. ASSUME NEW lines \in Seq(Line), NEW ended \in BOOLEAN
      PROVE  LET new == [file EXCEPT !.lines = lines, !.ended = ended]
             IN  /\ new \in File /\ new.lines = lines /\ new.ended = ended
                 /\ new.opens = file.opens
  <2> DEFINE L == Seq(Line)
  <2> HIDE DEF L
  <2>1. lines \in L  BY DEF L
  <2>2. file \in [lines : L, ended : BOOLEAN, opens : SUBSET Opening]  BY DEF File, L
  <2>3. [file EXCEPT !.lines = lines, !.ended = ended]
            \in [lines : L, ended : BOOLEAN, opens : SUBSET Opening]
    BY <2>1, <2>2
  <2>q. QED BY <2>2, <2>3 DEF File, L
<1>q. QED BY <1>1, <1>2, <1>3

\* A file changed in one place.
Changed(old, new, a, b, mid) ==
    new \in File /\ new.opens = old.opens /\ Spliced(old.lines, a, b, mid, new.lines)

\* append is a splice at the end of the file.
LEMMA AppendedIs ==
    ASSUME NEW file \in File, NEW text \in Seq(Line), Whole(text)
    PROVE  /\ Appended(file, text).ended = TRUE
           /\ \E mid \in {text, Below(text)} :
                 /\ mid \in Seq(Line) /\ Whole(mid)
                 /\ ~file.ended => mid = text
                 /\ file.ended => mid = Below(text)
                 /\ Changed(file, Appended(file, text), Len(file.lines), Len(file.lines), mid)
<1> DEFINE mid == IF file.ended THEN Below(text) ELSE text
           new == Appended(file, text)
<1>1. mid \in Seq(Line) /\ Whole(mid)
  <2>1. Below(text) \in Seq(Line) /\ Whole(Below(text))  BY BelowShape
  <2>q. QED BY <2>1
<1>2. new = [file EXCEPT !.lines = file.lines \o mid, !.ended = TRUE]  BY DEF Appended
<1>3. file.lines \in Seq(Line)  BY FileShape
<1> HIDE DEF mid, new
<1>4. /\ file.lines \o mid \in Seq(Line)
      /\ Spliced(file.lines, Len(file.lines), Len(file.lines), mid, file.lines \o mid)
  <2>1. Spliced(file.lines, Len(file.lines), Len(file.lines), mid, file.lines \o mid)
    BY <1>1, <1>3, AtEnd
  <2>q. QED BY <2>1 DEF Spliced
<1> DEFINE lines == file.lines \o mid
<1> HIDE DEF lines
<1>5. lines \in Seq(Line) /\ Spliced(file.lines, Len(file.lines), Len(file.lines), mid, lines)
  BY <1>4 DEF lines
<1>6. new = [file EXCEPT !.lines = lines, !.ended = TRUE]  BY <1>2 DEF lines
<1>7. new \in File /\ new.lines = lines /\ new.ended = TRUE /\ new.opens = file.opens
  BY <1>5, <1>6, FileShape
<1>8. /\ mid \in {text, Below(text)} /\ (~file.ended => mid = text)
      /\ file.ended => mid = Below(text)
  BY DEF mid
<1>q. QED BY <1>1, <1>5, <1>7, <1>8 DEF Changed, new

\* delete is a splice that puts nothing in the place of a text.
LEMMA DeletedIs ==
    ASSUME NEW file \in File, NEW text \in Text, NEW k, Bears(file.lines, text, k)
    PROVE  LET last == k + Size(text) - 1
               new  == Deleted(file, text, k)
           IN  /\ Changed(file, new, k - 1, last, <<>>)
               /\ new.ended = (file.ended \/ last = Len(file.lines))
<1> DEFINE s    == file.lines
           n    == Len(s)
           h    == Size(text)
           last == k + h - 1
           new  == Deleted(file, text, k)
           cut  == SubSeq(s, 1, k - 1) \o SubSeq(s, last + 1, n)
           full == SubSeq(s, 1, k - 1) \o <<>> \o SubSeq(s, last + 1, n)
<1>1. /\ s \in Seq(Line) /\ n \in Nat /\ h \in Nat /\ h >= 3 /\ k \in 1 .. n /\ last \in 1 .. n
  <2>1. s \in Seq(Line) /\ n \in Nat  BY FileShape
  <2>2. h \in Nat /\ h >= 3  BY TextShape
  <2>3. k \in 1 .. n /\ last \in 1 .. n  BY DEF Bears
  <2>q. QED BY <2>1, <2>2, <2>3
<1>2. <<>> \in Seq(Line)  BY Tuple0
<1>3. k - 1 \in 0 .. n /\ last \in (k - 1) .. n
  <2> HIDE DEF n, h
  <2>q. QED BY <1>1
<1>4. Spliced(s, k - 1, last, <<>>, full)
  <2> HIDE DEF last, s
  <2>q. QED BY <1>1, <1>2, <1>3, SpliceOf DEF n
<1>5. cut = full
  <2>1. SubSeq(s, 1, k - 1) \in Seq(Line)
    <3>1. 1 \in Nat \ {0} /\ k - 1 \in 0 .. Len(s) /\ 1 <= (k - 1) + 1  BY <1>1, <1>3
    <3>q. QED BY <1>1, <3>1, Cut
  <2> DEFINE pre == SubSeq(s, 1, k - 1)
  <2> HIDE DEF pre
  <2>2. pre \o <<>> = pre  BY <2>1, ConcatEmptySeq DEF pre
  <2>q. QED BY <2>2 DEF pre
<1>6. new = [file EXCEPT !.lines = cut, !.ended = file.ended \/ last = n]
  BY DEF Deleted
<1> HIDE DEF cut, full, new, last
<1>7. cut \in Seq(Line) /\ Spliced(s, k - 1, last, <<>>, cut)  BY <1>4, <1>5 DEF Spliced
<1>8. (file.ended \/ last = n) \in BOOLEAN  OBVIOUS
<1>9. /\ new \in File /\ new.lines = cut /\ new.opens = file.opens
      /\ new.ended = (file.ended \/ last = n)
  <2> DEFINE ended == file.ended \/ last = n
  <2>1. new = [file EXCEPT !.lines = cut, !.ended = ended] /\ ended \in BOOLEAN  BY <1>6, <1>8
  <2>2. \A lines \in Seq(Line), e \in BOOLEAN :
           LET f == [file EXCEPT !.lines = lines, !.ended = e]
           IN  f \in File /\ f.lines = lines /\ f.ended = e /\ f.opens = file.opens
    BY FileShape
  <2> HIDE DEF ended
  <2>3. new \in File /\ new.lines = cut /\ new.opens = file.opens /\ new.ended = ended
    BY <1>7, <2>1, <2>2, Zenon
  <2>q. QED BY <2>3, Zenon DEF ended
<1>10. Changed(file, new, k - 1, last, <<>>)  BY <1>7, <1>9 DEF Changed
<1>11. new.ended = (file.ended \/ last = n)  BY <1>9
<1> HIDE DEF s, h, n
<1>12. Changed(file, Deleted(file, text, k), k - 1, k + Size(text) - 1, <<>>)
  BY <1>10 DEF new, last, h
<1>13. Deleted(file, text, k).ended
          = (file.ended \/ k + Size(text) - 1 = Len(file.lines))
  BY <1>11, Zenon DEF new, last, h, n, s
<1>q. QED BY <1>12, <1>13, Zenon

\* There is a first among the places where a text occurs.
LEMMA FirstPlace ==
    ASSUME NEW places \in SUBSET Nat, places # {}
    PROVE  FirstOf(places) \in places /\ \A j \in places : FirstOf(places) <= j
<1>1. \E m \in places : \A j \in places : m <= j  BY LeastNatural
<1>q. QED BY <1>1 DEF FirstOf

\* The rest of a text without its first line.
LEMMA TailOfRest ==
    ASSUME NEW s \in Seq(Line), NEW m \in 1 .. Len(s)
    PROVE  Tail(SubSeq(s, m, Len(s))) = SubSeq(s, m + 1, Len(s))
<1> DEFINE n == Len(s)
           t == SubSeq(s, m, n)
           u == SubSeq(s, m + 1, n)
<1>1. n \in Nat /\ m \in Nat \ {0}  BY LenProperties
<1>2. /\ t \in Seq(Line) /\ Len(t) = n - m + 1
      /\ \A i \in 1 .. n - m + 1 : t[i] = s[m + i - 1]
  <2>1. m \in Nat \ {0} /\ n \in 0 .. Len(s) /\ m <= n + 1  BY <1>1
  <2>q. QED BY <2>1, Cut
<1>3. /\ u \in Seq(Line) /\ Len(u) = n - (m + 1) + 1
      /\ \A i \in 1 .. n - (m + 1) + 1 : u[i] = s[(m + 1) + i - 1]
  <2>1. m + 1 \in Nat \ {0} /\ n \in 0 .. Len(s) /\ m + 1 <= n + 1  BY <1>1
  <2>q. QED BY <2>1, Cut
<1> HIDE DEF t, u
<1>4. t # <<>>
  <2>1. Len(t) # 0
    <3> HIDE DEF n
    <3>1. m <= n  BY <1>1 DEF n
    <3>q. QED BY <1>1, <1>2, <3>1
  <2>q. QED BY <2>1, Tuple0
<1>5. /\ Tail(t) \in Seq(Line) /\ Len(Tail(t)) = Len(t) - 1
      /\ \A i \in 1 .. Len(t) - 1 : Tail(t)[i] = t[i + 1]
  BY <1>2, <1>4, Consumed
<1> DEFINE v == Tail(t)
<1> HIDE DEF v, n
<1>6. Len(v) = n - m /\ Len(u) = n - m  BY <1>1, <1>2, <1>3, <1>5 DEF v
<1>7. ASSUME NEW i \in 1 .. n - m PROVE v[i] = u[i]
  <2>1. i + 1 \in 1 .. n - m + 1 /\ i \in 1 .. Len(t) - 1  BY <1>1, <1>2
  <2>2. v[i] = s[m + (i + 1) - 1]  BY <2>1, <1>2, <1>5 DEF v
  <2>3. i \in 1 .. n - (m + 1) + 1 /\ m + (i + 1) - 1 = (m + 1) + i - 1  BY <1>1
  <2>q. QED BY <2>2, <2>3, <1>3
<1>8. v = u
  <2>1. v \in Seq(Line)  BY <1>5 DEF v
  <2>q. QED BY <2>1, <1>3, <1>6, <1>7, SeqEqual
<1>q. QED BY <1>8 DEF v, t, u, n

\* The last line of a text that runs into the next is one the parser rejects.
LEMMA GluedEnd ==
    ASSUME NEW text \in Seq(Line), text # <<>>
    PROVE  LET glued == Front(text) \o <<Glued>>
           IN  glued \in Seq(Line) /\ Len(glued) \in Nat \ {0} /\ glued[Len(glued)] = Glued
<1> DEFINE front == Front(text)
           g     == <<Glued>>
           glued == front \o g
<1>1. front \in Seq(Line)
  <2>1. Len(text) \in Nat \ {0}  BY EmptySeq, LenProperties
  <2>2. 1 \in Nat \ {0} /\ Len(text) - 1 \in 0 .. Len(text) /\ 1 <= (Len(text) - 1) + 1
    BY <2>1
  <2>q. QED BY <2>2, Cut DEF Front
<1>2. g \in Seq(Line) /\ Len(g) = 1 /\ g[1] = Glued  BY LineShape, Tuple1
<1> HIDE DEF front, g, glued
<1>3. /\ front \o g \in Seq(Line) /\ Len(front \o g) = Len(front) + Len(g)
      /\ \A i \in 1 .. Len(g) : (front \o g)[Len(front) + i] = g[i]
  <2>1. g \in Seq(Line)  BY <1>2
  <2>q. QED BY <1>1, <2>1, Concatenated
<1>4. Len(front) \in Nat  BY <1>1, LenProperties
<1>5. 1 \in 1 .. Len(g)  BY <1>2
<1>6. glued = front \o g  BY DEF glued
<1>7. (front \o g)[Len(front) + 1] = Glued  BY <1>2, <1>3, <1>5
<1>8. glued \in Seq(Line) /\ Len(glued) \in Nat \ {0} /\ glued[Len(glued)] = Glued
  BY <1>2, <1>3, <1>4, <1>6, <1>7
<1>q. QED BY <1>8 DEF glued, front, g

\* What the first place of a text is replaced by: the new transaction, or the same
\* before a comment that stood behind the old one; else two texts run together.
Follows(new) == {new, Commented(new)}

\* replace is a splice: of the lines of the text alone, of them and a line of no
\* directive below, or of them and a line the new text runs into.
LEMMA ReplacedIs ==
    ASSUME NEW file \in File, NEW text \in Text, NEW new \in Transaction,
           Occurrences(file, text) # {}
    PROVE  LET k     == FirstOf(Occurrences(file, text))
               last  == k + Size(text) - 1
               n     == Len(file.lines)
               after == Replaced(file, text, new)
           IN  /\ OccursAt(file, text, k)
               /\ \E x \in Heads(text) : Struck(file.lines, x, text, k)
               /\ \/ /\ ~(text.ended /\ last < n)
                     /\ \E y \in Follows(new) : Changed(file, after, k - 1, last, LinesOf(y))
                  \/ /\ text.ended /\ last < n /\ file.lines[last + 1] \in Loose
                     /\ \E y \in Follows(new) : Changed(file, after, k - 1, last + 1, LinesOf(y))
                  \/ /\ text.ended /\ last < n
                     /\ \E mid : Changed(file, after, k - 1, last + 1, mid)
                     /\ \E i \in 1 .. Len(after.lines) : after.lines[i] = Glued
<1> DEFINE s     == file.lines
           n     == Len(s)
           k     == FirstOf(Occurrences(file, text))
           last  == k + Size(text) - 1
           after == Replaced(file, text, new)
<1>1. /\ s \in Seq(Line) /\ n \in Nat /\ DOMAIN s = 1 .. n
      /\ \A i \in 1 .. n : s[i] \in Line
      /\ file.ended \in BOOLEAN /\ text.ended \in BOOLEAN
  BY FileShape, TextShape
<1>2. k \in 1 .. n /\ OccursAt(file, text, k)
  <2>1. Occurrences(file, text) \in SUBSET Nat  BY <1>1 DEF Occurrences
  <2>2. k \in Occurrences(file, text)  BY <2>1, FirstPlace
  <2> HIDE DEF k
  <2>q. QED BY <2>2, <1>1 DEF Occurrences
<1>3. \E x \in Heads(text) : Struck(s, x, text, k)
  <2> HIDE DEF k
  <2>q. QED BY <1>1, <1>2, OccursStruck
<1>4. last \in 1 .. n /\ k - 1 \in 0 .. n /\ last \in (k - 1) .. n
      /\ (last < n => last + 1 \in (k - 1) .. n /\ last + 1 \in 1 .. n)
  <2> HIDE DEF k, n, s
  <2>1. PICK x \in Heads(text) : Struck(s, x, text, k)  BY <1>3
  <2>2. k \in 1 .. n /\ last \in k + 2 .. n  BY <1>1, <2>1, StruckShape DEF n
  <2>3. last \in 1 .. n
    <3> HIDE DEF last
    <3>q. QED BY <1>1, <2>2
  <2> HIDE DEF last
  <2>q. QED BY <2>2, <2>3, <1>1, <1>2
<1> DEFINE inside == IF LinesFrom(file, text, k) = TextLines(text) THEN LinesOf(new)
                     ELSE LinesOf(Commented(new))
           joined == JoinedTo(new, s[last + 1])
           pre    == SubSeq(s, 1, k - 1)
           rest   == SubSeq(s, last + 1, n)
           plain  == pre \o inside \o rest
           tight  == pre \o joined \o Tail(rest)
<1>5. after = IF text.ended /\ last < n
              THEN [file EXCEPT !.lines = tight]
              ELSE [file EXCEPT !.lines = plain, !.ended = file.ended /\ ~text.ended]
  BY Zenon DEF Replaced
<1>6. \A y \in Follows(new) : LinesOf(y) \in Seq(Line) /\ LinesOf(y) # <<>>
  <2> SUFFICES ASSUME NEW y \in Follows(new) PROVE LinesOf(y) \in Seq(Line) /\ LinesOf(y) # <<>>
    OBVIOUS
  <2>1. y \in Directive /\ Height(y) = 3  BY CommentedShape DEF Follows
  <2>2. LinesOf(y) \in Seq(Line) /\ Len(LinesOf(y)) = 3  BY <2>1, LinesOfShape
  <2>q. QED BY <2>2, Tuple0
<1>7. new \in Follows(new) /\ Commented(new) \in Follows(new)  BY DEF Follows
<1>8. CASE ~(text.ended /\ last < n)
  <2>1. after = [file EXCEPT !.lines = plain, !.ended = file.ended /\ ~text.ended]
    BY <1>5, <1>8
  <2>2. PICK y \in Follows(new) : inside = LinesOf(y)  BY <1>7
  <2> HIDE DEF inside
  <2>3. inside \in Seq(Line)  BY <1>6, <2>2
  <2>4. Spliced(s, k - 1, last, inside, plain)
    <3> HIDE DEF k, last, s
    <3>q. QED BY <1>1, <1>4, <2>3, SpliceOf DEF n
  <2> HIDE DEF plain, after, last
  <2>5. plain \in Seq(Line)  BY <2>4 DEF Spliced
  <2> DEFINE ended == file.ended /\ ~text.ended
  <2> HIDE DEF ended
  <2>6. after \in File /\ after.lines = plain /\ after.opens = file.opens
    <3>1. after = [file EXCEPT !.lines = plain, !.ended = ended]  BY <2>1 DEF ended
    <3>2. ended \in BOOLEAN  BY DEF ended
    <3>3. \A lines \in Seq(Line), e \in BOOLEAN :
             LET f == [file EXCEPT !.lines = lines, !.ended = e]
             IN  f \in File /\ f.lines = lines /\ f.ended = e /\ f.opens = file.opens
      BY FileShape
    <3>q. QED BY <2>5, <3>1, <3>2, <3>3, Zenon
  <2>7. Changed(file, after, k - 1, last, LinesOf(y))  BY <2>2, <2>4, <2>6 DEF Changed
  <2>q. QED BY <1>2, <1>3, <1>8, <2>7, Zenon DEF after, last
<1>9. CASE text.ended /\ last < n
  <2>1. after = [file EXCEPT !.lines = tight, !.ended = file.ended]
    <3>1. after = [file EXCEPT !.lines = tight]  BY <1>5, <1>9
    <3>2. [file EXCEPT !.lines = tight] = [file EXCEPT !.lines = tight, !.ended = file.ended]
      <4> HIDE DEF tight
      <4>q. QED BY DEF File
    <3>q. QED BY <3>1, <3>2
  <2>2. Tail(rest) = SubSeq(s, (last + 1) + 1, n)
    <3> HIDE DEF last, s
    <3>q. QED BY <1>1, <1>4, <1>9, TailOfRest DEF n
  <2>3. \/ /\ s[last + 1] \in Loose /\ \E y \in Follows(new) : joined = LinesOf(y)
        \/ joined = Front(LinesOf(new)) \o <<Glued>>
    <3> HIDE DEF last, s
    <3>1. CASE s[last + 1] = Blank  BY <3>1, <1>7, LineShape DEF JoinedTo
    <3>2. CASE s[last + 1] # Blank /\ s[last + 1] \in {Note, Remark}
      <4>1. joined = LinesOf(Commented(new))  BY <3>2 DEF JoinedTo
      <4>q. QED BY <4>1, <3>2, <1>7, LineShape
    <3>3. CASE s[last + 1] # Blank /\ s[last + 1] \notin {Note, Remark}
      BY <3>3 DEF JoinedTo
    <3>q. QED BY <3>1, <3>2, <3>3
  <2>4. joined \in Seq(Line)
    <3> HIDE DEF joined
    <3>q. QED BY <2>3, <1>6, <1>7, GluedEnd
  <2>5. Spliced(s, k - 1, last + 1, joined, tight)
    <3> HIDE DEF k, last, s, joined, rest
    <3>q. QED BY <1>1, <1>4, <1>9, <2>2, <2>4, SpliceOf DEF n
  <2> HIDE DEF tight, after, last, joined
  <2>6. tight \in Seq(Line)  BY <2>5 DEF Spliced
  <2>7. after \in File /\ after.lines = tight /\ after.opens = file.opens
    <3>1. \A lines \in Seq(Line), e \in BOOLEAN :
             LET f == [file EXCEPT !.lines = lines, !.ended = e]
             IN  f \in File /\ f.lines = lines /\ f.ended = e /\ f.opens = file.opens
      BY FileShape
    <3>2. file.ended \in BOOLEAN  BY <1>1
    <3>q. QED BY <2>1, <2>6, <3>1, <3>2, Zenon
  <2>8. Changed(file, after, k - 1, last + 1, joined)  BY <2>5, <2>7 DEF Changed
  <2>9. CASE s[last + 1] \in Loose /\ \E y \in Follows(new) : joined = LinesOf(y)
    <3>1. PICK y \in Follows(new) : joined = LinesOf(y)  BY <2>9
    <3>2. Changed(file, after, k - 1, last + 1, LinesOf(y))  BY <3>1, <2>8
    <3>q. QED BY <1>2, <1>3, <1>9, <2>9, <3>2, Zenon DEF after, last, s, n
  <2>10. CASE joined = Front(LinesOf(new)) \o <<Glued>>
    <3>2. Len(joined) \in Nat \ {0} /\ joined[Len(joined)] = Glued
      BY <2>10, <1>6, <1>7, GluedEnd
    <3>3. /\ tight[(k - 1) + Len(joined)] = Glued
          /\ Len(tight) = n + Len(joined) - ((last + 1) - (k - 1))
      BY <2>5, <3>2 DEF Spliced
    <3>4. (k - 1) + Len(joined) \in 1 .. Len(tight)
      <4> DEFINE m == Len(joined)
                 l == Len(tight)
      <4>1. m \in Nat \ {0} /\ l = n + m - ((last + 1) - (k - 1)) /\ last < n
            /\ last \in Int /\ k \in 1 .. n
        <5> HIDE DEF k, n, s
        <5>1. m \in Nat \ {0}  BY <3>2
        <5>2. l = n + m - ((last + 1) - (k - 1))  BY <3>3
        <5>3. n \in Nat  BY <1>1
        <5>q. QED BY <5>1, <5>2, <5>3, <1>2, <1>4, <1>9
      <4> HIDE DEF m, l, n, k
      <4>2. n \in Nat  BY <1>1 DEF n
      <4>3. (k - 1) + m \in 1 .. l  BY <4>1, <4>2
      <4>q. QED BY <4>3 DEF m, l
    <3>5. \E i \in 1 .. Len(after.lines) : after.lines[i] = Glued  BY <2>7, <3>3, <3>4
    <3>q. QED BY <1>2, <1>3, <1>9, <2>8, <3>5, Zenon DEF after, last, s, n
  <2>q. QED BY <2>3, <2>9, <2>10
<1>q. QED BY <1>8, <1>9

-----------------------------------------------------------------------------
(* Edits of whole ledgers.                                                 *)

\* A line that says the end of one text and the start of another ran together.
Torn(lines) == \E i \in 1 .. Len(lines) : lines[i] = Glued

\* A torn file is one with a line that two texts have run together in.
LEMMA TornLines ==
    ASSUME NEW lines \in Seq(Line)
    PROVE  Torn(lines) <=> Glued \in ToSet(lines)
<1>1. DOMAIN lines = 1 .. Len(lines)  BY LenProperties
<1>q. QED BY <1>1 DEF Torn, ToSet

\* Whole lines are not torn.
LEMMA WholeNotTorn ==
    ASSUME NEW lines \in Seq(Line), Whole(lines)
    PROVE  ~Torn(lines)
<1> SUFFICES ASSUME NEW i \in 1 .. Len(lines), lines[i] = Glued PROVE FALSE  BY DEF Torn
<1>1. DOMAIN lines = 1 .. Len(lines)  BY LenProperties
<1>2. Glued[2] \in 1 .. Height(Glued[1])  BY <1>1, LineShape DEF Whole
<1>3. Glued[2] = 0  BY LineShape
<1>q. QED BY <1>2, <1>3, Heights

\* What is replaced is not torn: if the new lines are not, neither were the old.
LEMMA SplicedTorn ==
    ASSUME NEW old \in Seq(Line), NEW a, NEW b, NEW mid, NEW new, Spliced(old, a, b, mid, new),
           \A i \in a + 1 .. b : old[i] # Glued, ~Torn(new)
    PROVE  ~Torn(old)
<1> SUFFICES ASSUME NEW i \in 1 .. Len(old), old[i] = Glued PROVE FALSE  BY DEF Torn
<1> DEFINE n  == Len(old)
           m  == Len(mid)
           by == m - (b - a)
<1>1. /\ n \in Nat /\ m \in Nat /\ a \in 0 .. n /\ b \in a .. n /\ i \in 1 .. n
      /\ Len(new) = n + by /\ by \in Int
  BY LenProperties DEF Spliced
<1>2. /\ \A j \in 1 .. a : new[j] = old[j]
      /\ \A j \in b + 1 .. n : new[j + by] = old[j]
  <2>1. \A j \in b + 1 .. n : j + m - (b - a) = j + by  BY <1>1
  <2>q. QED BY <2>1 DEF Spliced
<1>3. i \notin a + 1 .. b  OBVIOUS
<1>4. CASE i \in 1 .. a
  <2>1. i \in 1 .. n + by  BY <1>1, <1>4
  <2>q. QED BY <2>1, <1>1, <1>2, <1>4 DEF Torn
<1>5. CASE i \in b + 1 .. n
  <2>1. i + by \in 1 .. n + by  BY <1>1, <1>5
  <2> HIDE DEF by
  <2>q. QED BY <2>1, <1>1, <1>2, <1>5 DEF Torn
<1>q. QED BY <1>1, <1>3, <1>4, <1>5

\* The lines of a directive are neither torn nor of none.
LEMMA BlockLines ==
    ASSUME NEW lines \in Seq(Line), NEW d, NEW k, HasBlock(lines, d, k)
    PROVE  \A i \in k .. k + Height(d) - 1 : lines[i] # Glued /\ lines[i] \notin Loose
<1> SUFFICES ASSUME NEW i \in k .. k + Height(d) - 1
             PROVE  lines[i] # Glued /\ lines[i] \notin Loose
  OBVIOUS
<1>0. k \in Nat \ {0} /\ Height(d) \in Nat  BY LenProperties, Heights DEF HasBlock
<1>1. i - k + 1 \in 1 .. Height(d) /\ k + (i - k + 1) - 1 = i  BY <1>0
<1>2. lines[i] = <<d, i - k + 1>> /\ d \in Directive  BY <1>1 DEF HasBlock
<1>3. i - k + 1 \in Nat \ {0}  BY <1>0
<1>4. lines[i][2] = i - k + 1  BY <1>2
<1>q. QED BY <1>3, <1>4, LineShape

\* A file is sound when it is whole unless it is torn.
SoundLines(lines) == lines \in Seq(Line) /\ (~Torn(lines) => Whole(lines))

\* The store's three edits of a sound file leave it sound, and mend nothing.
LEMMA AppendSound ==
    ASSUME NEW file \in File, SoundLines(file.lines), NEW text \in Seq(Line), Whole(text)
    PROVE  LET after == Appended(file, text)
           IN  /\ after \in File /\ SoundLines(after.lines)
               /\ ~Torn(after.lines) => ~Torn(file.lines)
<1> DEFINE after == Appended(file, text)
           n     == Len(file.lines)
<1>1. PICK mid : /\ mid \in Seq(Line) /\ Whole(mid) /\ Changed(file, after, n, n, mid)
  BY AppendedIs
<1>2. /\ after \in File /\ Spliced(file.lines, n, n, mid, after.lines)  BY <1>1 DEF Changed
<1>3. file.lines \in Seq(Line) /\ after.lines \in Seq(Line) /\ n \in Nat  BY <1>2, FileShape
<1> HIDE DEF after
<1>4. ~Torn(after.lines) => ~Torn(file.lines)
  <2>1. n + 1 .. n = {}  BY <1>3
  <2> HIDE DEF n
  <2>q. QED BY <2>1, <1>2, <1>3, SplicedTorn
<1>5. ~Torn(file.lines) => Whole(after.lines)
  <2> SUFFICES ASSUME Whole(file.lines) PROVE Whole(after.lines)  BY DEF SoundLines
  <2>1. Clean(file.lines, n)  BY <1>3, CleanEnds
  <2>q. QED BY <2>1, <1>1, <1>2, <1>3, SplicedWhole
<1>6. SoundLines(after.lines)  BY <1>3, <1>4, <1>5 DEF SoundLines
<1>q. QED BY <1>2, <1>4, <1>6 DEF after

\* A deletion tears nothing.
LEMMA DeleteSound ==
    ASSUME NEW file \in File, SoundLines(file.lines), NEW text \in Text, NEW k,
           Bears(file.lines, text, k)
    PROVE  LET after == Deleted(file, text, k)
           IN  /\ after \in File /\ SoundLines(after.lines)
               /\ ~Torn(after.lines) => ~Torn(file.lines)
<1> DEFINE after == Deleted(file, text, k)
           d     == text.directive
           last  == k + Size(text) - 1
           s     == file.lines
<1>1. Changed(file, after, k - 1, last, <<>>)  BY DeletedIs
<1>2. after \in File /\ Spliced(s, k - 1, last, <<>>, after.lines)  BY <1>1 DEF Changed
<1> HIDE DEF after
<1>3. s \in Seq(Line) /\ after.lines \in Seq(Line)  BY <1>2, FileShape
<1>4. /\ k \in 1 .. Len(s) /\ \A i \in k .. last : s[i] # Glued
      /\ Whole(s) => Clean(s, k - 1) /\ Clean(s, last)
  <2>1. Struck(s, d, text, k)  BY <1>3, BearsStruck
  <2>q. QED BY <2>1, <1>3, StruckShape
<1>5. (k - 1) + 1 = k
  <2>1. Len(s) \in Nat  BY <1>3, LenProperties
  <2>q. QED BY <2>1, <1>4
<1> HIDE DEF s, last
<1>6. ~Torn(after.lines) => ~Torn(s)  BY <1>2, <1>3, <1>4, <1>5, SplicedTorn
<1>7. ~Torn(s) => Whole(after.lines)
  <2> SUFFICES ASSUME Whole(s) PROVE Whole(after.lines)  BY DEF SoundLines, s
  <2>1. Whole(<<>>)  BY DEF Whole
  <2>q. QED BY <2>1, <1>2, <1>3, <1>4, SplicedWhole
<1>q. QED BY <1>2, <1>3, <1>6, <1>7 DEF SoundLines, after, s

\* What a replacement leaves when no texts have run together: y in the place of x,
\* where the text was, or a line of no directive less.
RenewedBy(file, text, new, k, after, x, y, b) ==
    /\ Struck(file.lines, x, text, k)
    /\ y \in Follows(new)
    /\ b \in {k + Size(text) - 1, k + Size(text)}
    /\ b <= Len(file.lines)
    /\ b = k + Size(text) => file.lines[b] \in Loose
    /\ Changed(file, after, k - 1, b, LinesOf(y))

Renewed(file, text, new, k, after) ==
    \E x, y, b : RenewedBy(file, text, new, k, after, x, y, b)

LEMMA ReplacedMade ==
    ASSUME NEW file \in File, NEW text \in Text, NEW new \in Transaction,
           Occurrences(file, text) # {}
    PROVE  LET k     == FirstOf(Occurrences(file, text))
               after == Replaced(file, text, new)
           IN  /\ after \in File
               /\ k \in 1 .. Len(file.lines) /\ OccursAt(file, text, k)
               /\ \E x \in Heads(text) : Struck(file.lines, x, text, k)
               /\ ~Torn(after.lines) => Renewed(file, text, new, k, after)
<1> DEFINE s     == file.lines
           n     == Len(s)
           z     == Size(text)
           k     == FirstOf(Occurrences(file, text))
           last  == k + z - 1
           after == Replaced(file, text, new)
<1>1. s \in Seq(Line) /\ n \in Nat /\ z \in Nat  BY FileShape, TextShape
<1>2. OccursAt(file, text, k) /\ \E x \in Heads(text) : Struck(s, x, text, k)  BY ReplacedIs
<1>3. \/ /\ ~(text.ended /\ last < n)
         /\ \E y \in Follows(new) : Changed(file, after, k - 1, last, LinesOf(y))
      \/ /\ text.ended /\ last < n /\ s[last + 1] \in Loose
         /\ \E y \in Follows(new) : Changed(file, after, k - 1, last + 1, LinesOf(y))
      \/ /\ text.ended /\ last < n
         /\ \E mid : Changed(file, after, k - 1, last + 1, mid)
         /\ \E i \in 1 .. Len(after.lines) : after.lines[i] = Glued
  <2> DEFINE One1 == /\ ~(text.ended /\ last < n)
                     /\ \E y \in Follows(new) : Changed(file, after, k - 1, last, LinesOf(y))
             Two2 == /\ text.ended /\ last < n /\ s[last + 1] \in Loose
                     /\ \E y \in Follows(new) : Changed(file, after, k - 1, last + 1, LinesOf(y))
             Three3 == /\ text.ended /\ last < n
                       /\ \E mid : Changed(file, after, k - 1, last + 1, mid)
                       /\ \E i \in 1 .. Len(after.lines) : after.lines[i] = Glued
  <2>1. One1 \/ Two2 \/ Three3  BY ReplacedIs
  <2>q. QED BY <2>1
<1> HIDE DEF after, k, s, z, n
<1>4. PICK x \in Heads(text) : Struck(s, x, text, k)  BY <1>2
<1>5. k \in 1 .. n /\ last \in 1 .. n /\ last + 1 = k + z
  <2>1. k \in 1 .. n /\ last \in k + 2 .. n  BY <1>1, <1>4, StruckShape DEF n, z
  <2> HIDE DEF last
  <2>2. last \in 1 .. n  BY <2>1, <1>1
  <2>q. QED BY <2>1, <2>2, <1>1 DEF last
<1>6. after \in File  BY <1>3 DEF Changed
<1>7. ASSUME ~Torn(after.lines) PROVE Renewed(file, text, new, k, after)
  <2>1. CASE \E y \in Follows(new) : Changed(file, after, k - 1, last, LinesOf(y))
    <3>1. PICK y \in Follows(new) : Changed(file, after, k - 1, last, LinesOf(y))  BY <2>1
    <3>2. last <= n /\ last # k + z  BY <1>1, <1>5
    <3>3. last \in {k + Size(text) - 1, k + Size(text)}  BY DEF last, z
    <3> HIDE DEF last
    <3>4. RenewedBy(file, text, new, k, after, x, y, last)
      BY <1>4, <3>1, <3>2, <3>3 DEF RenewedBy, z, s, n
    <3>q. QED BY <3>4 DEF Renewed
  <2>2. CASE /\ last < n /\ s[last + 1] \in Loose
             /\ \E y \in Follows(new) : Changed(file, after, k - 1, last + 1, LinesOf(y))
    <3>1. PICK y \in Follows(new) : Changed(file, after, k - 1, last + 1, LinesOf(y))  BY <2>2
    <3>2. last + 1 <= n  BY <1>1, <1>5, <2>2
    <3> DEFINE b == last + 1
    <3>3. b \in {k + Size(text) - 1, k + Size(text)}  BY <1>5 DEF z
    <3>4. b <= Len(file.lines) /\ (b = k + Size(text) => file.lines[b] \in Loose)
      BY <3>2, <2>2 DEF s, n
    <3>5. Changed(file, after, k - 1, b, LinesOf(y)) /\ y \in Follows(new)  BY <3>1
    <3> HIDE DEF b, last
    <3>6. RenewedBy(file, text, new, k, after, x, y, b)
      BY <1>4, <3>3, <3>4, <3>5 DEF RenewedBy, s
    <3>q. QED BY <3>6 DEF Renewed
  <2>3. ~\E i \in 1 .. Len(after.lines) : after.lines[i] = Glued  BY <1>7 DEF Torn
  <2> HIDE DEF last
  <2>q. QED BY <2>1, <2>2, <2>3, <1>3
<1>q. QED BY <1>2, <1>5, <1>6, <1>7 DEF after, k, s, n

\* The place that a replacement rewrites.
LEMMA RenewedShape ==
    ASSUME NEW file \in File, NEW text \in Text, NEW new \in Transaction, NEW k, NEW after,
           NEW x, NEW y, NEW b, RenewedBy(file, text, new, k, after, x, y, b)
    PROVE  /\ after \in File /\ Spliced(file.lines, k - 1, b, LinesOf(y), after.lines)
           /\ k \in 1 .. Len(file.lines) /\ b \in k + 2 .. Len(file.lines)
           /\ x \in Transaction /\ Plain(x) = Plain(text.directive)
           /\ \A i \in k .. b : file.lines[i] # Glued
           /\ Whole(file.lines) => Clean(file.lines, k - 1) /\ Clean(file.lines, b)
           /\ y \in Transaction /\ Height(y) = 3 /\ Plain(y) = Plain(new)
<1> DEFINE s    == file.lines
           n    == Len(s)
           z    == Size(text)
           last == k + z - 1
<1>0. /\ Struck(s, x, text, k) /\ y \in Follows(new)
      /\ b \in {k + Size(text) - 1, k + Size(text)} /\ b <= n
      /\ b = k + Size(text) => s[b] \in Loose
      /\ Changed(file, after, k - 1, b, LinesOf(y))
  BY DEF RenewedBy
<1>1. s \in Seq(Line) /\ n \in Nat /\ z \in Nat  BY FileShape, TextShape
<1>2. /\ k \in 1 .. n /\ last \in k + 2 .. n
      /\ \A i \in k .. last : s[i] # Glued
      /\ Whole(s) => Clean(s, k - 1) /\ Clean(s, last)
      /\ x \in Transaction /\ Plain(x) = Plain(text.directive)
  BY <1>0, <1>1, StruckShape
<1>3. b \in {last, last + 1} /\ b <= n /\ (b = last + 1 => s[b] \in Loose)
  <2>1. last + 1 = k + z  BY <1>1, <1>2
  <2>q. QED BY <2>1, <1>0
<1> HIDE DEF s, z, n, last
<1>4. b \in k + 2 .. n /\ b \in 1 .. n  BY <1>1, <1>2, <1>3
<1>5. ASSUME NEW i \in k .. b PROVE s[i] # Glued
  <2>1. i \in k .. last \/ (i = b /\ b = last + 1)  BY <1>1, <1>2, <1>3
  <2>q. QED BY <2>1, <1>2, <1>3, LineShape
<1>6. ASSUME Whole(s) PROVE Clean(s, b)
  <2>1. CASE b = last  BY <2>1, <1>2, <1>6
  <2>2. CASE b = last + 1  BY <2>2, <1>1, <1>3, <1>4, <1>6, LooseClean DEF n
  <2>q. QED BY <2>1, <2>2, <1>3
<1>7. after \in File /\ Spliced(s, k - 1, b, LinesOf(y), after.lines)  BY <1>0 DEF Changed, s
<1>8. y \in Transaction /\ Height(y) = 3 /\ Plain(y) = Plain(new)
  BY <1>0, CommentedShape DEF Follows
<1>q. QED BY <1>2, <1>4, <1>5, <1>6, <1>7, <1>8 DEF s, n

\* A replacement tears nothing, unless it leaves a line that cannot be parsed.
LEMMA ReplaceSound ==
    ASSUME NEW file \in File, SoundLines(file.lines),
           NEW text \in Text, NEW new \in Transaction, Occurrences(file, text) # {}
    PROVE  LET after == Replaced(file, text, new)
           IN  /\ after \in File /\ SoundLines(after.lines)
               /\ ~Torn(after.lines) => ~Torn(file.lines)
<1> DEFINE after == Replaced(file, text, new)
           k     == FirstOf(Occurrences(file, text))
           s     == file.lines
<1>1. /\ after \in File
      /\ \E x \in Heads(text) : Struck(s, x, text, k)
      /\ ~Torn(after.lines) => Renewed(file, text, new, k, after)
  BY ReplacedMade
<1> HIDE DEF after, s, k
<1>2. s \in Seq(Line) /\ after.lines \in Seq(Line)  BY <1>1, FileShape DEF s
<1>3. ASSUME ~Torn(after.lines) PROVE ~Torn(s) /\ (Whole(s) => Whole(after.lines))
  <2>1. PICK x, y, b : RenewedBy(file, text, new, k, after, x, y, b)
    BY <1>1, <1>3 DEF Renewed
  <2>3. /\ Spliced(s, k - 1, b, LinesOf(y), after.lines)
        /\ k \in 1 .. Len(s)
        /\ \A i \in k .. b : s[i] # Glued
        /\ Whole(s) => Clean(s, k - 1) /\ Clean(s, b)
        /\ y \in Directive
    BY <2>1, RenewedShape, CommentedShape DEF s
  <2>4. (k - 1) + 1 = k
    <3>1. Len(s) \in Nat  BY <1>2, LenProperties
    <3>q. QED BY <3>1, <2>3
  <2>5. LinesOf(y) \in Seq(Line) /\ Whole(LinesOf(y))  BY <2>3, LinesOfShape
  <2>6. ~Torn(s)  BY <1>2, <1>3, <2>3, <2>4, SplicedTorn
  <2>7. Whole(s) => Whole(after.lines)  BY <1>2, <2>3, <2>5, SplicedWhole
  <2>q. QED BY <2>6, <2>7
<1>q. QED BY <1>1, <1>2, <1>3 DEF SoundLines, s, after

\* A ledger whose files are whole, but those that do not parse.
Sound(ledger) == ledger \in Ledger /\ \A p \in Path : SoundLines(ledger[p].lines)

\* A ledger in which no directive is torn.
WholeLedger == {ledger \in Ledger : \A p \in Path : Whole(ledger[p].lines)}

\* A ledger parses when none of its files is torn.
LEMMA LedgerFiles ==
    ASSUME NEW ledger \in Ledger
    PROVE  /\ \A p \in Path : ledger[p] \in File /\ ledger[p].lines \in Seq(Line)
           /\ Parses(ledger) <=> \A p \in Path : ~Torn(ledger[p].lines)
<1>1. \A p \in Path : ledger[p] \in File  BY DEF Ledger
<1>2. \A p \in Path : ledger[p].lines \in Seq(Line)  BY <1>1, FileShape
<1>3. Parses(ledger) <=> \A p \in Path : ~Torn(ledger[p].lines)
  BY <1>2, TornLines DEF Parses
<1>q. QED BY <1>1, <1>2, <1>3

\* What parses is whole ...
LEMMA SoundIsWhole ==
    ASSUME NEW ledger, Sound(ledger), Parses(ledger)
    PROVE  ledger \in WholeLedger
  BY LedgerFiles DEF Sound, SoundLines, WholeLedger

\* ... and what is whole parses.
LEMMA WholeIsSound ==
    ASSUME NEW ledger \in WholeLedger
    PROVE  Sound(ledger) /\ Parses(ledger)
<1>1. ledger \in Ledger /\ \A p \in Path : Whole(ledger[p].lines)  BY DEF WholeLedger
<1>2. \A p \in Path : ledger[p].lines \in Seq(Line)  BY <1>1, LedgerFiles
<1>3. \A p \in Path : ~Torn(ledger[p].lines)  BY <1>1, <1>2, WholeNotTorn
<1>q. QED BY <1>1, <1>2, <1>3, LedgerFiles DEF Sound, SoundLines

\* Another version of one file of a sound ledger.
LEMMA OneFileSound ==
    ASSUME NEW ledger, Sound(ledger), NEW p \in Path, NEW file \in File, SoundLines(file.lines),
           ~Torn(file.lines) => ~Torn(ledger[p].lines),
           NEW new, new = [ledger EXCEPT ![p] = file]
    PROVE  Sound(new) /\ (Parses(new) => Parses(ledger))
<1>1. ledger \in Ledger  BY DEF Sound
<1>2. new \in Ledger /\ new[p] = file /\ \A q \in Path \ {p} : new[q] = ledger[q]
  BY <1>1 DEF Ledger
<1>3. Sound(new)  BY <1>2 DEF Sound
<1>4. Parses(new) => Parses(ledger)
  <2>1. Parses(new) <=> \A q \in Path : ~Torn(new[q].lines)  BY <1>2, LedgerFiles
  <2>2. Parses(ledger) <=> \A q \in Path : ~Torn(ledger[q].lines)  BY <1>1, LedgerFiles
  <2>q. QED BY <1>2, <2>1, <2>2
<1>q. QED BY <1>3, <1>4

\* The shapes an edit of a plan may have.
EditOK(edit) ==
    \/ IsAppend(edit) /\ edit.says \in Seq(Directive)
    \/ edit.kind = "open" /\ edit.opens \in Opening
    \/ /\ edit.kind = "replace" /\ edit.path \in Path
       /\ edit.old \in Text /\ edit.new \in Transaction
    \/ /\ edit.kind = "delete" /\ edit.path \in Path
       /\ edit.old \in Text /\ edit.start \in Nat

\* The sidecar's month and main file are two files of the ledger.
LEMMA WrittenFiles ==
    /\ {MonthPath, MainPath} \subseteq Path /\ MonthPath # MainPath /\ SidecarPath \subseteq Path
    /\ \A p \in Path : p \in Path
  BY PathAssumption

\* Another opening changes no line.
LEMMA OpenedIs ==
    ASSUME NEW ledger \in Ledger, NEW p \in Path, NEW o \in Opening
    PROVE  LET new == [ledger EXCEPT ![p].opens = @ \cup {o}]
           IN  /\ new \in Ledger
               /\ \A q \in Path : new[q].lines = ledger[q].lines /\ new[q].ended = ledger[q].ended
               /\ \A q \in Path \ {p} : new[q].opens = ledger[q].opens
               /\ new[p].opens = ledger[p].opens \cup {o}
<1> DEFINE old == ledger[p]
           file == [old EXCEPT !.opens = old.opens \cup {o}]
           new == [ledger EXCEPT ![p].opens = @ \cup {o}]
<1>1. old \in File  BY LedgerFiles
<1>2. file \in File /\ file.lines = old.lines /\ file.ended = old.ended
      /\ file.opens = old.opens \cup {o}
  <2> DEFINE L == Seq(Line)
  <2>1. old \in [lines : L, ended : BOOLEAN, opens : SUBSET Opening]  BY <1>1 DEF File
  <2> HIDE DEF L, old
  <2>2. file \in [lines : L, ended : BOOLEAN, opens : SUBSET Opening]  BY <2>1
  <2>3. file.lines = old.lines /\ file.ended = old.ended /\ file.opens = old.opens \cup {o}
    BY <2>1
  <2>q. QED BY <2>2, <2>3 DEF L, File
<1>3. new = [ledger EXCEPT ![p] = file]  BY DEF Ledger
<1> HIDE DEF file, new
<1>4. /\ new \in Ledger /\ new[p] = file /\ \A q \in Path \ {p} : new[q] = ledger[q]
  BY <1>1, <1>2, <1>3 DEF Ledger
<1>5. \A q \in Path : new[q].lines = ledger[q].lines /\ new[q].ended = ledger[q].ended
  BY <1>2, <1>4
<1>q. QED BY <1>2, <1>4, <1>5 DEF new

\* No edit of a plan tears a directive of a ledger that still parses.
THEOREM EditSound ==
    ASSUME NEW ledger, Sound(ledger), NEW edit, EditOK(edit), EditPossible(ledger, edit)
    PROVE  /\ Sound(Edited(ledger, edit))
           /\ Parses(Edited(ledger, edit)) => Parses(ledger)
<1>1. ledger \in Ledger /\ \A p \in Path : SoundLines(ledger[p].lines)  BY DEF Sound
<1>2. CASE IsAppend(edit) /\ edit.says \in Seq(Directive)
  <2> DEFINE file == ledger[MonthPath]
             text == TextOf(edit.says)
  <2>1. file \in File /\ SoundLines(file.lines) /\ MonthPath \in Path
    BY <1>1, WrittenFiles, LedgerFiles
  <2>2. text \in Seq(Line) /\ Whole(text)  BY <1>2, TextWhole
  <2>3. Edited(ledger, edit) = [ledger EXCEPT ![MonthPath] = Appended(file, text)]
    BY <1>2 DEF Edited, IsAppend
  <2> HIDE DEF file, text
  <2>4. /\ Appended(file, text) \in File /\ SoundLines(Appended(file, text).lines)
        /\ ~Torn(Appended(file, text).lines) => ~Torn(file.lines)
    BY <2>1, <2>2, AppendSound
  <2> DEFINE new == Appended(file, text)
  <2> HIDE DEF new
  <2>q. QED BY <2>1, <2>3, <2>4, OneFileSound DEF new, file
<1>3. CASE edit.kind = "open" /\ edit.opens \in Opening
  <2> DEFINE new == [ledger EXCEPT ![MainPath].opens = @ \cup {edit.opens}]
  <2>1. Edited(ledger, edit) = new  BY <1>3 DEF Edited, IsAppend
  <2>2. MainPath \in Path  BY WrittenFiles
  <2>3. /\ new \in Ledger
        /\ \A q \in Path : new[q].lines = ledger[q].lines
    BY <1>1, <1>3, <2>2, OpenedIs
  <2> HIDE DEF new
  <2>4. Sound(new)  BY <1>1, <2>3 DEF Sound
  <2>5. Parses(new) => Parses(ledger)
    <3>1. Parses(new) <=> \A q \in Path : ~Torn(new[q].lines)  BY <2>3, LedgerFiles
    <3>2. Parses(ledger) <=> \A q \in Path : ~Torn(ledger[q].lines)  BY <1>1, LedgerFiles
    <3>q. QED BY <2>3, <3>1, <3>2
  <2>q. QED BY <2>1, <2>4, <2>5
<1>4. CASE /\ edit.kind = "replace" /\ edit.path \in Path
           /\ edit.old \in Text /\ edit.new \in Transaction
  <2> DEFINE file == ledger[edit.path]
             new  == Replaced(file, edit.old, edit.new)
  <2>1. file \in File /\ SoundLines(file.lines)  BY <1>1, <1>4, LedgerFiles
  <2>2. Occurrences(file, edit.old) # {} /\ edit.old \in Text /\ edit.new \in Transaction
    BY <1>4 DEF EditPossible
  <2>3. Edited(ledger, edit) = [ledger EXCEPT ![edit.path] = new]
    BY <1>4 DEF Edited, IsAppend
  <2> HIDE DEF file
  <2>4. /\ new \in File /\ SoundLines(new.lines)
        /\ ~Torn(new.lines) => ~Torn(file.lines)
    BY <2>1, <2>2, ReplaceSound
  <2> HIDE DEF new
  <2>q. QED BY <1>4, <2>3, <2>4, OneFileSound DEF file
<1>5. CASE /\ edit.kind = "delete" /\ edit.path \in Path
           /\ edit.old \in Text /\ edit.start \in Nat
  <2> DEFINE file == ledger[edit.path]
             new  == Deleted(file, edit.old, edit.start)
  <2>1. file \in File /\ SoundLines(file.lines) /\ file.lines \in Seq(Line)
        /\ DOMAIN file.lines = 1 .. Len(file.lines)
    BY <1>1, <1>5, LedgerFiles, FileShape
  <2>2. edit.start \in 1 .. Len(file.lines) /\ StandsAt(file, edit.old, edit.start)
    BY <1>5, <2>1 DEF EditPossible
  <2>3. Edited(ledger, edit) = [ledger EXCEPT ![edit.path] = new]
    BY <1>5 DEF Edited, IsAppend
  <2> HIDE DEF file
  <2>4. edit.old \in Text /\ Bears(file.lines, edit.old, edit.start)
    BY <1>5, <2>1, <2>2, BearsIs DEF StandsAt
  <2>5. /\ new \in File /\ SoundLines(new.lines)
        /\ ~Torn(new.lines) => ~Torn(file.lines)
    BY <2>1, <2>4, DeleteSound
  <2> HIDE DEF new
  <2>q. QED BY <1>5, <2>3, <2>5, OneFileSound DEF file
<1>q. QED BY <1>2, <1>3, <1>4, <1>5 DEF EditOK

-----------------------------------------------------------------------------
(* Replaying a plan.                                                       *)

\* The ledgers after each edit of a plan: one, or none from the first that is not possible.
ReplaySteps(ledger, edits, f) ==
    /\ f[0] = {ledger}
    /\ \A k \in 1 .. Len(edits) :
          f[k] = {Edited(l, edits[k]) : l \in {x \in f[k - 1] : EditPossible(x, edits[k])}}

\* The ledgers a plan may go through: at every edit at most one.
LEMMA ReplayIs ==
    ASSUME NEW ledger, Sound(ledger), NEW edits, NEW T, edits \in Seq(T),
           \A e \in T : EditOK(e)
    PROVE  \E f : /\ ReplaySteps(ledger, edits, f)
                  /\ Replayed(ledger, edits) = f[Len(edits)]
                  /\ \A k \in 0 .. Len(edits) :
                        \A x \in f[k] : Sound(x) /\ (\A y \in f[k] : y = x)
<1> DEFINE n == Len(edits)
           L == {l \in Ledger : Sound(l)}
           X == {S \in SUBSET L : \A x, y \in S : x = y}
           Made(S, k) == {Edited(l, edits[k]) : l \in {x \in S : EditPossible(x, edits[k])}}
           step == [k \in 1 .. n |-> [S \in X |-> Made(S, k)]]
           next(f, k) == IF k = 0 THEN {ledger} ELSE Made(f[k - 1], k)
<1>1. n \in Nat /\ \A k \in 1 .. n : EditOK(edits[k])  BY LenProperties, ElementOfSeq
<1>2. {ledger} \in X  BY DEF Sound
<1> HIDE DEF n
<1>3. ASSUME NEW k \in 1 .. n, NEW S \in X PROVE Made(S, k) \in X
  <2>1. \A l \in S : Sound(l)  OBVIOUS
  <2>2. \A l \in S : EditPossible(l, edits[k]) => Edited(l, edits[k]) \in L
    <3> SUFFICES ASSUME NEW l \in S, EditPossible(l, edits[k]) PROVE Edited(l, edits[k]) \in L
      OBVIOUS
    <3>1. Sound(Edited(l, edits[k]))  BY <1>1, <2>1, EditSound
    <3>q. QED BY <3>1 DEF Sound
  <2>3. \A x, y \in S : x = y  OBVIOUS
  <2> HIDE DEF L
  <2>q. QED BY <2>2, <2>3
<1> HIDE DEF Made
<1>4. Steps(step, n, X)
  <2> SUFFICES ASSUME NEW k \in 1 .. n, NEW S \in X PROVE step[k][S] \in X  BY DEF Steps
  <2> HIDE DEF X
  <2>q. QED BY <1>3
<1>5. PICK g : Iterated(g, n, X, {ledger}, step)
  <2> HIDE DEF step, X
  <2>q. QED BY <1>1, <1>2, <1>4, Iterates
<1>6. g \in [0 .. n -> X] /\ g[0] = {ledger} /\ \A k \in 1 .. n : g[k] = step[k][g[k - 1]]
  <2> HIDE DEF step, X
  <2>q. QED BY <1>5 DEF Iterated
<1>7. ASSUME NEW k \in 1 .. n PROVE g[k] = Made(g[k - 1], k)
  <2>1. k - 1 \in 0 .. n  BY <1>1
  <2>2. g[k - 1] \in X  BY <1>6, <2>1
  <2> HIDE DEF X
  <2>q. QED BY <1>6, <2>2
<1> HIDE DEF step
<1>8. g = [k \in 0 .. n |-> next(g, k)]
  <2>1. ASSUME NEW k \in 0 .. n PROVE g[k] = next(g, k)
    <3>1. k = 0 \/ (k \in 1 .. n /\ k # 0)  BY <1>1
    <3> HIDE DEF X
    <3>q. QED BY <3>1, <1>6, <1>7
  <2>2. g = [k \in 0 .. n |-> g[k]]  BY <1>6
  <2> HIDE DEF next, X
  <2>q. QED BY <2>1, <2>2
<1> DEFINE f == CHOOSE h : h = [k \in 0 .. n |-> next(h, k)]
<1>9. f = [k \in 0 .. n |-> next(f, k)]
  <2> HIDE DEF next, X
  <2>q. QED BY <1>8
<1>10. Replayed(ledger, edits) = f[n]  BY DEF Replayed, n, Made
<1> HIDE DEF f, X
<1>11. f[0] = {ledger}
  <2>1. 0 \in 0 .. n  BY <1>1
  <2>q. QED BY <1>9, <2>1
<1>12. ASSUME NEW k \in 1 .. n PROVE f[k] = Made(f[k - 1], k)
  <2>1. k \in 0 .. n /\ k # 0  BY <1>1
  <2>2. f[k] = next(f, k)
    <3> HIDE DEF next
    <3>q. QED BY <1>9, <2>1
  <2>q. QED BY <2>1, <2>2
<1> HIDE DEF next
<1>13. \A k \in 0 .. n : f[k] \in X
  <2> DEFINE D == {k \in 0 .. n : f[k] \in X}
  <2>1. 0 \in D  BY <1>1, <1>2, <1>11
  <2>2. ASSUME NEW k \in 0 .. n - 1, k \in D PROVE k + 1 \in D
    <3>1. k + 1 \in 1 .. n /\ (k + 1) - 1 = k /\ k + 1 \in 0 .. n  BY <1>1
    <3>2. f[k + 1] = Made(f[k], k + 1)  BY <1>12, <3>1
    <3>q. QED BY <1>3, <2>2, <3>1, <3>2
  <2>3. 0 .. n \subseteq D
    <3> HIDE DEF D
    <3>q. QED BY <1>1, <2>1, <2>2, Induction
  <2>q. QED BY <2>3
<1>14. \A k \in 0 .. n : \A x \in f[k] : Sound(x) /\ (\A y \in f[k] : y = x)
  BY <1>13 DEF X
<1>15. ReplaySteps(ledger, edits, f)  BY <1>11, <1>12 DEF ReplaySteps, Made, n
<1>q. QED BY <1>10, <1>14, <1>15 DEF n

\* What a plan leads to is one ledger, and a whole one when it parses.
LEMMA ReplaySound ==
    ASSUME NEW ledger, Sound(ledger), NEW edits, NEW T, edits \in Seq(T),
           \A e \in T : EditOK(e)
    PROVE  \A x \in Replayed(ledger, edits) :
               Sound(x) /\ (\A y \in Replayed(ledger, edits) : y = x)
<1>1. Len(edits) \in 0 .. Len(edits)
  <2>1. Len(edits) \in Nat  BY LenProperties
  <2>q. QED BY <2>1
<1>2. PICK f : /\ Replayed(ledger, edits) = f[Len(edits)]
               /\ \A k \in 0 .. Len(edits) :
                     \A x \in f[k] : Sound(x) /\ (\A y \in f[k] : y = x)
  BY ReplayIs
<1>q. QED BY <1>1, <1>2

-----------------------------------------------------------------------------
(* Sums over finite sets.                                                  *)

\* The member of a set that a fold over it takes next.
AnyOf(T) == CHOOSE x \in T : TRUE

\* h sums w over the subsets of S, one such member at a time ...
Recurs(S, w, h) ==
    \A T \in SUBSET S : h[T] = IF T = {} THEN 0 ELSE w[AnyOf(T)] + h[T \ {AnyOf(T)}]

\* ... and its values are integers.
Summing(S, w, h) == h \in [SUBSET S -> Int] /\ Recurs(S, w, h)

\* A set without one of its members is smaller.
LEMMA Smaller ==
    ASSUME NEW S, IsFiniteSet(S), NEW T \in SUBSET S, T # {}
    PROVE  /\ AnyOf(T) \in T
           /\ \A y \in T : /\ T \ {y} \in SUBSET S
                           /\ Cardinality(T \ {y}) = Cardinality(T) - 1
           /\ Cardinality(T) \in Nat \ {0}
<1>1. IsFiniteSet(T)  BY FS_Subset
<1>2. Cardinality(T) \in Nat /\ Cardinality(T) # 0  BY <1>1, FS_CardinalityType, FS_EmptySet
<1>3. \A y \in T : Cardinality(T \ {y}) = Cardinality(T) - 1  BY <1>1, FS_RemoveElement
<1>q. QED BY <1>2, <1>3 DEF AnyOf

\* Over a finite set there is such a function.
LEMMA SumsExist ==
    ASSUME NEW S, IsFiniteSet(S), NEW w \in [S -> Int]
    PROVE  \E h : Summing(S, w, h)
<1> DEFINE n == Cardinality(S)
           X == [SUBSET S -> Int]
           Next0(h, T) == IF T = {} THEN 0 ELSE w[AnyOf(T)] + h[T \ {AnyOf(T)}]
           More(h) == [T \in SUBSET S |-> Next0(h, T)]
           step == [k \in 1 .. n |-> [h \in X |-> More(h)]]
           zero == [T \in SUBSET S |-> 0]
<1>1. n \in Nat  BY FS_CardinalityType
<1>2. ASSUME NEW h \in X PROVE More(h) \in X
  <2>1. ASSUME NEW T \in SUBSET S PROVE Next0(h, T) \in Int
    <3>1. CASE T = {}  BY <3>1
    <3>2. CASE T # {}
      <4>1. AnyOf(T) \in S /\ T \ {AnyOf(T)} \in SUBSET S  BY <3>2, Smaller
      <4>2. w[AnyOf(T)] \in Int /\ h[T \ {AnyOf(T)}] \in Int  BY <4>1
      <4>q. QED BY <3>2, <4>2
    <3>q. QED BY <3>1, <3>2
  <2> HIDE DEF Next0
  <2>q. QED BY <2>1
<1>3. zero \in X  OBVIOUS
<1> HIDE DEF zero, n, More, X
<1>4. Steps(step, n, X)
  <2> SUFFICES ASSUME NEW k \in 1 .. n, NEW h \in X PROVE step[k][h] \in X  BY DEF Steps
  <2>q. QED BY <1>2
<1>5. PICK g : Iterated(g, n, X, zero, step)
  <2> HIDE DEF step
  <2>q. QED BY <1>1, <1>3, <1>4, Iterates
<1>6. g \in [0 .. n -> X] /\ g[0] = zero /\ \A k \in 1 .. n : g[k] = step[k][g[k - 1]]
  <2> HIDE DEF step
  <2>q. QED BY <1>5 DEF Iterated
<1>7. ASSUME NEW k \in 1 .. n PROVE g[k] = More(g[k - 1])
  <2>1. k - 1 \in 0 .. n  BY <1>1
  <2>2. g[k - 1] \in X  BY <1>6, <2>1
  <2>q. QED BY <1>6, <2>2
<1> HIDE DEF step
<1> DEFINE Settled(k) == \A T \in SUBSET S : Cardinality(T) < k => g[k][T] = Next0(g[k], T)
           D == {k \in 0 .. n : Settled(k)}
<1>8. 0 \in D
  <2>1. \A T \in SUBSET S : ~(Cardinality(T) < 0)
    <3> SUFFICES ASSUME NEW T \in SUBSET S PROVE ~(Cardinality(T) < 0)  OBVIOUS
    <3>1. Cardinality(T) \in Nat  BY FS_Subset, FS_CardinalityType
    <3>q. QED BY <3>1
  <2>q. QED BY <1>1, <2>1
<1>9. ASSUME NEW k \in 0 .. n - 1, k \in D PROVE k + 1 \in D
  <2>1. k + 1 \in 1 .. n /\ (k + 1) - 1 = k /\ k + 1 \in 0 .. n /\ k \in 0 .. n  BY <1>1
  <2>2. g[k + 1] = More(g[k])  BY <1>7, <2>1
  <2>3. \A T \in SUBSET S : g[k + 1][T] = Next0(g[k], T)  BY <2>2 DEF More
  <2>4. ASSUME NEW T \in SUBSET S, Cardinality(T) < k + 1
        PROVE  g[k + 1][T] = Next0(g[k + 1], T)
    <3>1. CASE T = {}  BY <2>3, <3>1
    <3>2. CASE T # {}
      <4> DEFINE U == T \ {AnyOf(T)}
      <4>1. U \in SUBSET S /\ Cardinality(U) < k
        <5>1. U \in SUBSET S /\ Cardinality(U) = Cardinality(T) - 1
              /\ Cardinality(T) \in Nat
          BY <3>2, Smaller
        <5> HIDE DEF U
        <5>q. QED BY <5>1, <2>1, <2>4
      <4>2. g[k][U] = Next0(g[k], U)  BY <1>9, <4>1
      <4>3. g[k + 1][U] = Next0(g[k], U)  BY <2>3, <4>1
      <4>4. g[k + 1][T] = w[AnyOf(T)] + g[k][U]  BY <2>3, <3>2
      <4>5. Next0(g[k + 1], T) = w[AnyOf(T)] + g[k + 1][U]  BY <3>2
      <4> HIDE DEF Next0, U
      <4>q. QED BY <4>2, <4>3, <4>4, <4>5
    <3>q. QED BY <3>1, <3>2
  <2> HIDE DEF Next0
  <2>q. QED BY <2>1, <2>4
<1>10. 0 .. n \subseteq D
  <2> HIDE DEF D
  <2>q. QED BY <1>1, <1>8, <1>9, Induction
<1> DEFINE h == More(g[n])
<1>11. n \in 0 .. n  BY <1>1
<1>12. g[n] \in X  BY <1>6, <1>11
<1>13. h \in X  BY <1>2, <1>12
<1>14. \A T \in SUBSET S : h[T] = Next0(g[n], T)  BY DEF More
<1>15. ASSUME NEW T \in SUBSET S PROVE h[T] = Next0(h, T)
  <2>1. CASE T = {}  BY <1>14, <2>1
  <2>2. CASE T # {}
    <3> DEFINE U == T \ {AnyOf(T)}
    <3>1. U \in SUBSET S /\ Cardinality(U) < n
      <4>1. U \in SUBSET S /\ Cardinality(U) = Cardinality(T) - 1
            /\ Cardinality(T) \in Nat
        BY <2>2, Smaller
      <4>2. Cardinality(T) <= n  BY FS_Subset DEF n
      <4> HIDE DEF U
      <4>q. QED BY <4>1, <4>2, <1>1
    <3>2. g[n][U] = Next0(g[n], U)  BY <1>10, <1>11, <3>1
    <3>3. h[U] = Next0(g[n], U)  BY <1>14, <3>1
    <3>4. h[T] = w[AnyOf(T)] + g[n][U]  BY <1>14, <2>2
    <3> HIDE DEF h
    <3>5. Next0(h, T) = w[AnyOf(T)] + h[U]  BY <2>2
    <3> HIDE DEF Next0, U
    <3>q. QED BY <3>2, <3>3, <3>4, <3>5
  <2>q. QED BY <2>1, <2>2
<1> HIDE DEF h
<1>16. Summing(S, w, h)  BY <1>13, <1>15 DEF Summing, Recurs, X
<1>q. QED BY <1>16

\* The sum of a set does not depend on where else the weights are defined.
LEMMA SumsAgree ==
    ASSUME NEW S, NEW w, NEW h, NEW T, NEW v, NEW j, IsFiniteSet(S), IsFiniteSet(T),
           Recurs(S, w, h), Recurs(T, v, j),
           NEW U \in SUBSET (S \cap T), \A x \in U : w[x] = v[x]
    PROVE  h[U] = j[U]
<1> DEFINE n == Cardinality(S)
           D == {k \in 0 .. n : \A V \in SUBSET U : Cardinality(V) <= k => h[V] = j[V]}
<1>1. n \in Nat  BY FS_CardinalityType
<1>0. ASSUME NEW V \in SUBSET U
      PROVE  V \in SUBSET S /\ V \in SUBSET T /\ IsFiniteSet(V) /\ Cardinality(V) \in 0 .. n
  <2>1. V \in SUBSET S /\ V \in SUBSET T  OBVIOUS
  <2>2. IsFiniteSet(V) /\ Cardinality(V) <= n  BY <2>1, FS_Subset
  <2>3. Cardinality(V) \in Nat  BY <2>2, FS_CardinalityType
  <2> HIDE DEF n
  <2>q. QED BY <2>1, <2>2, <2>3, <1>1
<1> HIDE DEF n
<1>2. h[{}] = 0 /\ j[{}] = 0  BY DEF Recurs
<1>3. 0 \in D
  <2>1. ASSUME NEW V \in SUBSET U, Cardinality(V) <= 0 PROVE h[V] = j[V]
    <3>1. Cardinality(V) = 0  BY <2>1, <1>0, <1>1
    <3>2. V = {}  BY <3>1, <1>0, FS_EmptySet
    <3>q. QED BY <3>2, <1>2
  <2>q. QED BY <1>1, <2>1
<1>4. ASSUME NEW k \in 0 .. n - 1, k \in D PROVE k + 1 \in D
  <2>1. ASSUME NEW V \in SUBSET U, Cardinality(V) <= k + 1 PROVE h[V] = j[V]
    <3>1. CASE V = {}  BY <3>1, <1>2
    <3>2. CASE V # {}
      <4> DEFINE x == AnyOf(V)
                 W == V \ {x}
      <4>1. /\ x \in V /\ W \in SUBSET U /\ Cardinality(W) = Cardinality(V) - 1
        BY <1>0, <3>2, Smaller
      <4>2. Cardinality(W) <= k  BY <4>1, <1>0, <1>1, <2>1
      <4>3. h[W] = j[W]  BY <4>1, <4>2, <1>4
      <4>4. h[V] = w[x] + h[W] /\ j[V] = v[x] + j[W]  BY <3>2, <1>0 DEF Recurs
      <4>5. w[x] = v[x]  BY <4>1
      <4> HIDE DEF x, W
      <4>q. QED BY <4>3, <4>4, <4>5
    <3>q. QED BY <3>1, <3>2
  <2>q. QED BY <2>1, <1>1
<1>5. 0 .. n \subseteq D
  <2> HIDE DEF D
  <2>q. QED BY <1>1, <1>3, <1>4, Induction
<1>6. U \in SUBSET U /\ n \in 0 .. n /\ Cardinality(U) <= n  BY <1>0, <1>1
<1>q. QED BY <1>5, <1>6

\* Any element may be taken from a sum.
LEMMA SumPicks ==
    ASSUME NEW S, NEW w \in [S -> Int], NEW h, IsFiniteSet(S), Summing(S, w, h),
           NEW U \in SUBSET S, NEW y \in U
    PROVE  h[U] = w[y] + h[U \ {y}]
<1> DEFINE n == Cardinality(S)
           Splits(V) == \A z \in V : h[V] = w[z] + h[V \ {z}]
           D == {k \in 0 .. n : \A V \in SUBSET S : Cardinality(V) <= k => Splits(V)}
<1>1. n \in Nat  BY FS_CardinalityType
<1>0. ASSUME NEW V \in SUBSET S
      PROVE  IsFiniteSet(V) /\ Cardinality(V) \in 0 .. n /\ h[V] \in Int
  <2>1. IsFiniteSet(V) /\ Cardinality(V) <= n  BY FS_Subset
  <2>2. Cardinality(V) \in Nat  BY <2>1, FS_CardinalityType
  <2>3. h[V] \in Int  BY DEF Summing, Recurs
  <2> HIDE DEF n
  <2>q. QED BY <2>1, <2>2, <2>3, <1>1
<1> HIDE DEF n
<1>2. 0 \in D
  <2>1. ASSUME NEW V \in SUBSET S, Cardinality(V) <= 0 PROVE Splits(V)
    <3>1. Cardinality(V) = 0  BY <2>1, <1>0, <1>1
    <3>2. V = {}  BY <3>1, <1>0, FS_EmptySet
    <3>q. QED BY <3>2
  <2> HIDE DEF Splits
  <2>q. QED BY <1>1, <2>1
<1>3. ASSUME NEW k \in 0 .. n - 1, k \in D PROVE k + 1 \in D
  <2>1. ASSUME NEW V \in SUBSET S, Cardinality(V) <= k + 1, NEW z \in V
        PROVE  h[V] = w[z] + h[V \ {z}]
    <3> DEFINE x == AnyOf(V)
               W == V \ {x}
               Y == V \ {z}
               B == V \ {x, z}
    <3>1. /\ x \in V /\ W \in SUBSET S /\ Cardinality(W) = Cardinality(V) - 1
          /\ Y \in SUBSET S /\ Cardinality(Y) = Cardinality(V) - 1
          /\ Cardinality(V) \in Nat
      BY Smaller
    <3>2. h[V] = w[x] + h[W]  BY DEF Summing, Recurs
    <3>3. CASE x = z  BY <3>2, <3>3
    <3>4. CASE x # z
      <4>1. Cardinality(W) <= k /\ Cardinality(Y) <= k
        <5> HIDE DEF W, Y
        <5>q. QED BY <3>1, <2>1, <1>1
      <4>2. Splits(W) /\ Splits(Y)
        <5> HIDE DEF Splits
        <5>q. QED BY <3>1, <4>1, <1>3
      <4>3. z \in W /\ x \in Y /\ W \ {z} = B /\ Y \ {x} = B  BY <3>1, <3>4
      <4>4. h[W] = w[z] + h[B] /\ h[Y] = w[x] + h[B]  BY <4>2, <4>3
      <4>5. w[z] \in Int /\ w[x] \in Int /\ h[B] \in Int
        <5>1. x \in S /\ z \in S /\ B \in SUBSET S  BY <3>1
        <5> HIDE DEF x, B
        <5>q. QED BY <5>1, <1>0
      <4> HIDE DEF x, W, Y, B
      <4>6. h[V] = w[z] + h[Y]  BY <3>2, <4>4, <4>5
      <4>q. QED BY <4>6 DEF Y
    <3>q. QED BY <3>3, <3>4
  <2>q. QED BY <2>1, <1>1
<1>4. 0 .. n \subseteq D
  <2> HIDE DEF D
  <2>q. QED BY <1>1, <1>2, <1>3, Induction
<1>5. n \in 0 .. n /\ Cardinality(U) <= n  BY <1>0, <1>1
<1>6. Splits(U)
  <2> HIDE DEF Splits
  <2>q. QED BY <1>4, <1>5
<1>q. QED BY <1>6

\* What the folds of the library make of a sum.
Parts(ledger, cur, before) ==
    {e \in Transactions(ledger) : e.says.date < before /\ e.says.cur = cur}

\* A balance is the value of such a function.
LEMMA TotalIs ==
    ASSUME NEW ledger, NEW accounts, NEW cur, NEW before,
           IsFiniteSet(Parts(ledger, cur, before)),
           NEW w, w = [e \in Parts(ledger, cur, before) |-> Share(e.says, accounts)],
           w \in [Parts(ledger, cur, before) -> Int]
    PROVE  /\ Total(ledger, accounts, cur, before) \in Int
           /\ \E h : /\ Summing(Parts(ledger, cur, before), w, h)
                     /\ Total(ledger, accounts, cur, before) = h[Parts(ledger, cur, before)]
<1> DEFINE S == Parts(ledger, cur, before)
           next(f, T) == IF T = {} THEN 0
                         ELSE Share(AnyOf(T).says, accounts) + f[T \ {AnyOf(T)}]
<1>1. PICK g : Summing(S, w, g)  BY SumsExist
<1> DEFINE h == CHOOSE f : f = [T \in SUBSET S |-> next(f, T)]
<1>2. Total(ledger, accounts, cur, before) = h[S]
  BY DEF Total, MapThenSumSet, MapThenFoldSet, Parts, AnyOf
<1> HIDE DEF S
<1>3. g = [T \in SUBSET S |-> next(g, T)]
  <2>1. ASSUME NEW T \in SUBSET S PROVE g[T] = next(g, T)
    <3>1. CASE T = {}  BY <1>1, <3>1 DEF Summing, Recurs
    <3>2. CASE T # {}
      <4>1. AnyOf(T) \in S  BY <3>2, Smaller DEF S
      <4>2. w[AnyOf(T)] = Share(AnyOf(T).says, accounts)  BY <4>1 DEF S
      <4>q. QED BY <1>1, <3>2, <4>2 DEF Summing, Recurs
    <3>q. QED BY <3>1, <3>2
  <2>2. g = [T \in SUBSET S |-> g[T]]  BY <1>1 DEF Summing, Recurs
  <2> HIDE DEF next
  <2>q. QED BY <2>1, <2>2
<1>4. h = [T \in SUBSET S |-> next(h, T)]
  <2> HIDE DEF next
  <2>q. QED BY <1>3
<1> HIDE DEF h
<1>5. Recurs(S, w, h)
  <2> SUFFICES ASSUME NEW T \in SUBSET S
               PROVE  h[T] = IF T = {} THEN 0 ELSE w[AnyOf(T)] + h[T \ {AnyOf(T)}]
    BY DEF Recurs
  <2>1. h[T] = next(h, T)
    <3> HIDE DEF next
    <3>q. QED BY <1>4
  <2>2. CASE T = {}  BY <2>1, <2>2
  <2>3. CASE T # {}
    <3>1. AnyOf(T) \in S  BY <2>3, Smaller DEF S
    <3>2. w[AnyOf(T)] = Share(AnyOf(T).says, accounts)  BY <3>1 DEF S
    <3>q. QED BY <2>1, <2>3, <3>2
  <2>q. QED BY <2>2, <2>3
<1>6. Recurs(S, w, g) /\ S \in SUBSET (S \cap S) /\ IsFiniteSet(S)  BY <1>1 DEF Summing, S
<1>7. h[S] = g[S]
  <2> HIDE DEF next
  <2>q. QED BY <1>5, <1>6, SumsAgree
<1>8. g[S] \in Int  BY <1>1 DEF Summing
<1>q. QED BY <1>1, <1>2, <1>7, <1>8 DEF S

-----------------------------------------------------------------------------
(* How often directives of a set begin.                                    *)

\* The lines where a directive of a set starts, and how many.
Begins(lines, D, lo, hi) == {i \in lo .. hi : lines[i][2] = 1 /\ lines[i][1] \in D}
Count(lines, D, lo, hi) == Cardinality(Begins(lines, D, lo, hi))

\* Finitely many, and none where there is no line.
LEMMA CountType ==
    ASSUME NEW lines, NEW D, NEW lo \in Int, NEW hi \in Int
    PROVE  /\ IsFiniteSet(Begins(lines, D, lo, hi))
           /\ Count(lines, D, lo, hi) \in Nat
           /\ hi < lo => Count(lines, D, lo, hi) = 0
<1>1. IsFiniteSet(lo .. hi)  BY FS_Interval
<1>2. Begins(lines, D, lo, hi) \in SUBSET (lo .. hi)  BY DEF Begins
<1>3. IsFiniteSet(Begins(lines, D, lo, hi))  BY <1>1, <1>2, FS_Subset
<1>4. Count(lines, D, lo, hi) \in Nat  BY <1>3, FS_CardinalityType DEF Count
<1>5. ASSUME hi < lo PROVE Count(lines, D, lo, hi) = 0
  <2>1. lo .. hi = {}  BY <1>5
  <2>2. Begins(lines, D, lo, hi) = {}  BY <2>1 DEF Begins
  <2>q. QED BY <2>2, FS_EmptySet DEF Count
<1>q. QED BY <1>3, <1>4, <1>5

\* Counting in two parts.
LEMMA CountSplit ==
    ASSUME NEW lines, NEW D, NEW lo \in Int, NEW hi \in Int, NEW m \in Int,
           lo <= m + 1, m <= hi
    PROVE  Count(lines, D, lo, hi) = Count(lines, D, lo, m) + Count(lines, D, m + 1, hi)
<1> DEFINE A == Begins(lines, D, lo, m)
           B == Begins(lines, D, m + 1, hi)
<1>1. IsFiniteSet(A) /\ IsFiniteSet(B)
  <2>1. m + 1 \in Int  OBVIOUS
  <2>q. QED BY <2>1, CountType
<1>2. Begins(lines, D, lo, hi) = A \cup B  BY DEF Begins
<1>3. A \cap B = {}  BY DEF Begins
<1> HIDE DEF A, B
<1>4. Cardinality(A \cup B) = Cardinality(A) + Cardinality(B) - Cardinality(A \cap B)
  BY <1>1, FS_Union
<1>5. Cardinality(A \cap B) = 0  BY <1>3, FS_EmptySet
<1>6. Cardinality(A) \in Nat /\ Cardinality(B) \in Nat  BY <1>1, FS_CardinalityType
<1>7. Cardinality(A \cup B) = Cardinality(A) + Cardinality(B)  BY <1>4, <1>5, <1>6
<1>q. QED BY <1>2, <1>7 DEF Count, A, B

\* A set has as many elements as what an injection makes of them.
LEMMA SameSize ==
    ASSUME NEW S, NEW T, IsFiniteSet(S), NEW f \in [S -> T],
           \A x, y \in S : f[x] = f[y] => x = y, \A t \in T : \E x \in S : f[x] = t
    PROVE  IsFiniteSet(T) /\ Cardinality(T) = Cardinality(S)
<1>1. f \in Bijection(S, T)  BY DEF Bijection, Injection, Surjection, IsInjective
<1>q. QED BY <1>1, FS_Bijection DEF ExistsBijection

\* The lines lo .. hi of one text are the lines from .. to of another.
Moved(old, lo, hi, new, from, to, by) ==
    /\ lo \in Int /\ hi \in Int /\ by \in Int /\ from = lo + by /\ to = hi + by
    /\ \A i \in lo .. hi : new[i + by] = old[i]

\* Lines that have moved are counted where they are now.
LEMMA CountMoved ==
    ASSUME NEW old, NEW new, NEW D, NEW lo, NEW hi, NEW by, NEW from, NEW to,
           Moved(old, lo, hi, new, from, to, by)
    PROVE  Count(new, D, from, to) = Count(old, D, lo, hi)
<1> USE DEF Moved
<1> DEFINE S == Begins(old, D, lo, hi)
           T == Begins(new, D, from, to)
           f == [i \in S |-> i + by]
<1>1. IsFiniteSet(S)  BY CountType
<1>2. \A i \in S : i \in lo .. hi /\ old[i][2] = 1 /\ old[i][1] \in D  BY DEF Begins
<1>3. \A i \in S : i + by \in lo + by .. hi + by  BY <1>2
<1>4. f \in [S -> T]
  <2> SUFFICES ASSUME NEW i \in S PROVE i + by \in T  OBVIOUS
  <2>1. new[i + by][2] = 1 /\ new[i + by][1] \in D  BY <1>2
  <2>q. QED BY <1>3, <2>1 DEF Begins
<1>5. \A x, y \in S : f[x] = f[y] => x = y
  <2>1. \A x \in S : x \in Int /\ f[x] = x + by  BY <1>2
  <2> HIDE DEF f, S
  <2>q. QED BY <2>1
<1>6. \A t \in T : \E x \in S : f[x] = t
  <2> SUFFICES ASSUME NEW t \in T PROVE \E x \in S : f[x] = t  OBVIOUS
  <2>1. t \in lo + by .. hi + by /\ new[t][2] = 1 /\ new[t][1] \in D  BY DEF Begins
  <2>2. t - by \in lo .. hi /\ (t - by) + by = t  BY <2>1
  <2>3. t - by \in S  BY <2>1, <2>2 DEF Begins
  <2>q. QED BY <2>2, <2>3
<1> HIDE DEF S, T, f
<1>q. QED BY <1>1, <1>4, <1>5, <1>6, SameSize DEF Count, S, T

\* A splice loses what was cut out and adds what was put in.
LEMMA CountSpliced ==
    ASSUME NEW old \in Seq(Line), NEW a, NEW b, NEW mid, NEW new, Spliced(old, a, b, mid, new),
           NEW D
    PROVE  Count(new, D, 1, Len(new))
               = Count(old, D, 1, Len(old)) - Count(old, D, a + 1, b) + Count(mid, D, 1, Len(mid))
<1> DEFINE n  == Len(old)
           m  == Len(mid)
           l  == Len(new)
           by == m - (b - a)
<1>1. /\ n \in Nat /\ m \in Nat /\ a \in 0 .. n /\ b \in a .. n /\ l = n + by /\ by \in Int
      /\ l \in Int /\ a \in Int /\ b \in Int /\ a + m \in Int /\ a + 1 \in Int /\ b + 1 \in Int
  BY LenProperties DEF Spliced
<1>2. /\ \A i \in 1 .. a : new[i] = old[i]
      /\ \A i \in 1 .. m : new[a + i] = mid[i]
      /\ \A i \in b + 1 .. n : new[i + by] = old[i]
  <2>1. \A i \in b + 1 .. n : i + m - (b - a) = i + by  BY <1>1
  <2>q. QED BY <2>1 DEF Spliced
<1>9. b + by = a + m  BY <1>1
<1> HIDE DEF n, m, l, by
<1>3. Count(new, D, 1, l) = Count(new, D, 1, a) + Count(new, D, a + 1, l)
  <2>1. 1 \in Int /\ l \in Int /\ a \in Int /\ 1 <= a + 1 /\ a <= l  BY <1>1, <1>9
  <2>q. QED BY <2>1, CountSplit
<1>4. Count(new, D, a + 1, l) = Count(new, D, a + 1, a + m) + Count(new, D, (a + m) + 1, l)
  <2>1. a + 1 \in Int /\ l \in Int /\ a + m \in Int /\ a + 1 <= (a + m) + 1 /\ a + m <= l
    BY <1>1, <1>9
  <2>q. QED BY <2>1, CountSplit
<1>5. Count(new, D, 1, a) = Count(old, D, 1, a)
  <2>1. \A i \in 1 .. a : new[i + 0] = old[i]
    <3>1. \A i \in 1 .. a : i + 0 = i  BY <1>1
    <3>q. QED BY <1>2, <3>1
  <2>2. Moved(old, 1, a, new, 1, a, 0)  BY <1>1, <2>1 DEF Moved
  <2>q. QED BY <2>2, CountMoved
<1>6. Count(new, D, a + 1, a + m) = Count(mid, D, 1, m)
  <2>1. \A i \in 1 .. m : new[i + a] = mid[i]
    <3>1. \A i \in 1 .. m : i + a = a + i  BY <1>1
    <3>q. QED BY <1>2, <3>1
  <2>2. Moved(mid, 1, m, new, a + 1, a + m, a)  BY <1>1, <2>1 DEF Moved
  <2>q. QED BY <2>2, CountMoved
<1>7. Count(new, D, (a + m) + 1, l) = Count(old, D, b + 1, n)
  <2>1. Moved(old, b + 1, n, new, (a + m) + 1, l, by)  BY <1>1, <1>2, <1>9 DEF Moved
  <2>q. QED BY <2>1, CountMoved
<1>8. /\ Count(old, D, 1, n) = Count(old, D, 1, a) + Count(old, D, a + 1, n)
      /\ Count(old, D, a + 1, n) = Count(old, D, a + 1, b) + Count(old, D, b + 1, n)
  <2>1. 1 \in Int /\ n \in Int /\ a \in Int /\ 1 <= a + 1 /\ a <= n  BY <1>1
  <2>2. a + 1 \in Int /\ n \in Int /\ b \in Int /\ a + 1 <= b + 1 /\ b <= n  BY <1>1
  <2>q. QED BY <2>1, <2>2, CountSplit
<1>10. /\ Count(old, D, 1, a) \in Nat /\ Count(old, D, a + 1, b) \in Nat
       /\ Count(old, D, b + 1, n) \in Nat /\ Count(mid, D, 1, m) \in Nat
  BY <1>1, CountType
<1>q. QED BY <1>3, <1>4, <1>5, <1>6, <1>7, <1>8, <1>10 DEF n, m, l

\* Lines of no directive start none.
LEMMA CountLoose ==
    ASSUME NEW lines, NEW D, NEW lo \in Int, NEW hi \in Int,
           \A i \in lo .. hi : lines[i] \in Loose
    PROVE  Count(lines, D, lo, hi) = 0
<1>1. \A i \in lo .. hi : lines[i][2] = 0  BY LineShape
<1>2. Begins(lines, D, lo, hi) = {}  BY <1>1 DEF Begins
<1>q. QED BY <1>2, FS_EmptySet DEF Count

\* One for a directive of the set.
One(x, D) == IF x \in D THEN 1 ELSE 0

\* A directive's lines start it once, and no other.
LEMMA CountBlock ==
    ASSUME NEW lines \in Seq(Line), NEW x, NEW k, HasBlock(lines, x, k), NEW D
    PROVE  Count(lines, D, k, k + Height(x) - 1) = One(x, D)
<1> DEFINE h == Height(x)
           last == k + h - 1
           S == Begins(lines, D, k, last)
<1>1. k \in Nat \ {0} /\ h \in {1, 3} /\ \A i \in 1 .. h : lines[k + i - 1] = <<x, i>>
  BY LenProperties, Heights DEF HasBlock
<1> HIDE DEF h
<1>2. ASSUME NEW i \in k .. last PROVE lines[i] = <<x, i - k + 1>> /\ (i - k + 1 = 1 <=> i = k)
  <2>1. i - k + 1 \in 1 .. h /\ k + (i - k + 1) - 1 = i  BY <1>1
  <2>2. i - k + 1 = 1 <=> i = k
    <3>1. i \in Int /\ k \in Int  BY <1>1
    <3>q. QED BY <3>1
  <2> DEFINE j == i - k + 1
  <2> HIDE DEF j
  <2>3. lines[i] = <<x, j>>  BY <1>1, <2>1 DEF j
  <2>q. QED BY <2>2, <2>3 DEF j
<1>3. k \in k .. last  BY <1>1
<1>4. S = IF x \in D THEN {k} ELSE {}
  <2>1. ASSUME NEW i \in k .. last
        PROVE  lines[i][2] = 1 /\ lines[i][1] \in D <=> (x \in D /\ i = k)
    <3>1. lines[i] = <<x, i - k + 1>> /\ (i - k + 1 = 1 <=> i = k)  BY <1>2
    <3> DEFINE j == i - k + 1
    <3> HIDE DEF j
    <3>2. <<x, j>>[1] = x /\ <<x, j>>[2] = j  OBVIOUS
    <3>q. QED BY <3>1, <3>2 DEF j
  <2>2. S = {i \in k .. last : x \in D /\ i = k}  BY <2>1 DEF Begins
  <2> HIDE DEF S
  <2>q. QED BY <2>2, <1>3
<1>5. Cardinality(S) = One(x, D)
  <2> HIDE DEF S
  <2>q. QED BY <1>4, FS_Singleton, FS_EmptySet DEF One
<1>q. QED BY <1>5 DEF Count, h

\* So does the text of one.
LEMMA CountLines ==
    ASSUME NEW x \in Directive, NEW D
    PROVE  Count(LinesOf(x), D, 1, Len(LinesOf(x))) = One(x, D)
<1> DEFINE s == LinesOf(x)
           h == Height(x)
<1>1. /\ s \in Seq(Line) /\ Len(s) = h /\ h \in Nat \ {0} /\ \A i \in 1 .. h : s[i] = <<x, i>>
  BY LinesOfShape, Heights
<1> HIDE DEF s, h
<1>2. 1 + h - 1 = h /\ \A i \in 1 .. h : 1 + i - 1 = i  BY <1>1
<1>3. HasBlock(s, x, 1)  BY <1>1, <1>2 DEF HasBlock, h
<1>4. Count(s, D, 1, 1 + h - 1) = One(x, D)  BY <1>1, <1>3, CountBlock DEF h
<1>q. QED BY <1>1, <1>2, <1>4 DEF s

\* An empty line starts nothing.
LEMMA CountBelow ==
    ASSUME NEW text \in Seq(Line), NEW D
    PROVE  Count(Below(text), D, 1, Len(Below(text))) = Count(text, D, 1, Len(text))
<1> DEFINE b == <<Blank>>
           u == Below(text)
           n == Len(text)
<1>1. Spliced(text, 0, 0, b, u)  BY BelowShape
<1>2. Len(b) = 1 /\ b[1] = Blank  BY LineShape, Tuple1
<1>3. n \in Nat  BY LenProperties
<1> HIDE DEF b, u
<1>4. Count(u, D, 1, Len(u)) = Count(text, D, 1, n) - Count(text, D, 0 + 1, 0) + Count(b, D, 1, Len(b))
  BY <1>1, CountSpliced
<1>5. Count(text, D, 0 + 1, 0) = 0
  <2>1. 0 + 1 \in Int /\ 0 \in Int /\ 0 < 0 + 1  OBVIOUS
  <2>q. QED BY <2>1, CountType
<1>6. Count(b, D, 1, Len(b)) = 0
  <2>1. \A i \in 1 .. 1 : b[i] \in Loose  BY <1>2, LineShape
  <2>q. QED BY <2>1, <1>2, CountLoose
<1>7. Count(text, D, 1, n) \in Nat  BY <1>3, CountType
<1>8. Count(u, D, 1, Len(u)) = Count(text, D, 1, n)
  <2> DEFINE c == Count(text, D, 1, n)
  <2> HIDE DEF c
  <2>1. c \in Nat /\ Count(u, D, 1, Len(u)) = c - 0 + 0  BY <1>4, <1>5, <1>6, <1>7 DEF c
  <2>q. QED BY <2>1 DEF c
<1>q. QED BY <1>8 DEF u

\* Texts one after the other are counted apart.
LEMMA CountJoined ==
    ASSUME NEW s \in Seq(Line), NEW t \in Seq(Line), NEW D
    PROVE  Count(s \o t, D, 1, Len(s \o t)) = Count(s, D, 1, Len(s)) + Count(t, D, 1, Len(t))
<1> DEFINE n == Len(s)
           all == s \o t
<1>1. Spliced(s, n, n, t, all)  BY AtEnd
<1>2. n \in Nat /\ Len(t) \in Nat  BY LenProperties
<1> HIDE DEF all, n
<1>3. Count(all, D, 1, Len(all)) = Count(s, D, 1, Len(s)) - Count(s, D, n + 1, n) + Count(t, D, 1, Len(t))
  BY <1>1, CountSpliced
<1>4. Count(s, D, n + 1, n) = 0
  <2>1. n + 1 \in Int /\ n \in Int /\ n < n + 1  BY <1>2
  <2>q. QED BY <2>1, CountType
<1>5. Count(s, D, 1, Len(s)) \in Nat /\ Count(t, D, 1, Len(t)) \in Nat
  BY <1>2, CountType DEF n
<1>6. Count(all, D, 1, Len(all)) = Count(s, D, 1, Len(s)) + Count(t, D, 1, Len(t))
  <2> DEFINE x == Count(s, D, 1, Len(s))
             y == Count(t, D, 1, Len(t))
             z == Count(all, D, 1, Len(all))
  <2> HIDE DEF x, y, z
  <2>1. x \in Nat /\ y \in Nat /\ z = x - 0 + y  BY <1>3, <1>4, <1>5 DEF x, y, z
  <2>2. z = x + y  BY <2>1
  <2>q. QED BY <2>2 DEF x, y, z
<1>q. QED BY <1>6 DEF all

\* So does what is appended for one.
LEMMA CountParagraph ==
    ASSUME NEW x \in Directive, NEW D
    PROVE  Count(Paragraph(x), D, 1, Len(Paragraph(x))) = One(x, D)
<1>1. PICK pre \in Seq(Line) : /\ \A i \in 1 .. Len(pre) : pre[i] \in Loose
                               /\ Whole(pre) /\ Paragraph(x) = pre \o LinesOf(x)
  BY ParagraphShape DEF Prefaced
<1> DEFINE text == LinesOf(x)
<1>2. text \in Seq(Line) /\ Count(text, D, 1, Len(text)) = One(x, D)
  BY LinesOfShape, CountLines
<1>3. Count(pre, D, 1, Len(pre)) = 0
  <2>1. 1 \in Int /\ Len(pre) \in Int  BY LenProperties
  <2>q. QED BY <1>1, <2>1, CountLoose
<1> HIDE DEF text
<1>4. Count(pre \o text, D, 1, Len(pre \o text)) = 0 + One(x, D)
  BY <1>2, <1>3, CountJoined
<1>5. 0 + One(x, D) = One(x, D)  BY DEF One
<1>q. QED BY <1>1, <1>4, <1>5 DEF text

\* In a text directives of a set begin as often as they are in the sequence.
Times(ds, n, D) == Cardinality({i \in 1 .. n : ds[i] \in D})

\* How often a directive is among the first n.
LEMMA TimesGrow ==
    ASSUME NEW ds, NEW D, NEW n \in Nat
    PROVE  /\ Times(ds, 0, D) = 0
           /\ Times(ds, n, D) \in Nat
           /\ Times(ds, n + 1, D) = Times(ds, n, D) + One(ds[n + 1], D)
           /\ \A i \in 1 .. n : ds[i] \in D => Times(ds, n, D) # 0
           /\ Times(ds, n, D) # 0 => \E i \in 1 .. n : ds[i] \in D
<1> DEFINE S(m) == {i \in 1 .. m : ds[i] \in D}
<1>1. IsFiniteSet(1 .. n)  BY FS_Interval
<1>2. S(n) \in SUBSET (1 .. n)  OBVIOUS
<1>3. IsFiniteSet(S(n)) /\ Cardinality(S(n)) \in Nat
  <2>1. IsFiniteSet(S(n))  BY <1>1, <1>2, FS_Subset
  <2>q. QED BY <2>1, FS_CardinalityType
<1>4. Times(ds, 0, D) = 0
  <2>1. 1 .. 0 = {}  OBVIOUS
  <2>2. {i \in 1 .. 0 : ds[i] \in D} = {}  BY <2>1
  <2>q. QED BY <2>2, FS_EmptySet DEF Times
<1>5. S(n + 1) = IF ds[n + 1] \in D THEN S(n) \cup {n + 1} ELSE S(n)
  <2>1. 1 .. n + 1 = (1 .. n) \cup {n + 1}  OBVIOUS
  <2>q. QED BY <2>1
<1>6. n + 1 \notin S(n)  OBVIOUS
<1>7. Cardinality(S(n + 1)) = Cardinality(S(n)) + One(ds[n + 1], D)
  <2>1. Cardinality(S(n) \cup {n + 1}) = Cardinality(S(n)) + 1
    <3> DEFINE A == S(n)
    <3> HIDE DEF A
    <3>q. QED BY <1>3, <1>6, FS_AddElement DEF A
  <2> DEFINE A == S(n)
  <2> HIDE DEF A
  <2>2. CASE ds[n + 1] \in D
    <3>1. S(n + 1) = A \cup {n + 1}  BY <1>5, <2>2 DEF A
    <3>2. One(ds[n + 1], D) = 1  BY <2>2 DEF One
    <3>q. QED BY <2>1, <3>1, <3>2 DEF A
  <2>3. CASE ds[n + 1] \notin D
    <3>1. S(n + 1) = A  BY <1>5, <2>3 DEF A
    <3>2. One(ds[n + 1], D) = 0  BY <2>3 DEF One
    <3>3. Cardinality(A) + 0 = Cardinality(A)  BY <1>3 DEF A
    <3>q. QED BY <3>1, <3>2, <3>3 DEF A
  <2>q. QED BY <2>2, <2>3
<1>8. ASSUME NEW i \in 1 .. n, ds[i] \in D PROVE Times(ds, n, D) # 0
  <2>1. i \in S(n)  BY <1>8
  <2>2. Cardinality(S(n)) # 0  BY <2>1, <1>3, FS_EmptySet
  <2>q. QED BY <2>2 DEF Times
<1>9. ASSUME Times(ds, n, D) # 0 PROVE \E i \in 1 .. n : ds[i] \in D
  <2>1. S(n) # {}  BY <1>9, FS_EmptySet DEF Times
  <2>q. QED BY <2>1
<1>q. QED BY <1>3, <1>4, <1>7, <1>8, <1>9 DEF Times

\* A text starts directives as often as they were written.
LEMMA CountText ==
    ASSUME NEW ds \in Seq(Directive), NEW D
    PROVE  Count(TextOf(ds), D, 1, Len(TextOf(ds))) = Times(ds, Len(ds), D)
<1> DEFINE n == Len(ds)
           C(s) == Count(s, D, 1, Len(s))
<1>1. n \in Nat /\ \A k \in 1 .. n : ds[k] \in Directive  BY LenProperties, ElementOfSeq
<1>2. PICK f : TextSteps(ds, f) /\ TextOf(ds) = f[n]  BY TextIs
<1> DEFINE T == {k \in 0 .. n : C(f[k]) = Times(ds, k, D)}
<1>3. 0 \in T
  <2>1. f[0] = <<>> /\ Len(<<>>) = 0  BY <1>2 DEF TextSteps
  <2>2. Count(<<>>, D, 1, 0) = 0  BY CountType
  <2>3. Times(ds, 0, D) = 0  BY <1>1, TimesGrow
  <2>q. QED BY <1>1, <2>1, <2>2, <2>3
<1>4. ASSUME NEW k \in 0 .. n - 1, k \in T PROVE k + 1 \in T
  <2> DEFINE more == Paragraph(ds[k + 1])
  <2>1. k + 1 \in 1 .. n /\ (k + 1) - 1 = k /\ k + 1 \in 0 .. n /\ k \in 0 .. n /\ k \in Nat
    BY <1>1
  <2>2. /\ f[k] \in Seq(Line)
        /\ f[k + 1] = IF k + 1 = 1 THEN Paragraph(ds[1]) ELSE f[k] \o Below(more)
        /\ C(f[k]) = Times(ds, k, D)
    BY <1>2, <1>4, <2>1 DEF TextSteps
  <2>3. more \in Seq(Line) /\ Below(more) \in Seq(Line) /\ C(more) = One(ds[k + 1], D)
        /\ C(Below(more)) = C(more)
    <3>1. more \in Seq(Line) /\ C(more) = One(ds[k + 1], D)
      BY <1>1, <2>1, ParagraphShape, CountParagraph
    <3> HIDE DEF more
    <3>2. Below(more) \in Seq(Line)  BY <3>1, BelowShape
    <3>3. C(Below(more)) = C(more)  BY <3>1, CountBelow
    <3>q. QED BY <3>1, <3>2, <3>3
  <2>4. Times(ds, k + 1, D) = Times(ds, k, D) + One(ds[k + 1], D) /\ Times(ds, 0, D) = 0
        /\ One(ds[k + 1], D) \in Nat
    BY <2>1, TimesGrow DEF One
  <2>5. CASE k = 0
    <3>1. f[k + 1] = more /\ Times(ds, k, D) = 0  BY <2>2, <2>4, <2>5
    <3>2. C(f[k + 1]) = One(ds[k + 1], D)  BY <2>3, <3>1
    <3>3. Times(ds, k + 1, D) = One(ds[k + 1], D)  BY <2>4, <3>1
    <3>q. QED BY <2>1, <3>2, <3>3
  <2>6. CASE k # 0
    <3> DEFINE u == Below(more)
    <3>0. k + 1 # 1  BY <2>1, <2>6
    <3>1. f[k + 1] = f[k] \o u /\ u \in Seq(Line)
      <4> HIDE DEF more
      <4>1. u \in Seq(Line)  BY <2>3
      <4>q. QED BY <2>2, <3>0, <4>1
    <3> HIDE DEF u
    <3>2. C(f[k] \o u) = C(f[k]) + C(u)  BY <2>2, <3>1, CountJoined
    <3>3. C(u) = One(ds[k + 1], D)  BY <2>3 DEF u
    <3>4. C(f[k + 1]) = Times(ds, k + 1, D)  BY <2>2, <2>4, <3>1, <3>2, <3>3
    <3>q. QED BY <2>1, <3>4
  <2>q. QED BY <2>5, <2>6
<1>5. 0 .. n \subseteq T
  <2> HIDE DEF T
  <2>q. QED BY <1>1, <1>3, <1>4, Induction
<1>6. n \in 0 .. n  BY <1>1
<1>q. QED BY <1>2, <1>5, <1>6

-----------------------------------------------------------------------------
(* The directives of a ledger.                                             *)

\* Where a directive stands.
Entry(p, k, d) == [path |-> p, line |-> k, says |-> d]

\* The first lines of a file.
LEMMA StartsIs ==
    ASSUME NEW ledger \in Ledger, NEW p \in Path
    PROVE  /\ Starts(ledger[p]) = {k \in 1 .. Len(ledger[p].lines) : ledger[p].lines[k][2] = 1}
           /\ \A k \in Starts(ledger[p]) :
                 /\ ledger[p].lines[k] = <<ledger[p].lines[k][1], 1>>
                 /\ ledger[p].lines[k][1] \in Directive
<1>1. ledger[p] \in File  BY LedgerFiles
<1> DEFINE s == ledger[p].lines
<1>2. s \in Seq(Line) /\ DOMAIN s = 1 .. Len(s) /\ \A i \in 1 .. Len(s) : s[i] \in Line
  BY <1>1, FileShape
<1>3. Starts(ledger[p]) = {k \in 1 .. Len(s) : s[k][2] = 1}  BY <1>2 DEF Starts
<1> HIDE DEF s
<1>4. \A k \in 1 .. Len(s) : s[k][2] = 1 => s[k] = <<s[k][1], 1>> /\ s[k][1] \in Directive
  BY <1>2, LineShape
<1>q. QED BY <1>3, <1>4 DEF s

\* The directives of a ledger are those with a first line in one of its files; there
\* are finitely many.
LEMMA PlacedShape ==
    ASSUME NEW ledger \in Ledger
    PROVE  /\ \A e \in Placed(ledger) :
                 /\ e.path \in Path /\ e.line \in 1 .. Len(ledger[e.path].lines)
                 /\ ledger[e.path].lines[e.line] = <<e.says, 1>>
                 /\ e.says \in Directive
                 /\ e = Entry(e.path, e.line, e.says)
           /\ \A p \in Path : \A k \in 1 .. Len(ledger[p].lines) : \A d :
                 ledger[p].lines[k] = <<d, 1>> => Entry(p, k, d) \in Placed(ledger)
           /\ IsFiniteSet(Placed(ledger))
<1> DEFINE In(p) == {[path |-> p, line |-> k, says |-> ledger[p].lines[k][1]] :
                        k \in Starts(ledger[p])}
<1>1. Placed(ledger) = UNION {In(p) : p \in Path}  BY DEF Placed
<1>2. \A e : e \in Placed(ledger) <=>
          \E p \in Path : \E k \in Starts(ledger[p]) : e = Entry(p, k, ledger[p].lines[k][1])
  BY <1>1 DEF Entry
<1>3. ASSUME NEW e \in Placed(ledger)
      PROVE  /\ e.path \in Path /\ e.line \in 1 .. Len(ledger[e.path].lines)
             /\ ledger[e.path].lines[e.line] = <<e.says, 1>>
             /\ e.says \in Directive
             /\ e = Entry(e.path, e.line, e.says)
  <2>1. PICK p \in Path : \E k \in Starts(ledger[p]) : e = Entry(p, k, ledger[p].lines[k][1])
    BY <1>2
  <2>2. PICK k \in Starts(ledger[p]) : e = Entry(p, k, ledger[p].lines[k][1])  BY <2>1
  <2>3. e.path = p /\ e.line = k /\ e.says = ledger[p].lines[k][1]  BY <2>2 DEF Entry
  <2>q. QED BY <2>2, <2>3, StartsIs
<1>4. ASSUME NEW p \in Path, NEW k \in 1 .. Len(ledger[p].lines), NEW d,
             ledger[p].lines[k] = <<d, 1>>
      PROVE  Entry(p, k, d) \in Placed(ledger)
  <2>1. ledger[p].lines[k][1] = d /\ ledger[p].lines[k][2] = 1  BY <1>4
  <2>2. k \in Starts(ledger[p])  BY <2>1, StartsIs
  <2>q. QED BY <1>2, <2>1, <2>2
<1>5. IsFiniteSet(Placed(ledger))
  <2>1. \A p \in Path : IsFiniteSet(In(p))
    <3> SUFFICES ASSUME NEW p \in Path PROVE IsFiniteSet(In(p))  OBVIOUS
    <3> DEFINE S == Starts(ledger[p])
               f == [k \in S |-> Entry(p, k, ledger[p].lines[k][1])]
    <3>1. IsFiniteSet(S)
      <4>1. Len(ledger[p].lines) \in Nat  BY LedgerFiles, LenProperties
      <4>2. IsFiniteSet(1 .. Len(ledger[p].lines))  BY <4>1, FS_Interval
      <4>3. S \in SUBSET (1 .. Len(ledger[p].lines))  BY StartsIs
      <4> HIDE DEF S
      <4>q. QED BY <4>2, <4>3, FS_Subset
    <3> HIDE DEF S
    <3>2. f \in [S -> In(p)] /\ \A t \in In(p) : \E k \in S : f[k] = t
      BY DEF S, Entry
    <3>3. f \in Surjection(S, In(p))  BY <3>2 DEF Surjection
    <3> HIDE DEF f, In
    <3>q. QED BY <3>1, <3>3, FS_Surjection
  <2> DEFINE P == {In(p) : p \in Path}
             g == [p \in Path |-> In(p)]
  <2>2. g \in Surjection(Path, P)
    <3> HIDE DEF In
    <3>q. QED BY DEF Surjection
  <2> HIDE DEF g
  <2>3. IsFiniteSet(P)  BY <2>2, FS_Surjection, PathAssumption
  <2>4. \A T \in P : IsFiniteSet(T)  BY <2>1
  <2> HIDE DEF P
  <2>5. IsFiniteSet(UNION P)  BY <2>3, <2>4, FS_UNION
  <2>q. QED BY <1>1, <2>5 DEF P
<1>q. QED BY <1>3, <1>4, <1>5

\* How often directives of a set stand in a ledger.
CopiesAmong(ledger, D) == Cardinality({e \in Placed(ledger) : e.says \in D})

\* The directives that are one another but for a comment, and the sets that do not
\* tell them apart.
Alike(says) == {d \in Directive : Plain(d) = says}

Blind(D) == \A x, y \in Directive : Plain(x) = Plain(y) => (x \in D <=> y \in D)

\* The copies of a directive are those of all that are alike.
LEMMA AlikeCopies ==
    ASSUME NEW ledger \in Ledger, NEW says
    PROVE  Copies(ledger, says) = CopiesAmong(ledger, Alike(says)) /\ Blind(Alike(says))
<1>1. \A e \in Placed(ledger) : e.says \in Directive  BY PlacedShape
<1>2. \A e \in Placed(ledger) : Plain(e.says) = says <=> e.says \in Alike(says)
  BY <1>1 DEF Alike
<1>3. {e \in Placed(ledger) : Plain(e.says) = says} = {e \in Placed(ledger) : e.says \in Alike(says)}
  BY <1>2
<1>4. Copies(ledger, says) = CopiesAmong(ledger, Alike(says))  BY <1>3 DEF Copies, CopiesAmong
<1>q. QED BY <1>4 DEF Blind, Alike

\* The copies in one file and in the others.
Here(ledger, p, D) == {e \in Placed(ledger) : e.says \in D /\ e.path = p}
Elsewhere(ledger, p, D) == {e \in Placed(ledger) : e.says \in D /\ e.path # p}

\* Copies are counted in one file and elsewhere.
LEMMA CopiesSplit ==
    ASSUME NEW ledger \in Ledger, NEW p \in Path, NEW D
    PROVE  /\ CopiesAmong(ledger, D) = Count(ledger[p].lines, D, 1, Len(ledger[p].lines))
                                      + Cardinality(Elsewhere(ledger, p, D))
           /\ Cardinality(Elsewhere(ledger, p, D)) \in Nat
           /\ Count(ledger[p].lines, D, 1, Len(ledger[p].lines)) \in Nat
           /\ CopiesAmong(ledger, D) \in Nat
<1> DEFINE A == Here(ledger, p, D)
           B == Elsewhere(ledger, p, D)
           s == ledger[p].lines
           S == Begins(s, D, 1, Len(s))
<1>1. IsFiniteSet(A) /\ IsFiniteSet(B)
  <2>1. IsFiniteSet(Placed(ledger))  BY PlacedShape
  <2>2. A \in SUBSET Placed(ledger) /\ B \in SUBSET Placed(ledger)  BY DEF Here, Elsewhere
  <2>q. QED BY <2>1, <2>2, FS_Subset
<1>2. {e \in Placed(ledger) : e.says \in D} = A \cup B /\ A \cap B = {}
  BY DEF Here, Elsewhere
<1>3. Len(s) \in Nat  BY LedgerFiles, LenProperties
<1>4. IsFiniteSet(S)
  <2>1. 1 \in Int /\ Len(s) \in Int  BY <1>3
  <2>q. QED BY <2>1, CountType
<1>5. Cardinality(A) = Cardinality(S)
  <2> DEFINE E(k) == Entry(p, k, s[k][1])
             f == [k \in S |-> E(k)]
  <2>1. \A k \in S : k \in 1 .. Len(s) /\ s[k] = <<s[k][1], 1>> /\ s[k][1] \in D
    <3>1. \A k \in S : k \in 1 .. Len(s) /\ s[k][2] = 1 /\ s[k][1] \in D  BY DEF Begins
    <3>2. \A k \in 1 .. Len(s) : s[k][2] = 1 => s[k] = <<s[k][1], 1>>  BY StartsIs
    <3>q. QED BY <3>1, <3>2
  <2>2. f \in [S -> A]
    <3> SUFFICES ASSUME NEW k \in S PROVE E(k) \in A  OBVIOUS
    <3>1. E(k) \in Placed(ledger)  BY <2>1, PlacedShape
    <3>2. E(k).says \in D /\ E(k).path = p  BY <2>1 DEF Entry
    <3>q. QED BY <3>1, <3>2 DEF Here
  <2>3. \A x, y \in S : f[x] = f[y] => x = y
    <3> SUFFICES ASSUME NEW x \in S, NEW y \in S, f[x] = f[y] PROVE x = y  OBVIOUS
    <3>1. E(x) = E(y)  OBVIOUS
    <3>2. E(x).line = x /\ E(y).line = y  BY DEF Entry
    <3>q. QED BY <3>1, <3>2
  <2>4. \A t \in A : \E k \in S : f[k] = t
    <3> SUFFICES ASSUME NEW t \in A PROVE \E k \in S : f[k] = t  OBVIOUS
    <3>1. /\ t \in Placed(ledger) /\ t.says \in D /\ t.path = p  BY DEF Here
    <3>2. t.line \in 1 .. Len(s) /\ s[t.line] = <<t.says, 1>> /\ t = Entry(p, t.line, t.says)
      BY <3>1, PlacedShape
    <3>3. s[t.line][1] = t.says /\ s[t.line][2] = 1  BY <3>2
    <3>4. t.line \in S  BY <3>1, <3>2, <3>3 DEF Begins
    <3>5. E(t.line) = t  BY <3>2, <3>3
    <3>q. QED BY <3>4, <3>5
  <2> HIDE DEF E
  <2> HIDE DEF f, S, A
  <2>q. QED BY <1>4, <2>2, <2>3, <2>4, SameSize
<1> HIDE DEF A, B
<1>6. Cardinality(A \cup B) = Cardinality(A) + Cardinality(B) - Cardinality(A \cap B)
  BY <1>1, FS_Union
<1>7. Cardinality(A \cap B) = 0 /\ Cardinality(A) \in Nat /\ Cardinality(B) \in Nat
  BY <1>1, <1>2, FS_EmptySet, FS_CardinalityType
<1>8. CopiesAmong(ledger, D) = Cardinality(A \cup B)  BY <1>2 DEF CopiesAmong
<1>9. Count(s, D, 1, Len(s)) = Cardinality(A)  BY <1>5 DEF Count
<1>10. CopiesAmong(ledger, D) = Cardinality(A) + Cardinality(B)  BY <1>6, <1>7, <1>8
<1>q. QED BY <1>7, <1>9, <1>10 DEF B, s

\* Two ledgers that differ in one file differ in what that file says.
LEMMA CopiesDiffer ==
    ASSUME NEW old \in Ledger, NEW new \in Ledger, NEW p \in Path, NEW D,
           \A q \in Path \ {p} : new[q].lines = old[q].lines
    PROVE  CopiesAmong(new, D) = CopiesAmong(old, D) - Count(old[p].lines, D, 1, Len(old[p].lines))
                                + Count(new[p].lines, D, 1, Len(new[p].lines))
<1>1. ASSUME NEW one \in Ledger, NEW two \in Ledger,
             \A q \in Path \ {p} : two[q].lines = one[q].lines, NEW e \in Elsewhere(one, p, D)
      PROVE  e \in Elsewhere(two, p, D)
  <2>1. e \in Placed(one) /\ e.says \in D /\ e.path # p  BY DEF Elsewhere
  <2>2. /\ e.path \in Path /\ e.line \in 1 .. Len(one[e.path].lines)
        /\ one[e.path].lines[e.line] = <<e.says, 1>> /\ e = Entry(e.path, e.line, e.says)
    BY <2>1, PlacedShape
  <2>3. two[e.path].lines = one[e.path].lines  BY <1>1, <2>1, <2>2
  <2>4. Entry(e.path, e.line, e.says) \in Placed(two)  BY <2>2, <2>3, PlacedShape
  <2>q. QED BY <2>1, <2>2, <2>4 DEF Elsewhere
<1>2. \A q \in Path \ {p} : old[q].lines = new[q].lines  OBVIOUS
<1>3. Elsewhere(new, p, D) = Elsewhere(old, p, D)
  <2>1. \A e \in Elsewhere(new, p, D) : e \in Elsewhere(old, p, D)  BY <1>1, <1>2
  <2>2. \A e \in Elsewhere(old, p, D) : e \in Elsewhere(new, p, D)  BY <1>1
  <2>q. QED BY <2>1, <2>2
<1> DEFINE c == Cardinality(Elsewhere(old, p, D))
           m == Count(old[p].lines, D, 1, Len(old[p].lines))
           n == Count(new[p].lines, D, 1, Len(new[p].lines))
<1>4. CopiesAmong(old, D) = m + c /\ c \in Nat /\ m \in Nat  BY CopiesSplit
<1>5. CopiesAmong(new, D) = n + c /\ n \in Nat  BY <1>3, CopiesSplit
<1> HIDE DEF c, m, n
<1>6. CopiesAmong(new, D) = CopiesAmong(old, D) - m + n  BY <1>4, <1>5
<1>q. QED BY <1>6 DEF m, n

\* One of a set of directives stands in a ledger when there is a copy.
LEMMA SaysCopies ==
    ASSUME NEW ledger \in Ledger, NEW D
    PROVE  /\ CopiesAmong(ledger, D) \in Nat
           /\ (\E e \in Placed(ledger) : e.says \in D) <=> CopiesAmong(ledger, D) # 0
<1> DEFINE S == {e \in Placed(ledger) : e.says \in D}
<1>1. IsFiniteSet(Placed(ledger))  BY PlacedShape
<1>2. S \in SUBSET Placed(ledger)  OBVIOUS
<1>3. (\E e \in Placed(ledger) : e.says \in D) <=> S # {}  OBVIOUS
<1> HIDE DEF S
<1>4. IsFiniteSet(S)  BY <1>1, <1>2, FS_Subset
<1>5. Cardinality(S) \in Nat /\ (Cardinality(S) = 0 <=> S = {})
  BY <1>4, FS_EmptySet, FS_CardinalityType
<1>q. QED BY <1>3, <1>5 DEF CopiesAmong, S

-----------------------------------------------------------------------------
(* What an edit adds and removes.                                          *)

\* What one edit takes out, and what it writes.
RemovedBy(edit, D) == IF edit.kind \in {"replace", "delete"} THEN One(edit.old.directive, D) ELSE 0
AddedBy(edit, D) == Times(Written(edit), Len(Written(edit)), D)

\* Where a text is struck, and on the line of no directive below it, one directive
\* begins.
LEMMA CountStruck ==
    ASSUME NEW lines \in Seq(Line), NEW text \in Text, NEW x, NEW k, Struck(lines, x, text, k),
           NEW b \in {k + Size(text) - 1, k + Size(text)}, b <= Len(lines),
           b = k + Size(text) => lines[b] \in Loose, NEW D
    PROVE  Count(lines, D, k, b) = One(x, D)
<1> DEFINE n == Len(lines)
           z == Size(text)
<1>1. n \in Nat /\ z \in Nat /\ z >= 3 /\ k \in 1 .. n /\ Height(x) = 3
  BY LenProperties, TextShape, StruckShape
<1>2. /\ HasBlock(lines, x, k) /\ b \in {k + z - 1, k + z} /\ b <= n
      /\ \A i \in k + 3 .. k + z - 1 : lines[i] \in {Note, Meta}
      /\ b = k + z => lines[b] \in Loose
  BY DEF Struck
<1> HIDE DEF n, z
<1>3. \A i \in (k + 2) + 1 .. b : lines[i] \in Loose
  <2> SUFFICES ASSUME NEW i \in (k + 2) + 1 .. b PROVE lines[i] \in Loose  OBVIOUS
  <2>1. i \in k + 3 .. k + z - 1 \/ (i = b /\ b = k + z)  BY <1>1, <1>2
  <2>2. Note \in Loose /\ Meta \in Loose  BY LineShape
  <2>q. QED BY <2>1, <2>2, <1>2
<1>4. Count(lines, D, k, k + 2) = One(x, D)
  <2>1. k + 3 - 1 = k + 2  BY <1>1
  <2>2. Count(lines, D, k, k + 3 - 1) = One(x, D)  BY <1>1, <1>2, CountBlock
  <2>q. QED BY <2>1, <2>2
<1>5. /\ k \in Int /\ b \in Int /\ k + 2 \in Int /\ (k + 2) + 1 \in Int
      /\ k <= (k + 2) + 1 /\ k + 2 <= b
  BY <1>1, <1>2
<1>6. Count(lines, D, (k + 2) + 1, b) = 0  BY <1>3, <1>5, CountLoose
<1>7. Count(lines, D, k, b) = Count(lines, D, k, k + 2) + Count(lines, D, (k + 2) + 1, b)
  BY <1>5, CountSplit
<1>8. One(x, D) + 0 = One(x, D)  BY DEF One
<1>q. QED BY <1>4, <1>6, <1>7, <1>8

\* An append adds its directives, each as often as it has it.
LEMMA AppendPlaces ==
    ASSUME NEW ledger, Sound(ledger), NEW edit, IsAppend(edit), edit.says \in Seq(Directive),
           NEW after, after = Edited(ledger, edit)
    PROVE  /\ ledger \in Ledger /\ after \in Ledger
           /\ \A p \in Path : after[p].opens = ledger[p].opens
           /\ Placed(ledger) \subseteq Placed(after)
           /\ \A D : /\ CopiesAmong(after, D) = CopiesAmong(ledger, D) + Times(edit.says, Len(edit.says), D)
                     /\ Times(edit.says, Len(edit.says), D) \in Nat
<1> DEFINE N(l, p, D) == Count(l[p].lines, D, 1, Len(l[p].lines))
           file == ledger[MonthPath]
           text == TextOf(edit.says)
           new  == Appended(file, text)
           n    == Len(file.lines)
<1>1. ledger \in Ledger /\ after \in Ledger
  <2>1. EditOK(edit) /\ EditPossible(ledger, edit)  BY DEF EditOK, EditPossible, IsAppend
  <2>q. QED BY <2>1, EditSound DEF Sound
<1>2. \A p \in Path : \A D : N(ledger, p, D) \in Nat /\ N(after, p, D) \in Nat
  <2> HIDE DEF file, new
  <2>q. QED BY <1>1, CopiesSplit
<1>3. file \in File /\ MonthPath \in Path  BY <1>1, WrittenFiles, LedgerFiles
<1>4. text \in Seq(Line) /\ Whole(text)  BY TextWhole
<1>5. after = [ledger EXCEPT ![MonthPath] = new]  BY DEF Edited, IsAppend
<1> HIDE DEF file, text
<1>6. PICK mid \in {text, Below(text)} : Changed(file, new, n, n, mid)
  BY <1>3, <1>4, AppendedIs
<1>7. new \in File /\ new.opens = file.opens /\ Spliced(file.lines, n, n, mid, new.lines)
  <2> HIDE DEF new
  <2>q. QED BY <1>6 DEF Changed
<1> HIDE DEF new
<1>8. after[MonthPath] = new /\ \A q \in Path \ {MonthPath} : after[q] = ledger[q]
  BY <1>1, <1>3, <1>5 DEF Ledger
<1>9. \A p \in Path : after[p].opens = ledger[p].opens  BY <1>7, <1>8 DEF file
<1>10. file.lines \in Seq(Line) /\ n \in Nat  BY <1>3, FileShape
<1>11. ASSUME NEW D
       PROVE  /\ CopiesAmong(after, D) = CopiesAmong(ledger, D) + Times(edit.says, Len(edit.says), D)
              /\ Times(edit.says, Len(edit.says), D) \in Nat
  <2>1. Count(mid, D, 1, Len(mid)) = Times(edit.says, Len(edit.says), D)
    <3>1. Count(text, D, 1, Len(text)) = Times(edit.says, Len(edit.says), D)
      BY CountText DEF text
    <3>q. QED BY <1>4, <1>6, <3>1, CountBelow
  <2>2. Count(file.lines, D, n + 1, n) = 0
    <3> HIDE DEF n
    <3>1. n + 1 \in Int /\ n \in Int /\ n < n + 1  BY <1>10
    <3>q. QED BY <3>1, CountType
  <2> HIDE DEF n
  <2>3. Count(new.lines, D, 1, Len(new.lines))
          = Count(file.lines, D, 1, Len(file.lines)) - Count(file.lines, D, n + 1, n)
              + Count(mid, D, 1, Len(mid))
    BY <1>7, <1>10, CountSpliced
  <2>4. CopiesAmong(after, D) = CopiesAmong(ledger, D) - N(ledger, MonthPath, D) + N(after, MonthPath, D)
    <3>1. \A q \in Path \ {MonthPath} : after[q].lines = ledger[q].lines  BY <1>8
    <3> HIDE DEF N
    <3>q. QED BY <1>1, <1>3, <3>1, CopiesDiffer DEF N
  <2>5. Times(edit.says, Len(edit.says), D) \in Nat  BY LenProperties, TimesGrow
  <2>6. N(after, MonthPath, D) = N(ledger, MonthPath, D) - 0 + Times(edit.says, Len(edit.says), D)
    BY <1>8, <2>1, <2>2, <2>3 DEF file
  <2>7. CopiesAmong(ledger, D) \in Nat /\ N(ledger, MonthPath, D) \in Nat
    BY <1>1, <1>2, <1>3, SaysCopies
  <2> DEFINE x == N(ledger, MonthPath, D)
             y == N(after, MonthPath, D)
             t == Times(edit.says, Len(edit.says), D)
             was == CopiesAmong(ledger, D)
             is  == CopiesAmong(after, D)
  <2>8. is = was - x + y /\ y = x - 0 + t /\ was \in Nat /\ x \in Nat /\ t \in Nat
    BY <2>4, <2>5, <2>6, <2>7
  <2> HIDE DEF x, y, t, was, is
  <2>9. is = was + t /\ t \in Nat  BY <2>8
  <2>q. QED BY <2>9 DEF is, was, t
<1>12. ASSUME NEW e \in Placed(ledger) PROVE e \in Placed(after)
  <2>1. /\ e.path \in Path /\ e.line \in 1 .. Len(ledger[e.path].lines)
        /\ ledger[e.path].lines[e.line] = <<e.says, 1>> /\ e = Entry(e.path, e.line, e.says)
    BY <1>1, PlacedShape
  <2>2. /\ e.line \in 1 .. Len(after[e.path].lines)
        /\ after[e.path].lines[e.line] = <<e.says, 1>>
    <3>1. CASE e.path # MonthPath  BY <1>8, <2>1, <3>1
    <3>2. CASE e.path = MonthPath
      <4> DEFINE k == e.line
                 l == Len(new.lines)
                 m == Len(mid)
      <4>1. k \in 1 .. n /\ file.lines[k] = <<e.says, 1>>  BY <2>1, <3>2 DEF file
      <4>2. l = n + m - (n - n) /\ m \in Nat /\ \A i \in 1 .. n : new.lines[i] = file.lines[i]
        BY <1>7, LenProperties DEF Spliced
      <4>3. new.lines[k] = <<e.says, 1>>  BY <4>1, <4>2
      <4> HIDE DEF k, l, m, n
      <4>4. k \in 1 .. l  BY <1>10, <4>1, <4>2
      <4>q. QED BY <1>8, <3>2, <4>3, <4>4 DEF k, l
    <3>q. QED BY <3>1, <3>2
  <2>3. Entry(e.path, e.line, e.says) \in Placed(after)  BY <1>1, <2>1, <2>2, PlacedShape
  <2>q. QED BY <2>1, <2>3
<1>q. QED BY <1>1, <1>9, <1>11, <1>12

\* An edit that leaves a ledger that parses takes out one copy of the directive it
\* names, adds those it writes, and changes nothing else, comments aside.
LEMMA EditedCount ==
    ASSUME NEW ledger \in Ledger, NEW edit, EditOK(edit), EditPossible(ledger, edit),
           NEW D, Blind(D), Sound(ledger), Parses(Edited(ledger, edit))
    PROVE  /\ CopiesAmong(Edited(ledger, edit), D)
                  = CopiesAmong(ledger, D) - RemovedBy(edit, D) + AddedBy(edit, D)
           /\ RemovedBy(edit, D) \in Nat /\ AddedBy(edit, D) \in Nat
<1> DEFINE after == Edited(ledger, edit)
           N(l, p) == Count(l[p].lines, D, 1, Len(l[p].lines))
<1>1. after \in Ledger  BY EditSound DEF Sound
<1>2. \A p \in Path : N(ledger, p) \in Nat /\ N(after, p) \in Nat
  <2> HIDE DEF after
  <2>q. QED BY <1>1, CopiesSplit
<1>3. RemovedBy(edit, D) \in Nat  BY DEF RemovedBy, One
<1>4. CASE IsAppend(edit) /\ edit.says \in Seq(Directive)
  <2>1. RemovedBy(edit, D) = 0 /\ AddedBy(edit, D) = Times(edit.says, Len(edit.says), D)
    BY <1>4 DEF RemovedBy, AddedBy, Written, IsAppend
  <2>2. /\ CopiesAmong(after, D) = CopiesAmong(ledger, D) + Times(edit.says, Len(edit.says), D)
        /\ Times(edit.says, Len(edit.says), D) \in Nat
    <3> HIDE DEF after
    <3>q. QED BY <1>4, AppendPlaces DEF after
  <2>3. CopiesAmong(ledger, D) \in Nat  BY SaysCopies
  <2>q. QED BY <2>1, <2>2, <2>3
<1>5. CASE edit.kind = "open" /\ edit.opens \in Opening
  <2> DEFINE new == [ledger EXCEPT ![MainPath].opens = @ \cup {edit.opens}]
  <2>1. after = new  BY <1>5 DEF Edited, IsAppend
  <2>2. MainPath \in Path  BY WrittenFiles
  <2>3. \A q \in Path : new[q].lines = ledger[q].lines  BY <1>5, <2>2, OpenedIs
  <2> HIDE DEF new, after
  <2>4. CopiesAmong(after, D) = CopiesAmong(ledger, D) - N(ledger, MainPath) + N(after, MainPath)
    <3> HIDE DEF N
    <3>q. QED BY <1>1, <2>1, <2>2, <2>3, CopiesDiffer DEF N
  <2>5. N(after, MainPath) = N(ledger, MainPath)  BY <2>1, <2>2, <2>3
  <2>6. RemovedBy(edit, D) = 0 /\ AddedBy(edit, D) = Times(<<>>, 0, D)
    BY <1>5 DEF RemovedBy, AddedBy, Written, IsAppend
  <2>7. Times(<<>>, 0, D) = 0  BY TimesGrow
  <2>8. CopiesAmong(ledger, D) \in Nat /\ N(ledger, MainPath) \in Nat
    BY <1>2, <2>2, SaysCopies
  <2> HIDE DEF N
  <2>q. QED BY <2>4, <2>5, <2>6, <2>7, <2>8 DEF after
<1>6. ASSUME edit.kind \in {"replace", "delete"}, edit.path \in Path, edit.old \in Text,
             NEW new, new \in File, after = [ledger EXCEPT ![edit.path] = new],
             NEW x, NEW k, NEW b, NEW mid,
             Struck(ledger[edit.path].lines, x, edit.old, k),
             b \in {k + Size(edit.old) - 1, k + Size(edit.old)},
             b <= Len(ledger[edit.path].lines),
             b = k + Size(edit.old) => ledger[edit.path].lines[b] \in Loose,
             Spliced(ledger[edit.path].lines, k - 1, b, mid, new.lines),
             Count(mid, D, 1, Len(mid)) = AddedBy(edit, D), AddedBy(edit, D) \in Nat
      PROVE  CopiesAmong(after, D) = CopiesAmong(ledger, D) - RemovedBy(edit, D) + AddedBy(edit, D)
  <2> DEFINE p == edit.path
             s == ledger[edit.path].lines
  <2> HIDE DEF after
  <2>1. after[p] = new /\ \A q \in Path \ {p} : after[q].lines = ledger[q].lines
    BY <1>6 DEF Ledger
  <2>2. CopiesAmong(after, D) = CopiesAmong(ledger, D) - N(ledger, p) + N(after, p)
    <3>1. p \in Path  BY <1>6
    <3> HIDE DEF N, p
    <3>q. QED BY <1>1, <2>1, <3>1, CopiesDiffer DEF N
  <2>3. s \in Seq(Line)  BY <1>6, LedgerFiles
  <2>4. Count(s, D, k, b) = One(x, D)  BY <1>6, <2>3, CountStruck
  <2>5. One(x, D) = RemovedBy(edit, D)
    <3>1. x \in Transaction /\ Plain(x) = Plain(edit.old.directive)  BY <1>6, <2>3, StruckShape
    <3>2. x \in Directive /\ edit.old.directive \in Directive
      BY <1>6, <3>1, TextShape, CommentedShape
    <3>3. x \in D <=> edit.old.directive \in D  BY <3>1, <3>2 DEF Blind
    <3>q. QED BY <1>6, <3>3 DEF RemovedBy, One
  <2>6. (k - 1) + 1 = k
    <3>1. k \in 1 .. Len(s) /\ Len(s) \in Nat  BY <1>6, <2>3, StruckShape, LenProperties
    <3>q. QED BY <3>1
  <2>7. Count(new.lines, D, 1, Len(new.lines))
          = Count(s, D, 1, Len(s)) - Count(s, D, (k - 1) + 1, b) + Count(mid, D, 1, Len(mid))
    BY <1>6, <2>3, CountSpliced
  <2>8. N(after, p) = N(ledger, p) - RemovedBy(edit, D) + AddedBy(edit, D)
    BY <1>6, <2>1, <2>4, <2>5, <2>6, <2>7
  <2>9. CopiesAmong(ledger, D) \in Nat /\ N(ledger, p) \in Nat  BY <1>2, <1>6, SaysCopies
  <2> HIDE DEF N
  <2>q. QED BY <1>3, <1>6, <2>2, <2>8, <2>9
<1>7. CASE /\ edit.kind = "replace" /\ edit.path \in Path
           /\ edit.old \in Text /\ edit.new \in Transaction
  <2> DEFINE file == ledger[edit.path]
             new  == Replaced(file, edit.old, edit.new)
             k    == FirstOf(Occurrences(file, edit.old))
  <2>1. file \in File /\ file.lines \in Seq(Line)  BY <1>7, LedgerFiles
  <2>2. Occurrences(file, edit.old) # {}  BY <1>7 DEF EditPossible
  <2>3. after = [ledger EXCEPT ![edit.path] = new]  BY <1>7 DEF Edited, IsAppend
  <2>4. /\ new \in File
        /\ ~Torn(new.lines) => Renewed(file, edit.old, edit.new, k, new)
    BY <1>7, <2>1, <2>2, ReplacedMade
  <2> HIDE DEF after, new, file, k
  <2>5. ~Torn(new.lines)
    <3>1. after[edit.path] = new  BY <1>7, <2>3 DEF Ledger
    <3>2. Parses(after)  BY DEF after
    <3>q. QED BY <1>1, <1>7, <3>1, <3>2, LedgerFiles
  <2>6. PICK x, y, b : RenewedBy(file, edit.old, edit.new, k, new, x, y, b)
    BY <2>4, <2>5 DEF Renewed
  <2>7. /\ Struck(file.lines, x, edit.old, k) /\ b <= Len(file.lines)
        /\ b \in {k + Size(edit.old) - 1, k + Size(edit.old)}
        /\ b = k + Size(edit.old) => file.lines[b] \in Loose
        /\ Spliced(file.lines, k - 1, b, LinesOf(y), new.lines)
    BY <2>6 DEF RenewedBy, Changed
  <2>8. y \in Transaction /\ Plain(y) = Plain(edit.new)
    BY <1>7, <2>1, <2>6, RenewedShape
  <2>9. AddedBy(edit, D) = One(edit.new, D) /\ AddedBy(edit, D) \in Nat
    <3> DEFINE w == <<edit.new>>
    <3>1. Written(edit) = w /\ Len(w) = 1 /\ w[1] = edit.new
      BY <1>7 DEF Written, IsAppend
    <3> HIDE DEF w
    <3>2. Times(w, 0, D) = 0 /\ Times(w, 0 + 1, D) = Times(w, 0, D) + One(w[0 + 1], D)
      BY TimesGrow
    <3>3. 0 + 1 = 1 /\ One(edit.new, D) \in Nat  BY DEF One
    <3>4. Times(w, 1, D) = 0 + One(edit.new, D)  BY <3>1, <3>2, <3>3
    <3>5. Times(w, 1, D) = One(edit.new, D)  BY <3>3, <3>4
    <3>q. QED BY <3>1, <3>3, <3>5 DEF AddedBy
  <2>10. Count(LinesOf(y), D, 1, Len(LinesOf(y))) = AddedBy(edit, D)
    <3>1. y \in Directive /\ edit.new \in Directive  BY <1>7, <2>8, CommentedShape
    <3>2. Count(LinesOf(y), D, 1, Len(LinesOf(y))) = One(y, D)  BY <3>1, CountLines
    <3>3. y \in D <=> edit.new \in D  BY <2>8, <3>1 DEF Blind
    <3>q. QED BY <2>9, <3>2, <3>3 DEF One
  <2> HIDE DEF N
  <2>q. QED BY <1>3, <1>6, <1>7, <2>3, <2>4, <2>7, <2>9, <2>10 DEF file, after
<1>8. CASE /\ edit.kind = "delete" /\ edit.path \in Path
           /\ edit.old \in Text /\ edit.start \in Nat
  <2> DEFINE file == ledger[edit.path]
             new  == Deleted(file, edit.old, edit.start)
             k    == edit.start
             last == k + Size(edit.old) - 1
  <2>1. file \in File /\ file.lines \in Seq(Line) /\ DOMAIN file.lines = 1 .. Len(file.lines)
    BY <1>8, LedgerFiles, FileShape
  <2>2. Bears(file.lines, edit.old, k)  BY <1>8, <2>1, BearsIs DEF EditPossible, StandsAt
  <2>3. after = [ledger EXCEPT ![edit.path] = new]  BY <1>8 DEF Edited, IsAppend
  <2> HIDE DEF file
  <2>4. Struck(file.lines, edit.old.directive, edit.old, k)  BY <1>8, <2>1, <2>2, BearsStruck
  <2>5. Changed(file, new, k - 1, last, <<>>)  BY <1>8, <2>1, <2>2, DeletedIs
  <2> HIDE DEF after, new, k
  <2>6. new \in File /\ Spliced(file.lines, k - 1, last, <<>>, new.lines)  BY <2>5 DEF Changed
  <2>7. last <= Len(file.lines) /\ last # k + Size(edit.old)
    <3>1. /\ k \in 1 .. Len(file.lines) /\ last \in 1 .. Len(file.lines)
          /\ Len(file.lines) \in Nat /\ Size(edit.old) \in Nat
      BY <1>8, <2>1, <2>2, TextShape, LenProperties DEF Bears
    <3>q. QED BY <3>1
  <2>8. AddedBy(edit, D) = 0
    <3>1. Written(edit) = <<>> /\ Len(<<>>) = 0  BY <1>8 DEF Written, IsAppend
    <3>2. Times(<<>>, 0, D) = 0  BY TimesGrow
    <3>q. QED BY <3>1, <3>2 DEF AddedBy
  <2>9. Count(<<>>, D, 1, Len(<<>>)) = 0
    <3>1. Len(<<>>) = 0 /\ 1 \in Int /\ 0 \in Int /\ 0 < 1  OBVIOUS
    <3>q. QED BY <3>1, CountType
  <2>10. Count(<<>>, D, 1, Len(<<>>)) = AddedBy(edit, D) /\ AddedBy(edit, D) \in Nat
    BY <2>8, <2>9
  <2>11. last \in {k + Size(edit.old) - 1, k + Size(edit.old)}  OBVIOUS
  <2> HIDE DEF last, N
  <2>q. QED BY <1>3, <1>6, <1>8, <2>3, <2>4, <2>6, <2>7, <2>10, <2>11 DEF file, after
<1>q. QED BY <1>4, <1>5, <1>7, <1>8 DEF EditOK

\* So for each directive: one copy less of what the edit names, and one more of what
\* it writes.
THEOREM EditedCopies ==
    ASSUME NEW ledger \in Ledger, NEW edit, EditOK(edit), EditPossible(ledger, edit), NEW d,
           Sound(ledger), Parses(Edited(ledger, edit))
    PROVE  /\ Copies(Edited(ledger, edit), d)
                  = Copies(ledger, d) - RemovedBy(edit, Alike(d)) + AddedBy(edit, Alike(d))
           /\ RemovedBy(edit, Alike(d)) \in Nat /\ AddedBy(edit, Alike(d)) \in Nat
<1>1. Edited(ledger, edit) \in Ledger  BY EditSound DEF Sound
<1>2. /\ Copies(ledger, d) = CopiesAmong(ledger, Alike(d))
      /\ Copies(Edited(ledger, edit), d) = CopiesAmong(Edited(ledger, edit), Alike(d))
      /\ Blind(Alike(d))
  BY <1>1, AlikeCopies
<1>q. QED BY <1>2, EditedCount

-----------------------------------------------------------------------------
(* What a ledger shows, and the operations there are.                      *)

\* The shapes of references, operations and edits.
Reference ==
    [path : Path, start : Nat \ {0}, occurrence : Nat,
     identity : [says : Transaction, meta : BOOLEAN]]

Operation ==
    Request
        \cup [kind : {"delete"}, ref : Reference, text : Text]
        \cup [kind : {"update"}, ref : Reference, text : Text, new : Transaction]

Edit ==
    [kind : {"append", "close", "price"}, says : Seq(Directive)]
        \cup [kind : {"open"}, opens : Opening]
        \cup [kind : {"replace"}, path : Path, old : Text, new : Transaction]
        \cup [kind : {"delete"}, path : Path, old : Text, start : Nat \ {0}]

\* Edits have the shapes the lemmas above are about.
LEMMA EditsAreOK == \A e \in Edit : EditOK(e)
  BY DEF Edit, EditOK, IsAppend

\* A directive of the kind txn is a transaction.
LEMMA KindOf ==
    /\ \A d \in Directive : d.kind = "txn" => d \in Transaction
    /\ \A d \in Transaction :
          /\ d \in Directive /\ d.kind = "txn" /\ d.note \in BOOLEAN /\ d.date \in Int
          /\ d.amount \in Int
          /\ [d EXCEPT !.note = FALSE] \in Transaction /\ [d EXCEPT !.note = TRUE] \in Transaction
<1>1. ASSUME NEW d \in Directive, d.kind = "txn" PROVE d \in Transaction
  BY <1>1 DEF Directive, Price
<1>2. ASSUME NEW d \in Transaction
      PROVE  /\ d \in Directive /\ d.kind = "txn" /\ d.note \in BOOLEAN /\ d.date \in Int
             /\ d.amount \in Int
             /\ [d EXCEPT !.note = FALSE] \in Transaction
             /\ [d EXCEPT !.note = TRUE] \in Transaction
  <2>1. d \in Directive  BY DEF Directive
  <2>2. d.kind = "txn" /\ d.date \in Int /\ d.amount \in Int  BY DEF Transaction
  <2>3. d.note \in BOOLEAN  BY DEF Transaction
  <2>4. [d EXCEPT !.note = FALSE] \in Transaction  BY DEF Transaction
  <2>5. [d EXCEPT !.note = TRUE] \in Transaction  BY DEF Transaction
  <2>q. QED BY <2>1, <2>2, <2>3, <2>4, <2>5
<1>q. QED BY <1>1, <1>2

\* A sequence of some set whose elements are in another is a sequence of that.
LEMMA Narrowed ==
    ASSUME NEW S, NEW T, NEW s \in Seq(S), \A i \in 1 .. Len(s) : s[i] \in T
    PROVE  s \in Seq(T)
<1>1. Len(s) \in Nat /\ s \in [1 .. Len(s) -> S]  BY LenProperties
<1>2. s = [i \in 1 .. Len(s) |-> s[i]]  BY <1>1
<1>3. s \in [1 .. Len(s) -> T]  BY <1>2
<1>q. QED BY <1>1, <1>3, SeqDef

\* What is below the header and postings of a transaction.
LEMMA CutFrom ==
    ASSUME NEW s \in Seq(Line), NEW k \in Int, NEW e \in Int, k >= 1, k + 2 <= e, e <= Len(s)
    PROVE  /\ SubSeq(s, k + 3, e) \in Seq(Line)
           /\ Len(SubSeq(s, k + 3, e)) = e - k - 2
           /\ \A i \in 1 .. e - k - 2 : SubSeq(s, k + 3, e)[i] = s[k + 2 + i]
<1> DEFINE m == k + 3
           n == Len(s)
<1>1. n \in Nat  BY LenProperties
<1>2. m \in Nat \ {0} /\ e \in 0 .. n /\ m <= e + 1 /\ e - m + 1 = e - k - 2  BY <1>1
<1>3. \A i \in Int : m + i - 1 = k + 2 + i  OBVIOUS
<1> HIDE DEF m
<1>4. /\ SubSeq(s, m, e) \in Seq(Line) /\ Len(SubSeq(s, m, e)) = e - m + 1
      /\ \A i \in 1 .. e - m + 1 : SubSeq(s, m, e)[i] = s[m + i - 1]
  BY <1>2, Cut
<1>5. ASSUME NEW i \in 1 .. e - m + 1 PROVE SubSeq(s, m, e)[i] = s[k + 2 + i]
  <2>1. m + i - 1 = k + 2 + i  BY <1>3
  <2>q. QED BY <2>1, <1>4, Zenon
<1> DEFINE part == SubSeq(s, m, e)
           c == e - m + 1
<1>6. c = e - k - 2 /\ part \in Seq(Line) /\ Len(part) = c /\ \A i \in 1 .. c : part[i] = s[k + 2 + i]
  BY <1>2, <1>4, <1>5
<1> HIDE DEF part, c
<1>7. /\ part \in Seq(Line) /\ Len(part) = e - k - 2
      /\ \A i \in 1 .. e - k - 2 : part[i] = s[k + 2 + i]
  BY <1>6, Zenon
<1>q. QED BY <1>7 DEF part, m

\* The text at a header of whole lines is the transaction that begins there, with
\* what is below it, and it stands there.
LEMMA TextAtHeader ==
    ASSUME NEW file \in File, Whole(file.lines), NEW k \in Headers(file)
    PROVE  LET text == TextAt(file, k)
               last == EndOf(file, k)
           IN  /\ text \in Text
               /\ text.directive = file.lines[k][1]
               /\ k \in 1 .. Len(file.lines) /\ k \in Nat \ {0}
               /\ last = k + Size(text) - 1 /\ last \in k + 2 .. Len(file.lines)
               /\ text.ended = (last < Len(file.lines) \/ file.ended)
               /\ Bears(file.lines, text, k)
               /\ StandsAt(file, text, k) /\ OccursAt(file, text, k)
<1> DEFINE text == TextAt(file, k)
           s == file.lines
           d == s[k][1]
           n == Len(s)
           e == EndOf(file, k)
           tail == SubSeq(s, k + 3, e)
<1>1. s \in Seq(Line) /\ n \in Nat /\ file.ended \in BOOLEAN  BY FileShape
<1>2. /\ k \in 1 .. n /\ d \in Transaction /\ HasBlock(s, d, k) /\ e \in k + 2 .. n
      /\ \A i \in k + 3 .. e : s[i] \in {Note, Meta}
  BY <1>1, EndOfBlock
<1>3. Height(d) = 3  BY <1>2, CommentedShape
<1>4. text = [directive |-> d, tail |-> tail, ended |-> e < n \/ file.ended]
  BY <1>3 DEF TextAt
<1>5. \A i \in 1 .. 3 : s[k + i - 1] = <<d, i>>  BY <1>2, <1>3 DEF HasBlock
<1> HIDE DEF text, n, e, d
<1>6. e \in Int /\ k \in Int /\ k >= 1 /\ k + 2 <= e /\ e <= n  BY <1>1, <1>2
<1>7. /\ tail \in Seq(Line) /\ Len(tail) = e - k - 2
      /\ \A i \in 1 .. Len(tail) : tail[i] = s[k + 2 + i]
  <2> HIDE DEF s
  <2>1. /\ SubSeq(s, k + 3, e) \in Seq(Line) /\ Len(SubSeq(s, k + 3, e)) = e - k - 2
        /\ \A i \in 1 .. e - k - 2 : SubSeq(s, k + 3, e)[i] = s[k + 2 + i]
    BY <1>1, <1>6, CutFrom DEF n
  <2>2. Len(tail) = e - k - 2 /\ tail \in Seq(Line)  BY <2>1
  <2>q. QED BY <2>1, <2>2, Zenon DEF tail
<1> HIDE DEF tail
<1>8. tail \in Seq({Note, Meta})
  <2>1. ASSUME NEW i \in 1 .. Len(tail) PROVE tail[i] \in {Note, Meta}
    <3>0. Len(tail) = e - k - 2 /\ k \in Int /\ e \in Int  BY <1>1, <1>2, <1>7
    <3>1. k + 2 + i \in k + 3 .. e
      <4> DEFINE l == Len(tail)
      <4> HIDE DEF l
      <4>1. i \in 1 .. l /\ l = e - k - 2  BY <3>0 DEF l
      <4>q. QED BY <4>1, <3>0
    <3>q. QED BY <3>1, <1>2, <1>7
  <2>2. tail \in Seq(Line)  BY <1>7
  <2>q. QED BY <2>1, <2>2, Narrowed
<1>9. text \in Text
  <2>1. (e < n \/ file.ended) \in BOOLEAN  BY <1>1
  <2>q. QED BY <1>2, <1>4, <1>8, <2>1 DEF Text
<1>10. text.directive = d /\ text.tail = tail /\ text.ended = (e < n \/ file.ended)
  BY <1>4
<1>11. e = k + Size(text) - 1
  <2> DEFINE l == Len(tail)
             z == Size(text)
  <2>1. z = 3 + l  BY <1>9, <1>10, TextShape
  <2>2. l = e - k - 2 /\ e \in Int /\ k \in Int  BY <1>1, <1>2, <1>7
  <2> HIDE DEF l, z
  <2>3. e = k + z - 1  BY <2>1, <2>2
  <2>q. QED BY <2>3 DEF z
<1>12. Bears(s, text, k)
  <2>1. k + Size(text) - 1 \in 1 .. n  BY <1>1, <1>2, <1>11
  <2>q. QED BY <2>1, <1>2, <1>5, <1>7, <1>10 DEF Bears, n
<1>13. k + Size(text) - 1 <= n /\ LinesFrom(file, text, k) = TextLines(text)
  <2>1. k \in 1 .. Len(file.lines)  BY <1>2 DEF n
  <2>2. Bears(file.lines, text, k)  BY <1>12
  <2>q. QED BY <1>1, <1>9, <2>1, <2>2, BearsIs DEF n
<1>14. StandsAt(file, text, k) /\ OccursAt(file, text, k)
  <2>1. text.ended = (k + Size(text) - 1 < Len(file.lines) \/ file.ended)
    BY <1>10, <1>11 DEF n
  <2>q. QED BY <1>13, <2>1 DEF StandsAt, OccursAt, n
<1>15. k \in Nat \ {0}  BY <1>1, <1>2
<1>q. QED BY <1>2, <1>9, <1>10, <1>11, <1>12, <1>14, <1>15 DEF text, d, e, n

\* What a transaction is known by.
LEMMA IdentityShape ==
    ASSUME NEW text \in Text
    PROVE  Identity(text) \in [says : Transaction, meta : BOOLEAN]
<1> DEFINE says == Plain(text.directive)
           meta == (Meta \in ToSet(text.tail))
<1>1. says \in Transaction  BY TextShape, CommentedShape
<1>2. meta \in BOOLEAN
  <2> DEFINE all == ToSet(text.tail)
  <2> HIDE DEF all
  <2>1. (Meta \in all) = TRUE \/ (Meta \in all) = FALSE  OBVIOUS
  <2>q. QED BY <2>1 DEF all
<1>3. Identity(text) = [says |-> says, meta |-> meta]  BY Zenon DEF Identity
<1> HIDE DEF says, meta
<1>q. QED BY <1>1, <1>2, <1>3

\* The number of a transaction in its file.
LEMMA OccurrenceType ==
    ASSUME NEW file \in File, NEW k
    PROVE  Occurrence(file, k) \in Nat
<1> DEFINE S == {j \in Headers(file) :
                    \/ file.lines[j][1].date < file.lines[k][1].date
                    \/ file.lines[j][1].date = file.lines[k][1].date /\ j <= k}
<1>1. Len(file.lines) \in Nat /\ DOMAIN file.lines = 1 .. Len(file.lines)  BY FileShape
<1>2. IsFiniteSet(1 .. Len(file.lines))
  <2> DEFINE n == Len(file.lines)
  <2>1. n \in Int /\ 1 \in Int  BY <1>1
  <2> HIDE DEF n
  <2>2. IsFiniteSet(1 .. n)  BY <2>1, FS_Interval
  <2>q. QED BY <2>2 DEF n
<1>3. S \subseteq 1 .. Len(file.lines)  BY <1>1 DEF Headers
<1>4. IsFiniteSet(S)  BY <1>2, <1>3, FS_Subset
<1>5. Cardinality(S) \in Nat  BY <1>4, FS_CardinalityType
<1>q. QED BY <1>5 DEF Occurrence

\* The entries of an index.
LEMMA IndexShape ==
    ASSUME NEW ledger \in WholeLedger, NEW e \in IndexOf(ledger)
    PROVE  LET p == e.ref.path
               k == e.ref.start
           IN  /\ e.ref \in Reference /\ p \in Path /\ k \in Headers(ledger[p])
               /\ e.ref = Ref(ledger, p, k)
               /\ e.text = TextAt(ledger[p], k) /\ e.end = EndOf(ledger[p], k)
<1>1. ledger \in Ledger /\ \A p \in Path : Whole(ledger[p].lines)  BY DEF WholeLedger
<1>2. PICK p \in Path : e \in IndexOfFile(ledger, p)  BY DEF IndexOf
<1>3. PICK k \in Headers(ledger[p]) :
          e = [ref |-> Ref(ledger, p, k), text |-> TextAt(ledger[p], k),
               end |-> EndOf(ledger[p], k)]
  BY <1>2 DEF IndexOfFile
<1>4. /\ e.ref = Ref(ledger, p, k) /\ e.text = TextAt(ledger[p], k)
      /\ e.end = EndOf(ledger[p], k)
  BY <1>3
<1>5. e.ref.path = p /\ e.ref.start = k  BY <1>4 DEF Ref
<1>6. ledger[p] \in File  BY <1>1, LedgerFiles
<1>7. Occurrence(ledger[p], k) \in Nat  BY <1>6, OccurrenceType
<1>8. TextAt(ledger[p], k) \in Text /\ k \in Nat \ {0}  BY <1>1, <1>6, TextAtHeader
<1>9. Identity(TextAt(ledger[p], k)) \in [says : Transaction, meta : BOOLEAN]
  BY <1>8, IdentityShape
<1>10. Ref(ledger, p, k) \in Reference
  <2> DEFINE o == Occurrence(ledger[p], k)
             i == Identity(TextAt(ledger[p], k))
  <2>1. Ref(ledger, p, k) = [path |-> p, start |-> k, occurrence |-> o, identity |-> i]
    BY DEF Ref
  <2>2. o \in Nat /\ i \in [says : Transaction, meta : BOOLEAN]  BY <1>7, <1>9
  <2> HIDE DEF o, i
  <2>q. QED BY <1>8, <2>1, <2>2 DEF Reference
<1>q. QED BY <1>3, <1>4, <1>5, <1>10

-----------------------------------------------------------------------------
(* Balances.                                                               *)

\* What each transaction adds to a balance.
Weights(ledger, accounts, cur, before) ==
    [e \in Parts(ledger, cur, before) |-> Share(e.says, accounts)]

\* A balance is the sum of the shares of finitely many transactions.
LEMMA TotalShape ==
    ASSUME NEW ledger \in Ledger, NEW accounts, NEW cur, NEW before
    PROVE  LET S == Parts(ledger, cur, before)
               w == Weights(ledger, accounts, cur, before)
           IN  /\ IsFiniteSet(S) /\ w \in [S -> Int]
               /\ Total(ledger, accounts, cur, before) \in Int
               /\ \E h : /\ Summing(S, w, h)
                         /\ Total(ledger, accounts, cur, before) = h[S]
<1> DEFINE S == Parts(ledger, cur, before)
           w == Weights(ledger, accounts, cur, before)
<1>1. IsFiniteSet(S)
  <2>1. S \subseteq Placed(ledger)  BY DEF Parts, Transactions
  <2>q. QED BY <2>1, PlacedShape, FS_Subset
<1>2. w \in [S -> Int]
  <2>1. ASSUME NEW e \in S PROVE Share(e.says, accounts) \in Int
    <3>1. e \in Placed(ledger) /\ e.says.kind = "txn"  BY DEF Parts, Transactions
    <3>2. e.says \in Directive  BY <3>1, PlacedShape
    <3>3. e.says.amount \in Int  BY <3>1, <3>2, KindOf
    <3>q. QED BY <3>3 DEF Share
  <2>q. QED BY <2>1 DEF Weights
<1>3. w = [e \in Parts(ledger, cur, before) |-> Share(e.says, accounts)]  BY DEF Weights
<1> HIDE DEF w
<1>4. /\ Total(ledger, accounts, cur, before) \in Int
      /\ \E h : /\ Summing(S, w, h) /\ Total(ledger, accounts, cur, before) = h[S]
  BY <1>1, <1>2, <1>3, TotalIs
<1>q. QED BY <1>1, <1>2, <1>4 DEF w

\* Nothing sums to nothing.
LEMMA TotalOfNone ==
    ASSUME NEW ledger \in Ledger, NEW accounts, NEW cur, NEW before,
           Parts(ledger, cur, before) = {}
    PROVE  Total(ledger, accounts, cur, before) = 0
<1> DEFINE S == Parts(ledger, cur, before)
           w == Weights(ledger, accounts, cur, before)
<1>1. PICK h : Summing(S, w, h) /\ Total(ledger, accounts, cur, before) = h[S]
  BY TotalShape
<1>2. h[S] = 0
  <2> HIDE DEF w
  <2>1. S \in SUBSET S /\ S = {}  OBVIOUS
  <2> HIDE DEF S
  <2>q. QED BY <1>1, <2>1 DEF Summing, Recurs
<1>q. QED BY <1>1, <1>2

\* The balance a reconciliation starts from is the account's.
LEMMA CurrentIs ==
    ASSUME NEW ledger \in Ledger, NEW a, NEW date, NEW cur,
           NEW n \in CurrentAmount(ledger, a, date, cur)
    PROVE  n = Total(ledger, Under[a], cur, date) /\ n \in Int
<1> DEFINE total(c) == Total(ledger, Under[a], c, date)
           held == Inventory(ledger, Under[a], date)
           curs == {e.says.cur : e \in Transactions(ledger)}
<1>1. held = {i \in {[cur |-> c, number |-> total(c)] : c \in curs} : i.number # 0}
  BY DEF Inventory
<1>2. total(cur) \in Int  BY TotalShape
<1>3. CASE held = {}
  <2>1. n = 0  BY <1>3 DEF CurrentAmount
  <2>2. CASE cur \in curs
    <3> DEFINE i == [cur |-> cur, number |-> total(cur)]
    <3> HIDE DEF total, curs, held
    <3>1. i \notin held /\ i \in {[cur |-> c, number |-> total(c)] : c \in curs}
      BY <1>3, <2>2
    <3>2. i.number = 0  BY <1>1, <3>1
    <3>q. QED BY <2>1, <3>2, <1>2 DEF total
  <2>3. CASE cur \notin curs
    <3>1. Parts(ledger, cur, date) = {}  BY <2>3 DEF Parts
    <3>q. QED BY <2>1, <3>1, TotalOfNone
  <2>q. QED BY <2>2, <2>3
<1>4. CASE held # {}
  <2>1. PICK x \in held : x.cur = cur /\ n = x.number
    <3>1. n \in {i.number : i \in {x \in held : held = {x} /\ x.cur = cur}}
      BY <1>4 DEF CurrentAmount
    <3> HIDE DEF held
    <3>q. QED BY <3>1
  <2> HIDE DEF total, curs, held
  <2>2. PICK c \in curs : x = [cur |-> c, number |-> total(c)]  BY <1>1, <2>1
  <2>3. c = cur /\ x.number = total(cur)  BY <2>1, <2>2
  <2>q. QED BY <1>2, <2>1, <2>3 DEF total
<1>q. QED BY <1>3, <1>4

-----------------------------------------------------------------------------
(* What the policy allows can be done.                                     *)

\* What a reference names in a ledger that can be indexed.
LEMMA NamedShape ==
    ASSUME NEW ledger, Sound(ledger), NEW op, NamesCurrentRevision(ledger, op)
    PROVE  /\ BeanCheck(ledger) /\ ledger \in WholeLedger
           /\ op.ref.path \in SidecarPath /\ op.ref.path \in Path
           /\ op.ref.start \in Headers(ledger[op.ref.path])
           /\ op.text = TextAt(ledger[op.ref.path], op.ref.start)
<1>1. PICK e \in Named(ledger, op) : e.text = op.text /\ e.ref.path \in SidecarPath
  BY DEF NamesCurrentRevision
<1>2. BeanCheck(ledger) /\ e \in Resolves(IndexOf(ledger), op.ref)  BY <1>1 DEF Named
<1>3. e \in IndexOf(ledger) /\ e.ref = op.ref  BY <1>2 DEF Resolves
<1>4. ledger \in WholeLedger  BY <1>2, SoundIsWhole DEF BeanCheck
<1>q. QED BY <1>1, <1>2, <1>3, <1>4, IndexShape

\* An operation the policy allows becomes an edit that can be made.
LEMMA EditOfAllowed ==
    ASSUME NEW ledger, Sound(ledger), NEW op \in Operation, Allowed(ledger, op)
    PROVE  EditOf(ledger, op) \in Edit /\ EditPossible(ledger, EditOf(ledger, op))
<1> DEFINE edit == EditOf(ledger, op)
<1>1. ledger \in Ledger  BY DEF Sound
<1>2. ASSUME NEW date \in Int, NEW target \in Int, AdjustmentAllowed(ledger, op, date),
             op.account \in Account, op.other \in Account, op.cur \in Currency
      PROVE  Adjustment(ledger, op, date, target) \in Transaction
  <2> DEFINE n == CHOOSE n \in CurrentAmount(ledger, op.account, date, op.cur) : TRUE
  <2>1. n \in CurrentAmount(ledger, op.account, date, op.cur)  BY <1>2 DEF AdjustmentAllowed
  <2> HIDE DEF n
  <2>2. n \in Int  BY <1>1, <2>1, CurrentIs
  <2>3. target - n \in Int /\ date - 1 \in Int  BY <2>2
  <2>q. QED BY <1>2, <2>3 DEF Adjustment, Transaction, n
<1>3. CASE op \in [kind : {"create"}, txns : Seq(Transaction)]
  <2>1. op.kind = "create" /\ op.txns \in Seq(Transaction)  BY <1>3
  <2>2. op.txns \in Seq(Directive)
    <3>1. Transaction \subseteq Directive  BY KindOf
    <3>q. QED BY <2>1, <3>1
  <2>3. edit = [kind |-> "append", says |-> op.txns]  BY <2>1 DEF EditOf, Append1
  <2>q. QED BY <2>2, <2>3 DEF Edit, EditPossible
<1>4. CASE op \in [kind : {"open"}, account : Account, date : Int]
  <2>1. op.kind = "open" /\ op.account \in Account /\ op.date \in Int  BY <1>4
  <2>2. edit = [kind |-> "open", opens |-> [account |-> op.account, date |-> op.date]]
    BY <2>1 DEF EditOf
  <2>3. [account |-> op.account, date |-> op.date] \in Opening  BY <2>1 DEF Opening
  <2>q. QED BY <2>2, <2>3 DEF Edit, EditPossible
<1>5. CASE op \in [kind : {"close"}, account : Account, date : Int]
  <2>1. op.kind = "close" /\ op.account \in Account /\ op.date \in Int  BY <1>5
  <2> DEFINE d == [kind |-> "close", account |-> op.account, date |-> op.date]
  <2>2. edit = [kind |-> "close", says |-> <<d>>]  BY <2>1 DEF EditOf, Append1
  <2>3. d \in Directive  BY <2>1 DEF Directive
  <2> HIDE DEF d
  <2>4. <<d>> \in Seq(Directive)  BY <2>3, Tuple1
  <2>q. QED BY <2>2, <2>4 DEF Edit, EditPossible
<1>6. CASE op \in [kind : {"price"}, price : Price]
  <2>1. op.kind = "price" /\ op.price \in Price  BY <1>6
  <2>2. edit = [kind |-> "price", says |-> <<op.price>>]  BY <2>1 DEF EditOf, Append1
  <2>3. op.price \in Directive  BY <2>1 DEF Directive
  <2>4. <<op.price>> \in Seq(Directive)  BY <2>3, Tuple1
  <2>q. QED BY <2>2, <2>4 DEF Edit, EditPossible
<1>7. CASE op \in [kind : {"reconcile"}, account : Account, observed : Int,
                   cutoff : {"end_of_day", "start_of_day"}, amount : Int, cur : Currency,
                   other : Account]
  <2>1. /\ op.kind = "reconcile" /\ op.account \in Account /\ op.observed \in Int
        /\ op.amount \in Int /\ op.cur \in Currency /\ op.other \in Account
    BY <1>7
  <2> DEFINE date == AssertionDate(op)
             adj  == Adjustment(ledger, op, date, op.amount)
             bal  == [kind |-> "balance", account |-> op.account, date |-> date,
                      number |-> op.amount, cur |-> op.cur]
  <2>2. date \in Int  BY <2>1 DEF AssertionDate
  <2>3. AdjustmentAllowed(ledger, op, date)  BY <2>1 DEF Allowed, ReconcileAllowed
  <2>4. edit = [kind |-> "append", says |-> <<adj, bal>>]
    BY <2>1 DEF EditOf, Append1, Reconciliation
  <2> HIDE DEF date
  <2>5. adj \in Transaction  BY <1>2, <2>1, <2>2, <2>3
  <2>6. bal \in Directive  BY <2>1, <2>2 DEF Directive
  <2>7. adj \in Directive  BY <2>5, KindOf
  <2> HIDE DEF adj, bal
  <2>8. <<adj, bal>> \in Seq(Directive)  BY <2>6, <2>7, Tuple2
  <2>q. QED BY <2>4, <2>8 DEF Edit, EditPossible
<1>8. CASE op \in [kind : {"rebalance"}, account : Account, date : Int, cur : Currency,
                   other : Account]
  <2>1. /\ op.kind = "rebalance" /\ op.account \in Account /\ op.date \in Int
        /\ op.cur \in Currency /\ op.other \in Account
    BY <1>8
  <2> DEFINE target == CHOOSE n \in Checkpoints(ledger, op.account, op.date, op.cur) : TRUE
             adj == Adjustment(ledger, op, op.date, target)
  <2>2. /\ AdjustmentAllowed(ledger, op, op.date)
        /\ Checkpoints(ledger, op.account, op.date, op.cur) # {}
    BY <2>1 DEF Allowed, RebalanceAllowed
  <2>3. target \in Int
    <3>1. target \in Checkpoints(ledger, op.account, op.date, op.cur)  BY <2>2
    <3> HIDE DEF target
    <3>2. PICK d \in Said(ledger, "balance") : target = d.number  BY <3>1 DEF Checkpoints
    <3>3. d \in Directive /\ d.kind = "balance"  BY <1>1, PlacedShape DEF Said
    <3>q. QED BY <3>2, <3>3 DEF Directive, Transaction, Price
  <2>4. edit = [kind |-> "append", says |-> <<adj>>]
    BY <2>1 DEF EditOf, Append1, Rebalance
  <2> HIDE DEF target
  <2>5. adj \in Transaction  BY <1>2, <2>1, <2>2, <2>3
  <2>6. adj \in Directive  BY <2>5, KindOf
  <2> HIDE DEF adj
  <2>7. <<adj>> \in Seq(Directive)  BY <2>6, Tuple1
  <2>q. QED BY <2>4, <2>7 DEF Edit, EditPossible
<1>9. CASE op \in [kind : {"delete"}, ref : Reference, text : Text]
  <2>1. op.kind = "delete" /\ op.ref \in Reference /\ op.text \in Text  BY <1>9
  <2>2. NamesCurrentRevision(ledger, op)  BY <2>1 DEF Allowed
  <2> DEFINE p == op.ref.path
             k == op.ref.start
  <2>3. /\ ledger \in WholeLedger /\ p \in SidecarPath /\ p \in Path
        /\ k \in Headers(ledger[p]) /\ op.text = TextAt(ledger[p], k)
    BY <2>2, NamedShape
  <2>4. ledger[p] \in File /\ Whole(ledger[p].lines)  BY <1>1, <2>3, LedgerFiles DEF WholeLedger
  <2>5. StandsAt(ledger[p], op.text, k) /\ k \in Nat \ {0} /\ k \in DOMAIN ledger[p].lines
    <3> DEFINE file == ledger[p]
    <3> HIDE DEF file, k
    <3>1. /\ k \in 1 .. Len(file.lines) /\ k \in Nat \ {0}
          /\ StandsAt(file, TextAt(file, k), k)
      BY <2>3, <2>4, TextAtHeader DEF file
    <3>2. DOMAIN file.lines = 1 .. Len(file.lines)  BY <2>4, FileShape DEF file
    <3>q. QED BY <2>3, <3>1, <3>2 DEF file
  <2>6. edit = [kind |-> "delete", path |-> p, old |-> op.text, start |-> k]
    BY <2>1 DEF EditOf
  <2> HIDE DEF p, k
  <2>7. edit \in Edit  BY <2>1, <2>3, <2>5, <2>6 DEF Edit
  <2>8. /\ edit.kind = "delete" /\ edit.path = p /\ edit.old = op.text /\ edit.start = k
    BY <2>6
  <2> HIDE DEF edit
  <2>9. EditPossible(ledger, edit)  BY <2>3, <2>5, <2>8 DEF EditPossible
  <2>q. QED BY <2>7, <2>9 DEF edit
<1>10. CASE op \in [kind : {"update"}, ref : Reference, text : Text, new : Transaction]
  <2>1. op.kind = "update" /\ op.ref \in Reference /\ op.text \in Text /\ op.new \in Transaction
    BY <1>10
  <2>2. NamesCurrentRevision(ledger, op)  BY <2>1 DEF Allowed, UpdateAllowed
  <2> DEFINE p == op.ref.path
             k == op.ref.start
  <2>3. /\ ledger \in WholeLedger /\ p \in SidecarPath /\ p \in Path
        /\ k \in Headers(ledger[p]) /\ op.text = TextAt(ledger[p], k)
    BY <2>2, NamedShape
  <2>4. ledger[p] \in File /\ Whole(ledger[p].lines)  BY <1>1, <2>3, LedgerFiles DEF WholeLedger
  <2>5. OccursAt(ledger[p], op.text, k) /\ k \in DOMAIN ledger[p].lines
    <3> DEFINE file == ledger[p]
    <3> HIDE DEF file, k
    <3>1. /\ k \in 1 .. Len(file.lines) /\ k \in Nat \ {0}
          /\ OccursAt(file, TextAt(file, k), k)
      BY <2>3, <2>4, TextAtHeader DEF file
    <3>2. DOMAIN file.lines = 1 .. Len(file.lines)  BY <2>4, FileShape DEF file
    <3>q. QED BY <2>3, <3>1, <3>2 DEF file
  <2>6. edit = [kind |-> "replace", path |-> p, old |-> op.text, new |-> op.new]
    BY <2>1 DEF EditOf
  <2> HIDE DEF p, k
  <2>7. edit \in Edit  BY <2>1, <2>3, <2>6 DEF Edit
  <2>8. edit.kind = "replace" /\ edit.path = p /\ edit.old = op.text  BY <2>6
  <2>9. Occurrences(ledger[p], op.text) # {}  BY <2>5 DEF Occurrences
  <2> HIDE DEF edit
  <2>10. EditPossible(ledger, edit)  BY <2>3, <2>8, <2>9 DEF EditPossible
  <2>q. QED BY <2>7, <2>10 DEF edit
<1>q. QED BY <1>3, <1>4, <1>5, <1>6, <1>7, <1>8, <1>9, <1>10 DEF Operation, Request

-----------------------------------------------------------------------------
(* References are followed through the edits.                              *)

\* A transaction that stands at one line of a file stands at another of a
\* later version of it.
StandsOn(old, k, new, m) ==
    /\ m \in Headers(new) /\ TextAt(new, m) = TextAt(old, k)
    /\ EndOf(new, m) - m = EndOf(old, k) - k

\* What stands where a transaction stood, with nothing of it gone and nothing more
\* below it, has the same text, if the newline below it is.
LEMMA SameText ==
    ASSUME NEW old \in File, NEW new \in File, Whole(old.lines), Whole(new.lines),
           NEW k \in Headers(old), NEW m \in 1 .. Len(new.lines), NEW f \in m .. Len(new.lines),
           f = EndOf(old, k) + (m - k),
           \A i \in k .. EndOf(old, k) : new.lines[i + (m - k)] = old.lines[i],
           f < Len(new.lines) => ~IsIndented(new.lines[f + 1]),
           (EndOf(old, k) < Len(old.lines) \/ old.ended) <=> (f < Len(new.lines) \/ new.ended)
    PROVE  StandsOn(old, k, new, m) /\ EndOf(new, m) = f
<1> DEFINE s == old.lines
           t == new.lines
           d == s[k][1]
           e == EndOf(old, k)
           by == m - k
<1>1. /\ s \in Seq(Line) /\ t \in Seq(Line) /\ Len(s) \in Nat /\ Len(t) \in Nat
      /\ DOMAIN t = 1 .. Len(t) /\ Whole(s) /\ Whole(t)
  BY FileShape
<1>2. /\ k \in 1 .. Len(s) /\ d \in Transaction /\ e \in k + 2 .. Len(s) /\ Height(d) = 3
  BY <1>1, EndOfBlock, CommentedShape
<1>3. /\ f = e + by /\ \A i \in k .. e : t[i + by] = s[i]
      /\ f < Len(t) => ~IsIndented(t[f + 1])
      /\ (e < Len(s) \/ old.ended) <=> (f < Len(t) \/ new.ended)
  OBVIOUS
<1>4. m \in 1 .. Len(t) /\ f \in m .. Len(t) /\ by = m - k  OBVIOUS
<1>5. IsHeader(s[k])  BY DEF Headers
<1>6. Ends(s, k, e)  BY <1>1, <1>2, EndIs
<1>7. /\ TextAt(old, k) = [directive |-> d, tail |-> SubSeq(s, k + Height(d), e),
                           ended |-> e < Len(s) \/ old.ended]
      /\ TextAt(new, m) = [directive |-> t[m][1],
                           tail |-> SubSeq(t, m + Height(t[m][1]), EndOf(new, m)),
                           ended |-> EndOf(new, m) < Len(t) \/ new.ended]
  BY DEF TextAt
<1> DEFINE n == Len(s)
           l == Len(t)
<1> HIDE DEF e, by, d, n, l
<1>8. /\ k \in Int /\ m \in Int /\ e \in Int /\ by \in Int /\ f \in Int /\ n \in Nat /\ l \in Nat
      /\ f = e + by /\ by = m - k /\ k >= 1 /\ m >= 1 /\ k + 2 <= e /\ e <= n /\ f <= l
  BY <1>1, <1>2, <1>3, <1>4 DEF n, l
<1>9. t[m] = s[k] /\ t[m][1] = d
  <2>1. k \in k .. e /\ k + by = m  BY <1>8
  <2>q. QED BY <2>1, <1>3 DEF d
<1>10. m \in Headers(new)  BY <1>1, <1>4, <1>5, <1>9 DEF Headers
<1>11. Ends(t, m, f)
  <2>1. ASSUME NEW i \in (m + 1) .. f PROVE IsIndented(t[i])
    <3>1. i - by \in (k + 1) .. e /\ i - by \in k .. e /\ (i - by) + by = i  BY <1>8
    <3>2. IsIndented(s[i - by])  BY <3>1, <1>6 DEF Ends
    <3>q. QED BY <3>1, <3>2, <1>3
  <2>2. f = Len(t) \/ ~IsIndented(t[f + 1])
    <3>1. f < Len(t) \/ f = Len(t)  BY <1>8 DEF l
    <3>q. QED BY <3>1, <1>3
  <2>q. QED BY <2>1, <2>2, <1>4 DEF Ends
<1>12. EndOf(new, m) = f
  <2>1. new.lines \in Seq(Line) /\ m \in 1 .. Len(new.lines) /\ Ends(new.lines, m, f)
    BY <1>1, <1>11
  <2>q. QED BY <2>1, EndIs
<1> DEFINE one == SubSeq(s, k + 3, e)
           two == SubSeq(t, m + 3, f)
           c   == e - k - 2
<1>13. one \in Seq(Line) /\ Len(one) = c /\ \A i \in 1 .. c : one[i] = s[k + 2 + i]
  <2>q. QED BY <1>1, <1>8, CutFrom DEF n
<1>14. two \in Seq(Line) /\ Len(two) = c /\ \A i \in 1 .. c : two[i] = t[m + 2 + i]
  <2>1. c = f - m - 2 /\ m + 2 <= f  BY <1>8
  <2> HIDE DEF c
  <2>q. QED BY <1>1, <1>8, <2>1, CutFrom DEF l
<1>15. one = two
  <2>1. ASSUME NEW i \in 1 .. c PROVE one[i] = two[i]
    <3>1. k + 2 + i \in k .. e /\ (k + 2 + i) + by = m + 2 + i  BY <1>8
    <3>2. t[m + 2 + i] = s[k + 2 + i]  BY <3>1, <1>3
    <3> HIDE DEF one, two, c
    <3>q. QED BY <3>2, <1>13, <1>14
  <2> HIDE DEF one, two, c
  <2>q. QED BY <2>1, <1>13, <1>14, SeqEqual
<1>16. TextAt(new, m) = TextAt(old, k)
  <2>1. k + Height(d) = k + 3 /\ m + Height(t[m][1]) = m + 3  BY <1>2, <1>9
  <2>2. (e < Len(s) \/ old.ended) = (f < Len(t) \/ new.ended)  BY <1>3
  <2>3. TextAt(old, k) = [directive |-> d, tail |-> one, ended |-> e < Len(s) \/ old.ended]
    BY <1>7, <2>1
  <2>4. TextAt(new, m) = [directive |-> d, tail |-> two, ended |-> f < Len(t) \/ new.ended]
    BY <1>7, <1>9, <1>12, <2>1
  <2> HIDE DEF one, two, s, t
  <2>q. QED BY <1>15, <2>2, <2>3, <2>4
<1>17. EndOf(new, m) - m = EndOf(old, k) - k
  <2>1. f - m = e - k  BY <1>8
  <2>q. QED BY <2>1, <1>12 DEF e
<1>q. QED BY <1>10, <1>12, <1>16, <1>17 DEF StandsOn

\* The version of a file after one splice.
FileSpliced(old, a, b, mid, new) ==
    /\ old \in File /\ new \in File /\ Whole(old.lines) /\ Whole(new.lines)
    /\ Spliced(old.lines, a, b, mid, new.lines)

\* Nothing indented follows the first a lines.
Stopped(lines, a) == a < Len(lines) => ~IsIndented(lines[a + 1])

\* Above the splice nothing moves.
LEMMA StaysAbove ==
    ASSUME NEW old, NEW new, NEW a, NEW b, NEW mid, FileSpliced(old, a, b, mid, new),
           NEW k \in Headers(old), EndOf(old, k) <= a,
           EndOf(old, k) = a => Stopped(new.lines, a),
           (EndOf(old, k) < Len(old.lines) \/ old.ended)
               <=> (EndOf(old, k) < Len(new.lines) \/ new.ended)
    PROVE  StandsOn(old, k, new, k) /\ EndOf(new, k) = EndOf(old, k)
<1>1. old \in File /\ new \in File /\ Whole(old.lines) /\ Whole(new.lines)  BY DEF FileSpliced
<1> DEFINE s == old.lines
           t == new.lines
           n == Len(s)
           l == Len(t)
           z == Len(mid)
           e == EndOf(old, k)
<1>2. /\ s \in Seq(Line) /\ n \in Nat /\ l \in Nat /\ z \in Nat
      /\ a \in 0 .. n /\ b \in a .. n /\ l = n + z - (b - a)
      /\ \A i \in 1 .. a : t[i] = s[i]
  BY <1>1, FileShape, LenProperties DEF FileSpliced, Spliced
<1>3. k \in 1 .. n /\ e \in k + 2 .. n  BY <1>1, <1>2, EndOfBlock
<1>4. Ends(s, k, e)  BY <1>2, <1>3, EndIs
<1>5. /\ e <= a /\ (e = a => Stopped(t, a))
      /\ (e < n \/ old.ended) <=> (e < l \/ new.ended)
  OBVIOUS
<1> HIDE DEF n, l, z, e
<1>6. k \in 1 .. l /\ e \in k .. l /\ e + (k - k) = e /\ e \in Int /\ k \in Int /\ a \in Int
  BY <1>2, <1>3, <1>5
<1>7. ASSUME NEW i \in k .. e PROVE t[i + (k - k)] = s[i]
  <2>1. i \in 1 .. a /\ i + (k - k) = i  BY <1>2, <1>3, <1>5, <1>6
  <2>q. QED BY <2>1, <1>2
<1>8. e < l => ~IsIndented(t[e + 1])
  <2>1. CASE e = a  BY <2>1, <1>5 DEF Stopped, l
  <2>2. CASE e < a
    <3>1. e + 1 \in 1 .. a /\ e # n  BY <2>2, <1>2, <1>3, <1>6
    <3>q. QED BY <3>1, <1>2, <1>4 DEF Ends, n
  <2>3. e = a \/ e < a  BY <1>5, <1>6
  <2>q. QED BY <2>1, <2>2, <2>3
<1>9. StandsOn(old, k, new, k) /\ EndOf(new, k) = e
  <2>1. \A i \in k .. EndOf(old, k) : new.lines[i + (k - k)] = old.lines[i]  BY <1>7 DEF e
  <2>2. k \in 1 .. Len(new.lines) /\ e \in k .. Len(new.lines) /\ e = EndOf(old, k) + (k - k)
    BY <1>6 DEF l, e
  <2>3. e < Len(new.lines) => ~IsIndented(new.lines[e + 1])  BY <1>8 DEF l
  <2>4. (EndOf(old, k) < Len(old.lines) \/ old.ended) <=> (e < Len(new.lines) \/ new.ended)
    BY <1>5 DEF e, n, l
  <2> HIDE DEF s, t
  <2>q. QED BY <1>1, <2>1, <2>2, <2>3, <2>4, SameText
<1>q. QED BY <1>9 DEF e

\* How much longer a file has become, and a place below another.
Grown(old, new, delta) == delta = Len(new.lines) - Len(old.lines)

Past(k, b) == k > b

\* Below it everything moves by as many lines as were added.
LEMMA MovesBelow ==
    ASSUME NEW old, NEW new, NEW a, NEW b, NEW mid, FileSpliced(old, a, b, mid, new),
           NEW k \in Headers(old), Past(k, b), NEW delta, Grown(old, new, delta),
           new.ended = old.ended
    PROVE  StandsOn(old, k, new, k + delta) /\ EndOf(new, k + delta) = EndOf(old, k) + delta
<1>1. old \in File /\ new \in File /\ Whole(old.lines) /\ Whole(new.lines)  BY DEF FileSpliced
<1> DEFINE s == old.lines
           t == new.lines
           n == Len(s)
           l == Len(t)
           z == Len(mid)
           e == EndOf(old, k)
           m == k + delta
           f == e + delta
<1>2. /\ s \in Seq(Line) /\ n \in Nat /\ l \in Nat /\ z \in Nat
      /\ a \in 0 .. n /\ b \in a .. n /\ l = n + z - (b - a)
      /\ \A i \in b + 1 .. n : t[i + z - (b - a)] = s[i]
  BY <1>1, FileShape, LenProperties DEF FileSpliced, Spliced
<1>3. k \in 1 .. n /\ e \in k + 2 .. n  BY <1>1, <1>2, EndOfBlock
<1>4. Ends(s, k, e)  BY <1>2, <1>3, EndIs
<1>5. k > b /\ delta = l - n /\ new.ended = old.ended  BY DEF Past, Grown
<1> HIDE DEF n, l, z, e
<1>6. /\ a \in Int /\ b \in Int /\ k \in Int /\ e \in Int /\ delta \in Int /\ l = n + delta
      /\ delta = z - (b - a) /\ k <= e /\ e <= n
  BY <1>2, <1>3, <1>5
<1>7. ASSUME NEW i \in b + 1 .. n PROVE t[i + delta] = s[i]
  <2>1. i + z - (b - a) = i + delta  BY <1>2, <1>6
  <2>q. QED BY <2>1, <1>2
<1>8. m >= 1 /\ m \in Int /\ f \in Int /\ m <= f /\ f <= l /\ m - k = delta
  <2>1. a >= 0 /\ z >= 0 /\ z \in Int /\ l \in Int /\ n \in Int  BY <1>2
  <2>2. k > b  BY <1>5
  <2>3. m >= 1  BY <2>1, <2>2, <1>6
  <2>4. m \in Int /\ f \in Int /\ m <= f /\ m - k = delta  BY <1>6
  <2>5. f <= l  BY <2>1, <1>6
  <2>q. QED BY <2>3, <2>4, <2>5
<1>9. ASSUME NEW i \in k .. e PROVE t[i + (m - k)] = s[i]
  <2>1. i \in b + 1 .. n  BY <1>2, <1>5, <1>6
  <2>2. t[i + delta] = s[i]  BY <2>1, <1>7
  <2> HIDE DEF m
  <2>q. QED BY <2>2, <1>8
<1>10. ASSUME f < l PROVE ~IsIndented(t[f + 1])
  <2>1. e + 1 \in b + 1 .. n /\ (e + 1) + delta = f + 1 /\ e # n
    BY <1>2, <1>5, <1>6, <1>10
  <2>2. t[(e + 1) + delta] = s[e + 1]  BY <2>1, <1>7
  <2>3. ~IsIndented(s[e + 1])  BY <2>1, <1>4 DEF Ends, n
  <2> HIDE DEF f
  <2>q. QED BY <2>1, <2>2, <2>3
<1>11. (e < n) <=> (f < l)  BY <1>2, <1>6
<1>12. StandsOn(old, k, new, m) /\ EndOf(new, m) = f
  <2>1. \A i \in k .. EndOf(old, k) : new.lines[i + (m - k)] = old.lines[i]  BY <1>9 DEF e
  <2>2. m \in 1 .. Len(new.lines) /\ f \in m .. Len(new.lines)
    <3> HIDE DEF m, f
    <3>1. m \in 1 .. l /\ f \in m .. l  BY <1>2, <1>8
    <3>q. QED BY <3>1 DEF l
  <2>3. f = EndOf(old, k) + (m - k)
    <3> HIDE DEF m
    <3>q. QED BY <1>8 DEF e
  <2>4. f < Len(new.lines) => ~IsIndented(new.lines[f + 1])  BY <1>10 DEF l
  <2>5. (EndOf(old, k) < Len(old.lines) \/ old.ended) <=> (f < Len(new.lines) \/ new.ended)
    BY <1>5, <1>11 DEF e, n, l
  <2> HIDE DEF s, t, m, f
  <2>q. QED BY <1>1, <2>1, <2>2, <2>3, <2>4, <2>5, SameText
<1>q. QED BY <1>12 DEF e

\* A reference leads from the base to where the position says.
Tracks(now, base, pos, ref) ==
    LET k == pos[ref].start
    IN  /\ ref.path \in Path /\ k \in Headers(now[ref.path])
        /\ TextAt(now[ref.path], k) = TextAt(base[ref.path], ref.start)
        /\ pos[ref].end = EndOf(now[ref.path], k)

\* What becomes of a position at a splice.
LEMMA ShiftedShape ==
    ASSUME NEW pos, NEW path, NEW first, NEW last, NEW delta,
           NEW new, new = ShiftedAfter(pos, path, first, last, delta), NEW ref \in DOMAIN new
    PROVE  /\ ref \in DOMAIN pos
           /\ \/ ref.path # path /\ new[ref] = pos[ref]
              \/ /\ ref.path = path /\ pos[ref].start > last
                 /\ new[ref].start = pos[ref].start + delta
                 /\ new[ref].end = pos[ref].end + delta
              \/ /\ ref.path = path /\ ~(pos[ref].start > last) /\ pos[ref].end < first
                 /\ new[ref] = pos[ref]
<1>1. DOMAIN new = {r \in DOMAIN pos :
                       r.path # path \/ pos[r].end < first \/ pos[r].start > last}
  BY DEF ShiftedAfter
<1>2. new[ref] = IF ref.path = path /\ pos[ref].start > last
                 THEN [start |-> pos[ref].start + delta, end |-> pos[ref].end + delta]
                 ELSE pos[ref]
  BY <1>1 DEF ShiftedAfter
<1>q. QED BY <1>1, <1>2

\* One splice of one file; above it and below it the last line ends as before.
OneSplice(ledger, after, p, a, b, mid) ==
    /\ p \in Path /\ FileSpliced(ledger[p], a, b, mid, after[p])
    /\ \A q \in Path \ {p} : after[q] = ledger[q]

\* Positions once a splice has made a file longer or shorter.
SplicedAt(pos, p, first, last, before, after) ==
    ShiftedAfter(pos, p, first, last, Len(after[p].lines) - Len(before[p].lines))

\* Positions that are shifted as a splice shifts the lines lead to the same texts.
LEMMA ShiftTracks ==
    ASSUME NEW ledger, NEW after, NEW p, NEW a, NEW b, NEW mid,
           OneSplice(ledger, after, p, a, b, mid),
           NEW base, NEW pos, \A ref \in DOMAIN pos : Tracks(ledger, base, pos, ref),
           NEW first \in Int, first <= a + 1,
           NEW last \in Int, \A k \in Headers(ledger[p]) : k > last => k > b,
           \A e \in 1 .. first - 1 :
              (e < Len(ledger[p].lines) \/ ledger[p].ended)
                  <=> (e < Len(after[p].lines) \/ after[p].ended),
           b < Len(ledger[p].lines) => after[p].ended = ledger[p].ended,
           first = a + 1 => Stopped(after[p].lines, a),
           NEW new, new = SplicedAt(pos, p, first, last, ledger, after), NEW ref \in DOMAIN new
    PROVE  Tracks(after, base, new, ref)
<1> DEFINE old   == ledger[p]
           now   == after[p]
           k     == pos[ref].start
           delta == Len(now.lines) - Len(old.lines)
<1>0. new = ShiftedAfter(pos, p, first, last, delta) /\ Grown(old, now, delta)
  BY Zenon DEF SplicedAt, Grown
<1> HIDE DEF delta
<1>1. p \in Path /\ FileSpliced(old, a, b, mid, now) /\ \A q \in Path \ {p} : after[q] = ledger[q]
  BY DEF OneSplice
<1>2. /\ ref \in DOMAIN pos
      /\ \/ ref.path # p /\ new[ref] = pos[ref]
         \/ /\ ref.path = p /\ k > last
            /\ new[ref].start = k + delta /\ new[ref].end = pos[ref].end + delta
         \/ /\ ref.path = p /\ ~(k > last) /\ pos[ref].end < first /\ new[ref] = pos[ref]
  BY <1>0, ShiftedShape
<1>3. /\ ref.path \in Path /\ k \in Headers(ledger[ref.path])
      /\ TextAt(ledger[ref.path], k) = TextAt(base[ref.path], ref.start)
      /\ pos[ref].end = EndOf(ledger[ref.path], k)
  BY <1>2 DEF Tracks
<1>4. a \in Int  BY <1>1 DEF FileSpliced, Spliced
<1>5. CASE ref.path # p /\ new[ref] = pos[ref]
  BY <1>1, <1>3, <1>5 DEF Tracks
<1>6. CASE ref.path = p /\ k > last /\ new[ref].start = k + delta /\ new[ref].end = pos[ref].end + delta
  <2>1. k \in Headers(old) /\ k > b  BY <1>3, <1>6
  <2>2. now.ended = old.ended
    <3>1. old \in File /\ Whole(old.lines)  BY <1>1 DEF FileSpliced
    <3>2. k \in 1 .. Len(old.lines)  BY <2>1, <3>1, TextAtHeader
    <3> DEFINE n == Len(old.lines)
    <3>3. n \in Nat  BY <3>1, FileShape
    <3>4. a \in 0 .. n /\ b \in a .. n  BY <1>1 DEF FileSpliced, Spliced
    <3>5. k \in 1 .. n /\ k > b  BY <2>1, <3>2
    <3> HIDE DEF n, k
    <3>6. b < n  BY <3>3, <3>4, <3>5
    <3>7. b < Len(old.lines)  BY <3>6 DEF n
    <3>q. QED BY <3>7
  <2>3. Grown(old, now, delta) /\ Past(k, b)  BY <1>0, <2>1 DEF Past
  <2> HIDE DEF old, now, k
  <2>4. StandsOn(old, k, now, k + delta) /\ EndOf(now, k + delta) = EndOf(old, k) + delta
    BY <1>1, <2>1, <2>2, <2>3, MovesBelow
  <2>q. QED BY <1>3, <1>6, <2>4 DEF Tracks, StandsOn, old, now
<1>7. CASE ref.path = p /\ ~(k > last) /\ pos[ref].end < first /\ new[ref] = pos[ref]
  <2> DEFINE e == EndOf(old, k)
  <2>1. k \in Headers(old) /\ pos[ref].end = e  BY <1>3, <1>7
  <2>2. e \in Nat \ {0}
    <3>1. old \in File /\ Whole(old.lines)  BY <1>1 DEF FileSpliced
    <3>2. e = EndOf(old, k) /\ EndOf(old, k) \in k + 2 .. Len(old.lines)
          /\ k \in Nat \ {0} /\ Len(old.lines) \in Nat
      BY <2>1, <3>1, TextAtHeader, FileShape
    <3> HIDE DEF e, k, old
    <3>q. QED BY <3>2
  <2>3. e <= a /\ e \in 1 .. first - 1 /\ (e = a => Stopped(now.lines, a))
    <3>1. e < first  BY <1>7, <2>1
    <3> HIDE DEF e
    <3>2. e <= a /\ e \in 1 .. first - 1 /\ (e = a => first = a + 1)
      BY <1>4, <2>2, <3>1
    <3>q. QED BY <3>2
  <2>4. (e < Len(old.lines) \/ old.ended) <=> (e < Len(now.lines) \/ now.ended)  BY <2>3
  <2> HIDE DEF old, now, k
  <2>5. StandsOn(old, k, now, k) /\ EndOf(now, k) = EndOf(old, k)
    BY <1>1, <2>1, <2>3, <2>4, StaysAbove
  <2>q. QED BY <1>3, <1>7, <2>5 DEF Tracks, StandsOn, old, now, k
<1>q. QED BY <1>2, <1>5, <1>6, <1>7

-----------------------------------------------------------------------------
\* The splice each kind of edit makes, as the positions follow it.
LEMMA FollowedIs ==
    ASSUME NEW pos, NEW edit, NEW before, NEW after
    PROVE  LET h == Size(edit.old)
               k == FirstOf(Occurrences(before[edit.path], edit.old))
               n == Len(before[MonthPath].lines)
               next == Followed(pos, edit, before, after)
           IN  /\ edit.kind = "replace" =>
                     next = SplicedAt(pos, edit.path, k, k + h - 1, before, after)
               /\ edit.kind = "delete" =>
                     next = SplicedAt(pos, edit.path, edit.start, edit.start + h - 1, before, after)
               /\ IsAppend(edit) =>
                     next = IF before[MonthPath].ended THEN pos
                            ELSE SplicedAt(pos, MonthPath, n, n, before, after)
               /\ edit.kind = "open" => next = pos
<1>1. CASE edit.kind = "replace"
  <2>1. "replace" # "delete" /\ "replace" # "open" /\ ~IsAppend(edit)  BY <1>1 DEF IsAppend
  <2>q. QED BY <1>1, <2>1, Zenon DEF Followed, SplicedAt
<1>2. CASE edit.kind = "delete"
  <2>1. "replace" # "delete" /\ "delete" # "open" /\ ~IsAppend(edit)  BY <1>2 DEF IsAppend
  <2>q. QED BY <1>2, <2>1, Zenon DEF Followed, SplicedAt
<1>3. CASE edit.kind = "open"
  <2>1. edit.kind # "replace" /\ edit.kind # "delete" /\ ~IsAppend(edit)  BY <1>3 DEF IsAppend
  <2>q. QED BY <1>3, <2>1, Zenon DEF Followed
<1>4. CASE IsAppend(edit)
  <2>1. edit.kind # "replace" /\ edit.kind # "delete" /\ edit.kind # "open"
    BY <1>4 DEF IsAppend
  <2>q. QED BY <1>4, <2>1, Zenon DEF Followed, SplicedAt
<1>q. QED BY <1>1, <1>2, <1>3, <1>4

\* Every reference that is still followed leads to the text it was read for.
Tracked(ledger, base, pos) == \A ref \in DOMAIN pos : Tracks(ledger, base, pos, ref)

\* A line above a splice that leaves a line behind is not the last of the file.
LEMMA AboveIsInside ==
    ASSUME NEW old, NEW a, NEW b, NEW mid, NEW new, Spliced(old, a, b, mid, new),
           old \in Seq(Line), Len(mid) >= 1 \/ b < Len(old), a < Len(old), NEW e \in 1 .. a
    PROVE  e < Len(old) /\ e < Len(new)
<1> DEFINE n == Len(old)
           l == Len(new)
           m == Len(mid)
<1>1. n \in Nat /\ l \in Nat /\ m \in Nat
  BY LenProperties DEF Spliced
<1>2. a \in 0 .. n /\ b \in a .. n /\ l = n + m - (b - a)  BY DEF Spliced
<1>3. a < n /\ e \in 1 .. a /\ (m >= 1 \/ b < n)  OBVIOUS
<1> HIDE DEF n, l, m
<1>4. b \in Int /\ b <= n /\ a \in Int /\ e \in Int /\ e <= a
  BY <1>1, <1>2, <1>3
<1>5. l >= m + a /\ (b < n => l >= m + a + 1)  BY <1>1, <1>2, <1>4
<1>6. e < n /\ e < l  BY <1>1, <1>3, <1>4, <1>5
<1>q. QED BY <1>6 DEF n, l

\* A ledger in which one file was written.
Rewritten(ledger, after, p, file) == after = [ledger EXCEPT ![p] = file]

\* One splice of a written file.
LEMMA ChangedSplice ==
    ASSUME NEW ledger \in WholeLedger, NEW after \in WholeLedger, NEW p \in Path, NEW file,
           Rewritten(ledger, after, p, file), NEW a, NEW b, NEW mid,
           Changed(ledger[p], file, a, b, mid)
    PROVE  OneSplice(ledger, after, p, a, b, mid) /\ after[p] = file
<1>1. ledger \in Ledger /\ after \in Ledger  BY DEF WholeLedger
<1>2. after[p] = file /\ \A q \in Path \ {p} : after[q] = ledger[q]
  BY <1>1 DEF Ledger, Rewritten
<1>3. ledger[p] \in File /\ after[p] \in File  BY <1>1, LedgerFiles
<1>4. Whole(ledger[p].lines) /\ Whole(after[p].lines)  BY DEF WholeLedger
<1>q. QED BY <1>2, <1>3, <1>4 DEF OneSplice, FileSpliced, Changed

\* A line where a directive begins is not indented.
LEMMA HeadStops ==
    ASSUME NEW x \in Directive
    PROVE  ~IsIndented(<<x, 1>>)
<1>1. <<x, 1>>[2] = 1  BY LineShape
<1>2. <<x, 1>> # Note /\ <<x, 1>> # Meta  BY <1>1, LineShape
<1>q. QED BY <1>1, <1>2 DEF IsIndented

\* A replacement that leaves a line of the file behind leaves the last newline too.
LEMMA ReplacedEnded ==
    ASSUME NEW file \in File, NEW text \in Text, NEW new
    PROVE  LET k    == FirstOf(Occurrences(file, text))
               last == k + Size(text) - 1
           IN  last < Len(file.lines) => Replaced(file, text, new).ended = file.ended
<1> DEFINE k      == FirstOf(Occurrences(file, text))
           last   == k + Size(text) - 1
           after  == SubSeq(file.lines, last + 1, Len(file.lines))
           before == SubSeq(file.lines, 1, k - 1)
           inside == IF LinesFrom(file, text, k) = TextLines(text) THEN LinesOf(new)
                     ELSE LinesOf(Commented(new))
           one    == before \o JoinedTo(new, file.lines[last + 1]) \o Tail(after)
           two    == before \o inside \o after
<1>1. Replaced(file, text, new) =
         IF text.ended /\ last < Len(file.lines)
         THEN [file EXCEPT !.lines = one]
         ELSE [file EXCEPT !.lines = two, !.ended = @ /\ ~text.ended]
  BY DEF Replaced
<1>2. file \in [lines : Seq(Line), ended : BOOLEAN, opens : SUBSET Opening]  BY DEF File
<1>3. text.ended \in BOOLEAN  BY TextShape
<1> HIDE DEF one, two, last
<1>4. [file EXCEPT !.lines = one].ended = file.ended  BY <1>2
<1>5. [file EXCEPT !.lines = two, !.ended = @ /\ ~text.ended].ended = (file.ended /\ ~text.ended)
  BY <1>2
<1>6. file.ended \in BOOLEAN  BY <1>2
<1>7. last < Len(file.lines) => Replaced(file, text, new).ended = file.ended
  BY <1>1, <1>3, <1>4, <1>5, <1>6
<1>q. QED BY <1>7 DEF last

\* References are followed through a replacement ...
LEMMA ReplaceTracks ==
    ASSUME NEW ledger \in WholeLedger, NEW after \in WholeLedger, NEW edit,
           edit.kind = "replace", edit.path \in Path,
           edit.old \in Text, edit.new \in Transaction,
           EditPossible(ledger, edit), after = Edited(ledger, edit),
           NEW base, NEW pos, Tracked(ledger, base, pos)
    PROVE  Tracked(after, base, Followed(pos, edit, ledger, after))
<1> DEFINE p     == edit.path
           old   == ledger[p]
           new   == Replaced(old, edit.old, edit.new)
           k     == FirstOf(Occurrences(old, edit.old))
           z     == Size(edit.old)
           last  == k + z - 1
           next  == SplicedAt(pos, p, k, last, ledger, after)
           n     == Len(old.lines)
<1>1. Followed(pos, edit, ledger, after) = next  BY FollowedIs
<1>2. old \in File /\ Whole(old.lines) /\ old.lines \in Seq(Line) /\ n \in Nat
  BY LedgerFiles, FileShape DEF WholeLedger
<1>3. Occurrences(old, edit.old) # {} /\ z \in Nat  BY TextShape DEF EditPossible
<1>4. Rewritten(ledger, after, p, new)  BY DEF Edited, IsAppend, Rewritten
<1>5. after[p] = new
  <2>1. ledger \in Ledger  BY DEF WholeLedger
  <2>q. QED BY <1>4, <2>1 DEF Ledger, Rewritten
<1>6. Renewed(old, edit.old, edit.new, k, new)
  <2>1. after[p] \in File /\ Whole(after[p].lines)  BY LedgerFiles DEF WholeLedger
  <2>2. new.lines \in Seq(Line) /\ Whole(new.lines)  BY <1>5, <2>1, FileShape
  <2>3. ~Torn(new.lines)  BY <2>2, WholeNotTorn
  <2>q. QED BY <1>2, <1>3, <2>3, ReplacedMade
<1>7. last < n => new.ended = old.ended  BY <1>2, ReplacedEnded
<1>8. PICK x, y, b : RenewedBy(old, edit.old, edit.new, k, new, x, y, b)  BY <1>6 DEF Renewed
<1> HIDE DEF old, new, k, z
<1>9. /\ k \in 1 .. Len(old.lines) /\ b \in k + 2 .. Len(old.lines)
      /\ y \in Transaction /\ Height(y) = 3
  BY <1>2, <1>8, RenewedShape
<1>10. /\ b = last \/ (b = last + 1 /\ old.lines[b] \in Loose)
       /\ Changed(old, new, k - 1, b, LinesOf(y))
  <2>1. b \in {k + z - 1, k + z} /\ (b = k + z => old.lines[b] \in Loose)
    BY <1>8 DEF RenewedBy, z
  <2>2. k + z = last + 1  BY <1>3, <1>9
  <2>q. QED BY <1>8, <2>1, <2>2 DEF RenewedBy
<1>11. k \in Int /\ last \in Int /\ b \in Int /\ n \in Int /\ k >= 1 /\ k <= n /\ b <= n /\ b >= last
  <2>1. k \in 1 .. n /\ b \in k + 2 .. n  BY <1>9 DEF n
  <2>2. last \in Int  BY <1>3, <2>1
  <2> HIDE DEF n, last
  <2>3. b >= last  BY <2>1, <2>2, <1>10
  <2>q. QED BY <1>2, <2>1, <2>2, <2>3
<1>12. OneSplice(ledger, after, p, k - 1, b, LinesOf(y))
  <2> HIDE DEF last
  <2> DEFINE mid == LinesOf(y)
             a   == k - 1
  <2>1. Changed(ledger[p], new, a, b, mid)  BY <1>10 DEF old
  <2> HIDE DEF mid, a
  <2>2. OneSplice(ledger, after, p, a, b, mid)  BY <1>4, <2>1, ChangedSplice
  <2>q. QED BY <2>2 DEF mid, a
<1>13. LinesOf(y) \in Seq(Line) /\ Len(LinesOf(y)) = 3 /\ LinesOf(y)[1] = <<y, 1>> /\ y \in Directive
  <2>1. y \in Directive  BY <1>9, CommentedShape
  <2>2. /\ LinesOf(y) \in Seq(Line) /\ Len(LinesOf(y)) = Height(y)
        /\ \A i \in 1 .. Height(y) : LinesOf(y)[i] = <<y, i>>
    BY <2>1, LinesOfShape
  <2>3. 1 \in 1 .. 3  OBVIOUS
  <2>q. QED BY <1>9, <2>1, <2>2, <2>3
<1>14. Spliced(old.lines, k - 1, b, LinesOf(y), after[p].lines)
  <2> DEFINE mid == LinesOf(y)
             a   == k - 1
  <2>1. OneSplice(ledger, after, p, a, b, mid)  BY <1>12
  <2> HIDE DEF mid, a
  <2>2. FileSpliced(ledger[p], a, b, mid, after[p])  BY <2>1 DEF OneSplice
  <2>3. Spliced(ledger[p].lines, a, b, mid, after[p].lines)  BY <2>2 DEF FileSpliced
  <2>q. QED BY <2>3 DEF mid, a, old
<1> HIDE DEF last, n
<1>15. Stopped(after[p].lines, k - 1)
  <2> DEFINE mid == LinesOf(y)
             a   == k - 1
             new1 == after[p].lines
  <2>1. Spliced(old.lines, a, b, mid, new1)  BY <1>14
  <2>2. 1 \in 1 .. Len(mid) /\ mid[1] = <<y, 1>>  BY <1>13
  <2> HIDE DEF mid, a, new1, old
  <2>3. new1[a + 1] = <<y, 1>>  BY <2>1, <2>2 DEF Spliced
  <2>4. ~IsIndented(<<y, 1>>)  BY <1>13, HeadStops
  <2>5. Stopped(new1, a)  BY <2>3, <2>4 DEF Stopped
  <2>q. QED BY <2>5 DEF new1, a
<1>16. ASSUME NEW e \in 1 .. k - 1
       PROVE  e < Len(old.lines) /\ e < Len(after[p].lines)
  <2>1. k - 1 < Len(old.lines)  BY <1>11 DEF n
  <2> DEFINE a == k - 1
             mid == LinesOf(y)
  <2>2. Spliced(old.lines, a, b, mid, after[p].lines) /\ Len(mid) >= 1 /\ a < Len(old.lines)
        /\ e \in 1 .. a
    BY <1>13, <1>14, <2>1
  <2> HIDE DEF a, mid
  <2>q. QED BY <1>2, <2>2, AboveIsInside
<1>17. b < Len(old.lines) => after[p].ended = old.ended
  <2>1. b < n => last < n  BY <1>11
  <2>q. QED BY <1>5, <1>7, <2>1 DEF n
<1>18. ASSUME NEW j \in Headers(old), j > last PROVE j > b
  <2>1. j \in 1 .. Len(old.lines) /\ old.lines[j][2] = 1  BY <1>2, EndOfBlock
  <2>2. j \in Int  BY <2>1
  <2>3. b = last + 1 => j # b
    <3> SUFFICES ASSUME b = last + 1, j = b PROVE FALSE  OBVIOUS
    <3>1. b # last  BY <1>11
    <3>2. old.lines[j] \in Loose  BY <1>10, <3>1
    <3>3. old.lines[j][2] = 0  BY <3>2, LineShape
    <3>q. QED BY <2>1, <3>3
  <2>q. QED BY <1>10, <1>11, <1>18, <2>2, <2>3
<1>19. ASSUME NEW ref \in DOMAIN next PROVE Tracks(after, base, next, ref)
  <2> DEFINE a == k - 1
             mid == LinesOf(y)
  <2>1. k <= a + 1 /\ OneSplice(ledger, after, p, a, b, mid) /\ Stopped(after[p].lines, a)
    BY <1>11, <1>12, <1>15
  <2> HIDE DEF a, mid
  <2>2. \A e \in 1 .. k - 1 : (e < Len(ledger[p].lines) \/ ledger[p].ended)
                                   <=> (e < Len(after[p].lines) \/ after[p].ended)
    BY <1>16 DEF old
  <2>3. \A j \in Headers(ledger[p]) : j > last => j > b  BY <1>18 DEF old
  <2>4. b < Len(ledger[p].lines) => after[p].ended = ledger[p].ended  BY <1>17 DEF old
  <2>5. \A r \in DOMAIN pos : Tracks(ledger, base, pos, r)  BY DEF Tracked
  <2>6. next = SplicedAt(pos, p, k, last, ledger, after)  OBVIOUS
  <2> HIDE DEF next
  <2>q. QED BY <1>11, <2>1, <2>2, <2>3, <2>4, <2>5, <2>6, ShiftTracks
<1>q. QED BY <1>1, <1>19 DEF Tracked, old, k, z, last

\* ... through a deletion of what stands at a line ...
LEMMA DeleteTracks ==
    ASSUME NEW ledger \in WholeLedger, NEW after \in WholeLedger, NEW edit,
           edit.kind = "delete", edit.path \in Path,
           edit.start \in Headers(ledger[edit.path]),
           edit.old = TextAt(ledger[edit.path], edit.start),
           after = Edited(ledger, edit),
           NEW base, NEW pos, Tracked(ledger, base, pos)
    PROVE  Tracked(after, base, Followed(pos, edit, ledger, after))
<1> DEFINE p     == edit.path
           old   == ledger[p]
           k     == edit.start
           new   == Deleted(old, edit.old, k)
           h     == Size(edit.old)
           last  == k + h - 1
           next  == SplicedAt(pos, p, k, last, ledger, after)
<1>1. Followed(pos, edit, ledger, after) = next  BY FollowedIs
<1>2. old \in File /\ Whole(old.lines) /\ old.lines \in Seq(Line)
  BY LedgerFiles DEF WholeLedger
<1>3. /\ edit.old \in Text /\ Bears(old.lines, edit.old, k)
      /\ EndOf(old, k) = last /\ last \in k + 2 .. Len(old.lines) /\ k \in 1 .. Len(old.lines)
      /\ last = Len(old.lines) \/ ~IsIndented(old.lines[last + 1])
  <2>1. k \in Headers(old) /\ edit.old = TextAt(old, k)  OBVIOUS
  <2> HIDE DEF old, k
  <2>2. /\ TextAt(old, k) \in Text /\ k \in 1 .. Len(old.lines)
        /\ EndOf(old, k) = k + Size(TextAt(old, k)) - 1
        /\ EndOf(old, k) \in k + 2 .. Len(old.lines)
        /\ Bears(old.lines, TextAt(old, k), k)
    BY <1>2, <2>1, TextAtHeader
  <2>3. EndOf(old, k) = Len(old.lines) \/ ~IsIndented(old.lines[EndOf(old, k) + 1])
    BY <1>2, <2>1, EndOfBlock
  <2>4. EndOf(old, k) = last  BY <2>1, <2>2
  <2> HIDE DEF last
  <2>q. QED BY <2>1, <2>2, <2>3, <2>4
<1>4. Rewritten(ledger, after, p, new)  BY DEF Edited, IsAppend, Rewritten
<1>5. /\ Changed(old, new, k - 1, last, <<>>)
      /\ new.ended = (old.ended \/ last = Len(old.lines))
  BY <1>2, <1>3, DeletedIs
<1>6. OneSplice(ledger, after, p, k - 1, last, <<>>) /\ after[p] = new
  <2> DEFINE none == <<>>
             a    == k - 1
  <2>1. Changed(old, new, a, last, none)  BY <1>5
  <2> HIDE DEF new, k, last, none, a
  <2>2. OneSplice(ledger, after, p, a, last, none) /\ after[p] = new
    BY <1>4, <2>1, ChangedSplice
  <2>q. QED BY <2>2 DEF none, a
<1>7. /\ k \in 1 .. Len(old.lines) /\ last \in 1 .. Len(old.lines) /\ last \in Int /\ k \in Int
      /\ Len(old.lines) \in Nat
  <2> DEFINE n == Len(old.lines)
  <2>1. k \in 1 .. n /\ last \in k + 2 .. n  BY <1>3
  <2>2. n \in Nat  BY <1>2, FileShape
  <2> HIDE DEF n, k, last
  <2>3. k \in 1 .. n /\ last \in 1 .. n /\ last \in Int /\ k \in Int  BY <2>1, <2>2
  <2>q. QED BY <2>2, <2>3 DEF n
<1>9. k <= (k - 1) + 1
  <2> HIDE DEF k
  <2>q. QED BY <1>7
<1>10. last < Len(old.lines) => after[p].ended = old.ended
  <2>1. old.ended \in BOOLEAN  BY <1>2, FileShape
  <2> DEFINE n == Len(old.lines)
             x == old.ended
             y == after[p].ended
  <2>2. n \in Nat /\ last \in Int /\ (y = (x \/ last = n)) /\ x \in BOOLEAN
    BY <1>5, <1>6, <1>7, <2>1
  <2> HIDE DEF n, x, y, last
  <2>3. last < n => last # n  BY <2>2
  <2>4. last < n => y = x  BY <2>2, <2>3
  <2>q. QED BY <2>4 DEF n, x, y
<1>11. ASSUME NEW e \in 1 .. k - 1
       PROVE  /\ e < Len(old.lines) \/ old.ended
              /\ e < Len(after[p].lines) \/ after[p].ended
  <2>1. Spliced(old.lines, k - 1, last, <<>>, after[p].lines)
    BY <1>6 DEF OneSplice, FileSpliced
  <2>2. CASE last < Len(old.lines)
    <3> DEFINE n == Len(old.lines)
    <3>1. k \in 1 .. n /\ n \in Nat  BY <1>7
    <3> HIDE DEF k, old, last
    <3>2. k - 1 < Len(old.lines)
      <4> HIDE DEF n
      <4>1. k - 1 < n  BY <3>1
      <4>q. QED BY <4>1 DEF n
    <3>3. e < Len(old.lines) /\ e < Len(after[p].lines)
      BY <1>2, <2>1, <2>2, <3>2, AboveIsInside
    <3>q. QED BY <3>3
  <2>3. CASE ~(last < Len(old.lines))
    <3> DEFINE n == Len(old.lines)
    <3>1. n \in Nat /\ last \in 1 .. n /\ ~(last < n) /\ k \in 1 .. n /\ e \in 1 .. k - 1
      BY <1>7, <2>3
    <3>2. last = n => after[p].ended
      BY <1>5, <1>6
    <3> HIDE DEF n, last, k
    <3>3. last = n  BY <3>1
    <3>4. e < n  BY <3>1
    <3>q. QED BY <3>2, <3>3, <3>4 DEF n
  <2>q. QED BY <2>2, <2>3
<1>12. \A j \in Headers(old) : j > last => j > last  OBVIOUS
<1>13. Stopped(after[p].lines, k - 1)
  <2> DEFINE a == k - 1
             n == Len(old.lines)
             new1 == after[p].lines
             none == <<>>
  <2>1. Spliced(old.lines, a, last, none, new1)  BY <1>6 DEF OneSplice, FileSpliced
  <2>2. Len(none) = 0  OBVIOUS
  <2>3. /\ k \in Int /\ last \in Int /\ n \in Nat /\ last <= n /\ k - 1 = a /\ a \in Int
        /\ last = n \/ ~IsIndented(old.lines[last + 1])
    <3>1. last \in 1 .. n /\ k \in Int /\ n \in Nat  BY <1>7
    <3>2. last = n \/ ~IsIndented(old.lines[last + 1])  BY <1>3
    <3> HIDE DEF k, last, n, old
    <3>q. QED BY <3>1, <3>2
  <2> HIDE DEF none, last, k, a, new1
  <2>4. /\ Len(new1) = n + 0 - (last - a)
        /\ \A i \in last + 1 .. n : new1[i + 0 - (last - a)] = old.lines[i]
    BY <2>1, <2>2 DEF Spliced
  <2> HIDE DEF n, old
  <2>5. ASSUME a < Len(new1) PROVE ~IsIndented(new1[a + 1])
    <3> DEFINE l == Len(new1)
    <3>1. l = n + 0 - (last - a) /\ a < l  BY <2>4, <2>5
    <3> HIDE DEF l
    <3>2. last < n /\ last + 1 \in last + 1 .. n /\ (last + 1) + 0 - (last - a) = a + 1
      BY <2>3, <3>1
    <3>3. new1[a + 1] = old.lines[last + 1]  BY <2>4, <3>2
    <3>4. last # n  BY <2>3, <3>2
    <3>q. QED BY <2>3, <3>3, <3>4
  <2>6. Stopped(new1, a)  BY <2>5 DEF Stopped
  <2>q. QED BY <2>3, <2>6 DEF new1, a
<1> HIDE DEF old, k, last
<1>14. ASSUME NEW ref \in DOMAIN next PROVE Tracks(after, base, next, ref)
  <2> DEFINE a == k - 1
             none == <<>>
  <2>1. k <= a + 1 /\ OneSplice(ledger, after, p, a, last, none) /\ Stopped(after[p].lines, a)
    BY <1>6, <1>9, <1>13
  <2> HIDE DEF a, none
  <2>2. \A e \in 1 .. k - 1 : (e < Len(ledger[p].lines) \/ ledger[p].ended)
                                   <=> (e < Len(after[p].lines) \/ after[p].ended)
    BY <1>11 DEF old
  <2>3. \A j \in Headers(ledger[p]) : j > last => j > last  OBVIOUS
  <2>4. last < Len(ledger[p].lines) => after[p].ended = ledger[p].ended  BY <1>10 DEF old
  <2>5. \A r \in DOMAIN pos : Tracks(ledger, base, pos, r)  BY DEF Tracked
  <2>6. next = SplicedAt(pos, p, k, last, ledger, after)  OBVIOUS
  <2> HIDE DEF next
  <2>q. QED BY <1>7, <2>1, <2>2, <2>3, <2>4, <2>5, <2>6, ShiftTracks
<1>q. QED BY <1>1, <1>14 DEF Tracked, k, last

\* ... through an append, which may end the last line of a file ...
LEMMA AppendTracks ==
    ASSUME NEW ledger \in WholeLedger, NEW after \in WholeLedger, NEW edit,
           IsAppend(edit), edit.says \in Seq(Directive), after = Edited(ledger, edit),
           NEW base, NEW pos, Tracked(ledger, base, pos)
    PROVE  Tracked(after, base, Followed(pos, edit, ledger, after))
<1> DEFINE p    == MonthPath
           old  == ledger[p]
           text == TextOf(edit.says)
           new  == Appended(old, text)
           n    == Len(old.lines)
<1>1. old \in File /\ Whole(old.lines) /\ old.lines \in Seq(Line) /\ p \in Path
  BY LedgerFiles, WrittenFiles DEF WholeLedger
<1>2. text \in Seq(Line) /\ Whole(text)  BY TextWhole
<1>3. Rewritten(ledger, after, p, new)  BY DEF Edited, IsAppend, Rewritten
<1>4. /\ new.ended = TRUE
      /\ \E mid : /\ mid \in Seq(Line) /\ Changed(old, new, n, n, mid)
                  /\ old.ended => mid = Below(text)
  BY <1>1, <1>2, AppendedIs
<1>5. PICK mid : /\ mid \in Seq(Line) /\ Changed(old, new, n, n, mid)
                 /\ old.ended => mid = Below(text)
  BY <1>4
<1>6. OneSplice(ledger, after, p, n, n, mid) /\ after[p] = new
  <2> HIDE DEF new, n
  <2>q. QED BY <1>1, <1>3, <1>5, ChangedSplice
<1>7. FileSpliced(old, n, n, mid, after[p]) /\ \A q \in Path \ {p} : after[q] = ledger[q]
  BY <1>6 DEF OneSplice
<1>8. n \in Nat  BY <1>1, LenProperties
<1>9. CASE old.ended
  <2>1. Followed(pos, edit, ledger, after) = pos  BY <1>9, FollowedIs
  <2>2. ASSUME NEW ref \in DOMAIN pos PROVE Tracks(after, base, pos, ref)
    <3> DEFINE k == pos[ref].start
    <3>1. Tracks(ledger, base, pos, ref)  BY DEF Tracked
    <3>2. CASE ref.path # p  BY <1>7, <3>1, <3>2 DEF Tracks
    <3>3. CASE ref.path = p
      <4>1. k \in Headers(old) /\ pos[ref].end = EndOf(old, k)  BY <3>1, <3>3 DEF Tracks
      <4>2. EndOf(old, k) <= n
        <5>1. EndOf(old, k) \in k + 2 .. n  BY <1>1, <4>1, EndOfBlock
        <5>2. k \in 1 .. n  BY <1>1, <4>1, EndOfBlock
        <5> HIDE DEF n, k
        <5>q. QED BY <1>8, <5>1, <5>2
      <4>3. new.ended /\ old.ended  BY <1>4, <1>9
      <4>5. Stopped(after[p].lines, n)
        <5>1. mid = Below(text)  BY <1>5, <1>9
        <5>2. Spliced(old.lines, n, n, mid, after[p].lines)  BY <1>7 DEF FileSpliced
        <5>3. Spliced(text, 0, 0, <<Blank>>, Below(text)) /\ Len(<<Blank>>) = 1
              /\ <<Blank>>[1] = Blank /\ Len(text) \in Nat
          BY <1>2, BelowShape, LenProperties
        <5>4. Below(text)[1] = Blank /\ Len(Below(text)) = Len(text) + 1
          <6> DEFINE one == <<Blank>>
                     all == Below(text)
                     l == Len(text)
          <6>1. Len(one) = 1 /\ one[1] = Blank /\ l \in Nat /\ Spliced(text, 0, 0, one, all)
            BY <5>3
          <6> HIDE DEF one, all, text
          <6>2. Len(all) = l + Len(one) - (0 - 0) /\ \A i \in 1 .. Len(one) : all[0 + i] = one[i]
            BY <6>1 DEF Spliced
          <6> HIDE DEF l
          <6>3. all[1] = Blank /\ Len(all) = l + 1  BY <6>1, <6>2
          <6>q. QED BY <6>3 DEF all, l
        <5>5. Len(mid) >= 1 /\ mid[1] = Blank
          <6> DEFINE l == Len(text)
          <6>1. l \in Nat /\ Len(mid) = l + 1 /\ mid[1] = Blank  BY <5>1, <5>3, <5>4
          <6> HIDE DEF l
          <6>q. QED BY <6>1
        <5> HIDE DEF text, n
        <5>6. after[p].lines[n + 1] = Blank
          <6>1. 1 \in 1 .. Len(mid)  BY <1>5, <5>5, LenProperties
          <6>q. QED BY <5>2, <5>5, <6>1 DEF Spliced
        <5>7. ~IsIndented(Blank)  BY LineShape DEF IsIndented, Blank, Note, Meta
        <5>q. QED BY <5>6, <5>7 DEF Stopped
      <4> HIDE DEF old, n, k, new
      <4>4. StandsOn(old, k, after[p], k) /\ EndOf(after[p], k) = EndOf(old, k)
        BY <1>6, <1>7, <4>1, <4>2, <4>3, <4>5, StaysAbove
      <4>q. QED BY <3>1, <3>3, <4>1, <4>4 DEF Tracks, StandsOn, old, k
    <3>q. QED BY <3>2, <3>3
  <2>q. QED BY <2>1, <2>2 DEF Tracked
<1>10. CASE ~old.ended
  <2> DEFINE next == SplicedAt(pos, p, n, n, ledger, after)
  <2>1. Followed(pos, edit, ledger, after) = next  BY <1>10, FollowedIs
  <2>2. ASSUME NEW e \in 1 .. n - 1
        PROVE  e < n /\ e < Len(after[p].lines)
    <3> DEFINE l == Len(after[p].lines)
               m == Len(mid)
    <3>1. m \in Nat /\ l = n + m - (n - n)
      BY <1>5, <1>7, LenProperties DEF FileSpliced, Spliced
    <3> HIDE DEF n, l, m
    <3>2. e < n /\ e < l  BY <1>8, <3>1
    <3>q. QED BY <3>2 DEF l
  <2>3. n \in Int /\ n <= n + 1 /\ ~(n < n)
    <3> HIDE DEF n
    <3>q. QED BY <1>8
  <2> HIDE DEF next
  <2>4. ASSUME NEW ref \in DOMAIN next PROVE Tracks(after, base, next, ref)
    <3>1. \A e \in 1 .. n - 1 :
              (e < Len(ledger[p].lines) \/ ledger[p].ended)
                  <=> (e < Len(after[p].lines) \/ after[p].ended)
      BY <2>2
    <3>2. n < Len(ledger[p].lines) => after[p].ended = ledger[p].ended  BY <2>3
    <3>3. \A j \in Headers(ledger[p]) : j > n => j > n  OBVIOUS
    <3>4. \A x \in DOMAIN pos : Tracks(ledger, base, pos, x)  BY DEF Tracked
    <3>5. next = SplicedAt(pos, p, n, n, ledger, after)  BY DEF next
    <3> HIDE DEF n
    <3>6. n # n + 1  BY <2>3
    <3>q. QED BY <1>6, <2>3, <3>1, <3>2, <3>3, <3>4, <3>5, <3>6, ShiftTracks
  <2>q. QED BY <2>1, <2>4 DEF Tracked
<1>q. QED BY <1>9, <1>10

\* ... through an account opening, which moves no line ...
LEMMA OpenTracks ==
    ASSUME NEW ledger \in WholeLedger, NEW after, NEW edit,
           edit.kind = "open", edit.opens \in Opening, after = Edited(ledger, edit),
           NEW base, NEW pos, Tracked(ledger, base, pos)
    PROVE  Tracked(after, base, Followed(pos, edit, ledger, after))
<1>1. Followed(pos, edit, ledger, after) = pos  BY FollowedIs
<1>2. \A q \in Path : after[q].lines = ledger[q].lines /\ after[q].ended = ledger[q].ended
  <2>1. after = [ledger EXCEPT ![MainPath].opens = @ \cup {edit.opens}]
    BY DEF Edited, IsAppend
  <2>2. ledger \in Ledger /\ MainPath \in Path  BY WrittenFiles DEF WholeLedger
  <2>q. QED BY <2>1, <2>2, OpenedIs
<1>3. ASSUME NEW ref \in DOMAIN pos PROVE Tracks(after, base, pos, ref)
  <2> DEFINE q == ref.path
             k == pos[ref].start
  <2>1. Tracks(ledger, base, pos, ref)  BY DEF Tracked
  <2>2. q \in Path  BY <2>1 DEF Tracks
  <2>3. after[q].lines = ledger[q].lines /\ after[q].ended = ledger[q].ended  BY <1>2, <2>2
  <2>4. Headers(after[q]) = Headers(ledger[q])  BY <2>3 DEF Headers
  <2>5. EndOf(after[q], k) = EndOf(ledger[q], k)  BY <2>3 DEF EndOf
  <2>6. TextAt(after[q], k) = TextAt(ledger[q], k)  BY <2>3, <2>5 DEF TextAt
  <2>q. QED BY <2>1, <2>4, <2>5, <2>6 DEF Tracks
<1>q. QED BY <1>1, <1>3 DEF Tracked

\* References that are tracked through an edit lead where they led: Followed moves
\* them as the edit moves the lines they stand on (runtime.py, the positions that
\* prepare keeps for its caller).
THEOREM EditTracks ==
    ASSUME NEW ledger \in WholeLedger, NEW after \in WholeLedger, NEW edit \in Edit,
           EditPossible(ledger, edit), after = Edited(ledger, edit),
           edit.kind = "delete" => /\ edit.start \in Headers(ledger[edit.path])
                                   /\ edit.old = TextAt(ledger[edit.path], edit.start),
           NEW base, NEW pos, Tracked(ledger, base, pos)
    PROVE  Tracked(after, base, Followed(pos, edit, ledger, after))
<1>1. \/ IsAppend(edit) /\ edit.says \in Seq(Directive)
      \/ edit.kind = "open" /\ edit.opens \in Opening
      \/ /\ edit.kind = "replace" /\ edit.path \in Path
         /\ edit.old \in Text /\ edit.new \in Transaction
      \/ /\ edit.kind = "delete" /\ edit.path \in Path /\ edit.old \in Text
  BY EditsAreOK DEF EditOK
<1>q. QED BY <1>1, AppendTracks, OpenTracks, ReplaceTracks, DeleteTracks

-----------------------------------------------------------------------------
(* The invariant.                                                          *)

-----------------------------------------------------------------------------
(* Reconciliations.                                                        *)

\* What stands in a ledger after an edit and not before, and the copies of one
\* directive among it.
Fresh(ledger, after) == Placed(after) \ Placed(ledger)

FreshOf(ledger, after, d) == {e \in Fresh(ledger, after) : e.says = d}

\* How often a text has one directive.
Often(ds, d) == Times(ds, Len(ds), {d})

\* What an append adds to a ledger's entries is what it appends.
LEMMA FreshEntries ==
    ASSUME NEW ledger, Sound(ledger), NEW edit, IsAppend(edit), edit.says \in Seq(Directive),
           NEW after, after = Edited(ledger, edit)
    PROVE  /\ \A e \in Fresh(ledger, after) :
                 \E i \in 1 .. Len(edit.says) : e.says = edit.says[i]
           /\ \A d : /\ IsFiniteSet(FreshOf(ledger, after, d))
                     /\ Cardinality(FreshOf(ledger, after, d))
                            = Often(edit.says, d)
<1> DEFINE n == Len(edit.says)
           Old(d) == {e \in Placed(ledger) : e.says = d}
           New(d) == {e \in Placed(after) : e.says = d}
           F(d) == FreshOf(ledger, after, d)
<1>1. /\ ledger \in Ledger /\ after \in Ledger /\ Placed(ledger) \subseteq Placed(after)
      /\ \A D : /\ CopiesAmong(after, D) = CopiesAmong(ledger, D) + Times(edit.says, n, D)
                /\ Times(edit.says, n, D) \in Nat
  BY AppendPlaces
<1>2. IsFiniteSet(Placed(ledger)) /\ IsFiniteSet(Placed(after))  BY <1>1, PlacedShape
<1>3. ASSUME NEW d PROVE IsFiniteSet(F(d)) /\ Cardinality(F(d)) = Times(edit.says, n, {d})
  <2>1. Old(d) \subseteq New(d) /\ F(d) = New(d) \ Old(d)  BY <1>1 DEF Fresh, FreshOf
  <2>2. IsFiniteSet(New(d)) /\ IsFiniteSet(Old(d))
    <3>1. New(d) \subseteq Placed(after) /\ Old(d) \subseteq Placed(ledger)  OBVIOUS
    <3> HIDE DEF New, Old
    <3>q. QED BY <1>2, <3>1, FS_Subset
  <2>3. /\ CopiesAmong(after, {d}) = Cardinality(New(d))
        /\ CopiesAmong(ledger, {d}) = Cardinality(Old(d))
    <3>1. New(d) = {e \in Placed(after) : e.says \in {d}}  OBVIOUS
    <3>2. Old(d) = {e \in Placed(ledger) : e.says \in {d}}  OBVIOUS
    <3> HIDE DEF New, Old
    <3>q. QED BY <3>1, <3>2 DEF CopiesAmong
  <2> DEFINE S == New(d)
             R == Old(d)
             T == F(d)
  <2>4. R \subseteq S /\ T = S \ R /\ IsFiniteSet(S) /\ IsFiniteSet(R)  BY <2>1, <2>2
  <2> HIDE DEF S, R, T
  <2>5. S \cap R = R  BY <2>4
  <2>6. IsFiniteSet(T) /\ Cardinality(T) = Cardinality(S) - Cardinality(S \cap R)
    BY <2>4, FS_Difference
  <2>7. Cardinality(R) \in Nat  BY <2>4, FS_CardinalityType
  <2>8. /\ Cardinality(S) = Cardinality(R) + Times(edit.says, n, {d})
        /\ Times(edit.says, n, {d}) \in Nat
    BY <1>1, <2>3 DEF S, R
  <2> DEFINE t == Times(edit.says, n, {d})
             s == Cardinality(S)
             r == Cardinality(R)
  <2>9. s = r + t /\ t \in Nat /\ r \in Nat /\ Cardinality(T) = s - r
    BY <2>5, <2>6, <2>7, <2>8
  <2> HIDE DEF t, s, r
  <2>10. Cardinality(T) = t  BY <2>9
  <2>q. QED BY <2>6, <2>10 DEF T, t
<1>4. ASSUME NEW e \in Fresh(ledger, after) PROVE \E i \in 1 .. n : e.says = edit.says[i]
  <2> DEFINE d == e.says
  <2>1. e \in F(d)  BY DEF FreshOf
  <2> HIDE DEF d, F
  <2>2. Cardinality(F(d)) # 0  BY <1>3, <2>1, FS_EmptySet
  <2>3. n \in Nat  BY LenProperties
  <2> HIDE DEF n
  <2>4. Times(edit.says, n, {d}) # 0  BY <1>3, <2>2
  <2> DEFINE ds == edit.says
             D  == {d}
  <2>5. Times(ds, n, D) # 0  BY <2>4
  <2> HIDE DEF ds, D
  <2>6. \E i \in 1 .. n : ds[i] \in D  BY <2>3, <2>5, TimesGrow
  <2>q. QED BY <2>6 DEF d, ds, D
<1>5. \A d : Often(edit.says, d) = Times(edit.says, n, {d})  BY DEF Often
<1> HIDE DEF n, F
<1>6. \A d : IsFiniteSet(F(d)) /\ Cardinality(F(d)) = Often(edit.says, d)  BY <1>3, <1>5
<1>q. QED BY <1>4, <1>6 DEF F, n

\* One more transaction of the commodity adds its share to a balance.
LEMMA OneMorePart ==
    ASSUME NEW ledger \in Ledger, NEW after \in Ledger, NEW accounts, NEW cur, NEW before,
           NEW y, y \notin Parts(ledger, cur, before),
           Parts(after, cur, before) = Parts(ledger, cur, before) \cup {y}
    PROVE  /\ Total(after, accounts, cur, before)
                 = Share(y.says, accounts) + Total(ledger, accounts, cur, before)
           /\ Total(ledger, accounts, cur, before) \in Int
<1> DEFINE S == Parts(ledger, cur, before)
           T == Parts(after, cur, before)
           w == Weights(ledger, accounts, cur, before)
           v == Weights(after, accounts, cur, before)
<1>1. /\ IsFiniteSet(S) /\ w \in [S -> Int] /\ Total(ledger, accounts, cur, before) \in Int
      /\ \E h : Summing(S, w, h) /\ Total(ledger, accounts, cur, before) = h[S]
  BY TotalShape
<1>2. /\ IsFiniteSet(T) /\ v \in [T -> Int]
      /\ \E h : Summing(T, v, h) /\ Total(after, accounts, cur, before) = h[T]
  BY TotalShape
<1>3. PICK h : Summing(S, w, h) /\ Total(ledger, accounts, cur, before) = h[S]  BY <1>1
<1>4. PICK j : Summing(T, v, j) /\ Total(after, accounts, cur, before) = j[T]  BY <1>2
<1>5. y \notin S /\ T = S \cup {y}  OBVIOUS
<1>6. \A x \in S : w[x] = v[x]  BY <1>5 DEF Weights
<1>7. v[y] = Share(y.says, accounts)  BY <1>5 DEF Weights
<1> HIDE DEF S, T, w, v
<1>8. j[T] = v[y] + j[T \ {y}]
  <2>1. T \in SUBSET T /\ y \in T  BY <1>5
  <2>q. QED BY <1>2, <1>4, <2>1, SumPicks
<1>9. T \ {y} = S  BY <1>5
<1>10. h[S] = j[S]
  <2>1. S \in SUBSET (S \cap T)  BY <1>5
  <2>2. Recurs(S, w, h) /\ Recurs(T, v, j)  BY <1>3, <1>4 DEF Summing
  <2>q. QED BY <1>1, <1>2, <1>6, <2>1, <2>2, SumsAgree
<1>q. QED BY <1>1, <1>3, <1>4, <1>7, <1>8, <1>9, <1>10

\* The only transaction of a text, and only once in it.
OnlyOne(ds, adj) ==
    /\ Often(ds, adj) = 1
    /\ \A i \in 1 .. Len(ds) : ds[i].kind = "txn" => ds[i] = adj

\* The adjustment a reconciliation makes on a ledger with a known balance.
Adjusting(adj, ledger, op, date, target) ==
    /\ adj = Adjustment(ledger, op, date, target)
    /\ CurrentAmount(ledger, op.account, date, op.cur) # {}

\* An adjustment takes the balance to its target.
LEMMA Adjusts ==
    ASSUME NEW ledger, Sound(ledger), NEW edit, IsAppend(edit), edit.says \in Seq(Directive),
           NEW after, after = Edited(ledger, edit),
           NEW op, NEW date \in Int, NEW target \in Int,
           op.account \in Account, op.other \notin Under[op.account],
           NEW adj, Adjusting(adj, ledger, op, date, target),
           OnlyOne(edit.says, adj)
    PROVE  Total(after, Under[op.account], op.cur, date) = target
<1> DEFINE accounts == Under[op.account]
           n == CHOOSE n \in CurrentAmount(ledger, op.account, date, op.cur) : TRUE
           S == Parts(ledger, op.cur, date)
           T == Parts(after, op.cur, date)
<1>1. /\ ledger \in Ledger /\ after \in Ledger /\ Placed(ledger) \subseteq Placed(after)
  BY AppendPlaces
<1>2. n = Total(ledger, accounts, op.cur, date) /\ n \in Int
  <2>1. n \in CurrentAmount(ledger, op.account, date, op.cur)  BY DEF Adjusting
  <2> HIDE DEF n
  <2>q. QED BY <1>1, <2>1, CurrentIs
<1>3. adj = [kind |-> "txn", date |-> date - 1, to |-> op.account, from |-> op.other,
             amount |-> target - n, cur |-> op.cur, note |-> FALSE]
  BY DEF Adjustment, Adjusting
<1> HIDE DEF n
<1>4. /\ adj.kind = "txn" /\ adj.date < date /\ adj.cur = op.cur
      /\ Share(adj, accounts) = target - n
  <2>1. op.account \in accounts  BY AccountAssumption
  <2>2. (target - n) - 0 = target - n  BY <1>2
  <2>3. date - 1 < date  OBVIOUS
  <2>q. QED BY <1>3, <2>1, <2>2, <2>3 DEF Share
<1>5. PICK y : FreshOf(ledger, after, adj) = {y}
  <2>1. /\ IsFiniteSet(FreshOf(ledger, after, adj))
        /\ Cardinality(FreshOf(ledger, after, adj)) = 1
    BY FreshEntries DEF OnlyOne
  <2>q. QED BY <2>1, FS_Singleton
<1>6. y \in Placed(after) /\ y \notin Placed(ledger) /\ y.says = adj
  BY <1>5 DEF FreshOf, Fresh
<1>7. T = S \cup {y}
  <2>1. ASSUME NEW x \in T PROVE x \in S \/ x = y
    <3>1. /\ x \in Placed(after) /\ x.says.kind = "txn" /\ x.says.date < date
          /\ x.says.cur = op.cur
      BY DEF Parts, Transactions
    <3>2. CASE x \in Placed(ledger)  BY <3>1, <3>2 DEF Parts, Transactions
    <3>3. CASE x \notin Placed(ledger)
      <4>1. x \in Fresh(ledger, after)  BY <3>1, <3>3 DEF Fresh
      <4>2. PICK i \in 1 .. Len(edit.says) : x.says = edit.says[i]  BY <4>1, FreshEntries
      <4>3. x.says = adj  BY <3>1, <4>2 DEF OnlyOne
      <4>4. x \in FreshOf(ledger, after, adj)  BY <4>1, <4>3 DEF FreshOf
      <4>q. QED BY <1>5, <4>4
    <3>q. QED BY <3>2, <3>3
  <2>2. S \subseteq T  BY <1>1 DEF Parts, Transactions
  <2>3. y \in T  BY <1>4, <1>6 DEF Parts, Transactions
  <2>q. QED BY <2>1, <2>2, <2>3
<1>8. y \notin S  BY <1>6 DEF Parts, Transactions
<1> HIDE DEF S, T
<1>9. Total(after, accounts, op.cur, date)
         = Share(y.says, accounts) + Total(ledger, accounts, op.cur, date)
  BY <1>1, <1>7, <1>8, OneMorePart DEF S, T
<1>10. Total(after, accounts, op.cur, date) = (target - n) + n
  BY <1>2, <1>4, <1>6, <1>9
<1>q. QED BY <1>2, <1>10

\* The assertions that stand in a ledger.
LEMMA CheckpointIs ==
    ASSUME NEW ledger, NEW a, NEW date, NEW cur, NEW n
    PROVE  n \in Checkpoints(ledger, a, date, cur) <=>
               \E e \in Placed(ledger) :
                  /\ e.says.kind = "balance" /\ e.says.account = a /\ e.says.date = date
                  /\ e.says.cur = cur /\ e.says.number = n
<1>1. \A d : d \in Said(ledger, "balance") <=>
                \E e \in Placed(ledger) : e.says.kind = "balance" /\ e.says = d
  BY DEF Said
<1>2. n \in Checkpoints(ledger, a, date, cur) <=>
         \E d \in Said(ledger, "balance") :
             d.account = a /\ d.date = date /\ d.cur = cur /\ d.number = n
  BY DEF Checkpoints
<1>q. QED BY <1>1, <1>2

\* The first one or two of a sequence.
LEMMA FewTimes ==
    ASSUME NEW ds, NEW D
    PROVE  Times(ds, 1, D) = One(ds[1], D) /\ Times(ds, 2, D) = One(ds[1], D) + One(ds[2], D)
<1>1. Times(ds, 0, D) = 0 /\ Times(ds, 0 + 1, D) = Times(ds, 0, D) + One(ds[0 + 1], D)
  BY TimesGrow
<1>2. Times(ds, 1 + 1, D) = Times(ds, 1, D) + One(ds[1 + 1], D)  BY TimesGrow
<1>3. 0 + 1 = 1 /\ 1 + 1 = 2 /\ One(ds[1], D) \in Nat /\ One(ds[2], D) \in Nat  BY DEF One
<1>q. QED BY <1>1, <1>2, <1>3

\* The plan of a reconciliation has two directives, that of a rebalance one.
IsPair(ds, x, y) == ds = <<x, y>>
IsAlone(ds, x) == ds = <<x>>

\* One of a pair.
LEMMA OnceInPair ==
    ASSUME NEW x, NEW y, x # y, NEW ds, IsPair(ds, x, y)
    PROVE  /\ Often(ds, x) = 1 /\ Often(ds, y) = 1
           /\ \A i \in 1 .. Len(ds) : ds[i] = x \/ ds[i] = y
<1>1. ds[1] = x /\ ds[2] = y /\ Len(ds) = 2  BY DEF IsPair
<1>2. One(x, {x}) + One(y, {x}) = 1 /\ One(x, {y}) + One(y, {y}) = 1  BY DEF One
<1>3. \A i \in 1 .. 2 : i = 1 \/ i = 2  OBVIOUS
<1>q. QED BY <1>1, <1>2, <1>3, FewTimes DEF Often

\* One on its own.
LEMMA OnceAlone ==
    ASSUME NEW x, NEW ds, IsAlone(ds, x)
    PROVE  Often(ds, x) = 1 /\ \A i \in 1 .. Len(ds) : ds[i] = x
<1>1. ds[1] = x /\ Len(ds) = 1  BY DEF IsAlone
<1>2. One(x, {x}) = 1  BY DEF One
<1>3. \A i \in 1 .. 1 : i = 1  OBVIOUS
<1>q. QED BY <1>1, <1>2, <1>3, FewTimes DEF Often

\* A reconciliation that is allowed brings the balance to its target, and its assertion
\* is the only one of the day.
LEMMA ReconcileHits ==
    ASSUME NEW ledger, Sound(ledger), NEW op \in Operation, op.kind = "reconcile",
           Allowed(ledger, op), NEW after, after = Edited(ledger, EditOf(ledger, op)),
           op.other \notin Under[op.account]
    PROVE  /\ Total(after, Under[op.account], op.cur, AssertionDate(op)) = op.amount
           /\ Checkpoints(after, op.account, AssertionDate(op), op.cur) = {op.amount}
<1> DEFINE edit == EditOf(ledger, op)
           date == AssertionDate(op)
           adj  == Adjustment(ledger, op, date, op.amount)
           bal  == [kind |-> "balance", account |-> op.account, date |-> date,
                    number |-> op.amount, cur |-> op.cur]
<1>1. /\ op.account \in Account /\ op.observed \in Int /\ op.amount \in Int
  BY DEF Operation, Request
<1>2. date \in Int  BY <1>1 DEF AssertionDate
<1>3. /\ CurrentAmount(ledger, op.account, date, op.cur) # {}
      /\ Checkpoints(ledger, op.account, date, op.cur) = {}
  BY DEF Allowed, ReconcileAllowed, AdjustmentAllowed
<1>4. edit.kind = "append" /\ edit.says = <<adj, bal>>
  BY DEF EditOf, Append1, Reconciliation
<1>5. adj.kind = "txn" /\ bal.kind = "balance" /\ adj # bal
  <2>1. adj.kind = "txn" /\ bal.kind = "balance"  BY DEF Adjustment
  <2>q. QED BY <2>1
<1>6. edit \in Edit /\ IsAppend(edit) /\ edit.says \in Seq(Directive)
  <2>1. edit \in Edit  BY EditOfAllowed
  <2>2. IsAppend(edit)  BY <1>4 DEF IsAppend
  <2> HIDE DEF edit
  <2>q. QED BY <2>1, <2>2 DEF Edit, IsAppend
<1>7. /\ bal.account = op.account /\ bal.date = date /\ bal.number = op.amount
      /\ bal.cur = op.cur
  OBVIOUS
<1>8. adj = Adjustment(ledger, op, date, op.amount)  OBVIOUS
<1> HIDE DEF adj, bal, date, edit
<1> DEFINE ds == edit.says
<1>9. /\ Often(ds, adj) = 1 /\ Often(ds, bal) = 1
      /\ \A i \in 1 .. Len(ds) : ds[i] = adj \/ ds[i] = bal
  <2>1. IsPair(ds, adj, bal)  BY <1>4 DEF IsPair
  <2>2. adj # bal  BY <1>5
  <2> HIDE DEF ds
  <2>3. /\ Often(ds, adj) = 1
        /\ Often(ds, bal) = 1
    BY <2>1, <2>2, OnceInPair
  <2>q. QED BY <2>1, <2>2, <2>3, OnceInPair
<1>10. after = Edited(ledger, edit)  BY DEF edit
<1>11. Total(after, Under[op.account], op.cur, date) = op.amount
  <2>1. OnlyOne(edit.says, adj)  BY <1>5, <1>9 DEF OnlyOne
  <2> DEFINE target == op.amount
  <2>3. target \in Int /\ Adjusting(adj, ledger, op, date, target)  BY <1>1, <1>3, <1>8 DEF Adjusting
  <2> HIDE DEF target
  <2>4. Total(after, Under[op.account], op.cur, date) = target
    BY <1>1, <1>2, <1>3, <1>6, <1>10, <2>1, <2>3, Adjusts
  <2>q. QED BY <2>4 DEF target
<1>12. op.amount \in Checkpoints(after, op.account, date, op.cur)
  <2>1. /\ IsFiniteSet(FreshOf(ledger, after, bal))
        /\ Cardinality(FreshOf(ledger, after, bal)) = 1
    BY <1>6, <1>9, <1>10, FreshEntries
  <2>2. FreshOf(ledger, after, bal) # {}  BY <2>1, FS_EmptySet
  <2>3. PICK e \in Placed(after) : e.says = bal  BY <2>2 DEF FreshOf, Fresh
  <2>q. QED BY <1>5, <1>7, <2>3, CheckpointIs
<1>13. ASSUME NEW n \in Checkpoints(after, op.account, date, op.cur) PROVE n = op.amount
  <2>1. PICK e \in Placed(after) :
               /\ e.says.kind = "balance" /\ e.says.account = op.account /\ e.says.date = date
               /\ e.says.cur = op.cur /\ e.says.number = n
    BY CheckpointIs
  <2>2. e \notin Placed(ledger)
    <3> DEFINE S == Checkpoints(ledger, op.account, date, op.cur)
    <3>1. n \notin S  BY <1>3
    <3> HIDE DEF S
    <3>2. n \notin Checkpoints(ledger, op.account, date, op.cur)  BY <3>1 DEF S
    <3>q. QED BY <2>1, <3>2, CheckpointIs
  <2>3. e \in Fresh(ledger, after)  BY <2>2 DEF Fresh
  <2>4. PICK i \in 1 .. Len(ds) : e.says = ds[i]  BY <1>6, <1>10, <2>3, FreshEntries
  <2>5. e.says = bal  BY <1>5, <1>9, <2>1, <2>4
  <2>q. QED BY <1>7, <2>1, <2>5
<1>q. QED BY <1>11, <1>12, <1>13 DEF date

\* A rebalance that is allowed brings the balance to an assertion of the day.
LEMMA RebalanceHits ==
    ASSUME NEW ledger, Sound(ledger), NEW op \in Operation, op.kind = "rebalance",
           Allowed(ledger, op), NEW after, after = Edited(ledger, EditOf(ledger, op)),
           op.other \notin Under[op.account]
    PROVE  Total(after, Under[op.account], op.cur, op.date)
               \in Checkpoints(after, op.account, op.date, op.cur)
<1> DEFINE edit   == EditOf(ledger, op)
           date   == op.date
           target == CHOOSE n \in Checkpoints(ledger, op.account, date, op.cur) : TRUE
           adj    == Adjustment(ledger, op, date, target)
<1>1. op.account \in Account /\ date \in Int  BY DEF Operation, Request
<1>2. /\ CurrentAmount(ledger, op.account, date, op.cur) # {}
      /\ Checkpoints(ledger, op.account, date, op.cur) # {}
  BY DEF Allowed, RebalanceAllowed, AdjustmentAllowed
<1>3. edit.kind = "append" /\ edit.says = <<adj>>
  BY DEF EditOf, Append1, Rebalance
<1>4. adj.kind = "txn"  BY DEF Adjustment
<1>5. edit \in Edit /\ IsAppend(edit) /\ edit.says \in Seq(Directive)
  <2>1. edit \in Edit  BY EditOfAllowed
  <2>2. IsAppend(edit)  BY <1>3 DEF IsAppend
  <2> HIDE DEF edit
  <2>q. QED BY <2>1, <2>2 DEF Edit, IsAppend
<1>6. target \in Checkpoints(ledger, op.account, date, op.cur)  BY <1>2
<1>7. Adjusting(adj, ledger, op, date, target) /\ after = Edited(ledger, edit)
  BY <1>2 DEF Adjusting
<1> HIDE DEF adj, date, edit, target
<1>8. PICK e \in Placed(ledger) :
             /\ e.says.kind = "balance" /\ e.says.account = op.account /\ e.says.date = date
             /\ e.says.cur = op.cur /\ e.says.number = target
  BY <1>6, CheckpointIs
<1>9. target \in Int
  <2>1. ledger \in Ledger  BY DEF Sound
  <2>2. e.says \in Directive  BY <2>1, PlacedShape
  <2>q. QED BY <1>8, <2>2 DEF Directive, Transaction, Price
<1>10. target \in Checkpoints(after, op.account, date, op.cur)
  <2>1. e \in Placed(after)  BY <1>5, <1>7, AppendPlaces
  <2>q. QED BY <1>8, <2>1, CheckpointIs
<1>11. OnlyOne(edit.says, adj)
  <2> DEFINE ds == edit.says
  <2>1. IsAlone(ds, adj)  BY <1>3 DEF IsAlone
  <2> HIDE DEF ds
  <2>2. Often(ds, adj) = 1 /\ \A i \in 1 .. Len(ds) : ds[i] = adj
    BY <2>1, OnceAlone
  <2>q. QED BY <2>2 DEF OnlyOne, ds
<1>12. Total(after, Under[op.account], op.cur, date) = target
  BY <1>1, <1>2, <1>5, <1>7, <1>9, <1>11, Adjusts
<1>q. QED BY <1>10, <1>12 DEF date

-----------------------------------------------------------------------------
(* The policy when it is published.                                        *)

\* No two entries of an index have the same reference.
LEMMA RefsDiffer ==
    ASSUME NEW ledger, NEW e \in IndexOf(ledger), NEW f \in IndexOf(ledger), e.ref = f.ref
    PROVE  e = f
<1> DEFINE Listing(p, k) == [ref |-> Ref(ledger, p, k), text |-> TextAt(ledger[p], k),
                           end |-> EndOf(ledger[p], k)]
<1>1. \A g \in IndexOf(ledger) : \E p \in Path : \E k \in Headers(ledger[p]) : g = Listing(p, k)
  BY DEF IndexOf, IndexOfFile
<1>2. PICK p \in Path : \E k \in Headers(ledger[p]) : e = Listing(p, k)  BY <1>1
<1>3. PICK k \in Headers(ledger[p]) : e = Listing(p, k)  BY <1>2
<1>4. PICK q \in Path : \E l \in Headers(ledger[q]) : f = Listing(q, l)  BY <1>1
<1>5. PICK l \in Headers(ledger[q]) : f = Listing(q, l)  BY <1>4
<1>6. /\ e.ref.path = p /\ e.ref.start = k
      /\ f.ref.path = q /\ f.ref.start = l
  BY <1>3, <1>5 DEF Ref
<1>q. QED BY <1>3, <1>5, <1>6

\* A reference stands for a text at a revision.
StandsFor(ledger, ref, text) ==
    \E e \in Resolves(IndexOf(ledger), ref) : e.text = text

\* The reading of such a reference is that text, and nothing else.
LEMMA ReadingOfRef ==
    ASSUME NEW ledger, NEW ref, NEW text, BeanCheck(ledger), StandsFor(ledger, ref, text)
    PROVE  Reading(ledger, AboutRevision(ref)) = {[text |-> text]}
<1> DEFINE Entries == Resolves(IndexOf(ledger), ref)
<1>1. PICK e \in Entries : e.text = text  BY DEF StandsFor
<1>2. \A f \in Entries : f = e  BY <1>1, RefsDiffer DEF Resolves
<1>3. {[text |-> f.text] : f \in Entries} = {[text |-> text]}  BY <1>1, <1>2
<1>4. /\ AboutRevision(ref).kind = "transaction_revision"
      /\ AboutRevision(ref).subject.ref = ref
  BY DEF AboutRevision
<1>q. QED BY <1>3, <1>4 DEF Reading

\* The fact of such a reference is captured.
LEMMA FactOfRef ==
    ASSUME NEW ledger, NEW ref, NEW text, BeanCheck(ledger), StandsFor(ledger, ref, text),
           NEW questions, AboutRevision(ref) \in questions
    PROVE  Fact(AboutRevision(ref), [text |-> text]) \in ReadingsOf(ledger, questions)
<1>1. Reading(ledger, AboutRevision(ref)) = {[text |-> text]}  BY ReadingOfRef
<1>2. (CHOOSE v \in Reading(ledger, AboutRevision(ref)) : TRUE) = [text |-> text]  BY <1>1
<1>3. AboutRevision(ref) \in {x \in questions : Reading(ledger, x) # {}}  BY <1>1
<1>q. QED BY <1>2, <1>3 DEF ReadingsOf

\* A reading of one ledger is the same on another.
Answered(old, new, op) ==
    \A q \in QuestionsOf(op) :
        Reading(old, q) # {} => (CHOOSE v \in Reading(old, q) : TRUE) \in Reading(new, q)

\* When there is one reading, the other ledger has it.
LEMMA OnlyReading ==
    ASSUME NEW old, NEW new, NEW op, Answered(old, new, op), NEW q \in QuestionsOf(op),
           NEW v, Reading(old, q) = {v}
    PROVE  v \in Reading(new, q)
<1>1. (CHOOSE x \in Reading(old, q) : TRUE) = v  BY Zenon
<1>q. QED BY <1>1 DEF Answered

\* A price that was absent and reads the same is absent.
LEMMA PriceCarries ==
    ASSUME NEW old, NEW new, NEW op, op.kind = "price", Allowed(old, op), Answered(old, new, op)
    PROVE  PriceAllowed(new, op)
<1> DEFINE q == AboutPrice(op.price)
           v == [state |-> PriceState(old, op.price), values |-> Prices(old, op.price)]
           w == [state |-> PriceState(new, op.price), values |-> Prices(new, op.price)]
<1>1. q \in QuestionsOf(op)  BY DEF QuestionsOf
<1>2. q.kind = "price_state" /\ q.subject.price = op.price  BY DEF AboutPrice
<1>3. Reading(old, q) = {v} /\ Reading(new, q) = {w}  BY <1>2 DEF Reading
<1>4. v.state = PriceState(old, op.price) /\ w.state = PriceState(new, op.price)  OBVIOUS
<1> HIDE DEF q, v, w
<1>5. v = w  BY <1>1, <1>3, OnlyReading
<1>6. PriceState(old, op.price) = "absent"  BY DEF Allowed, PriceAllowed
<1>q. QED BY <1>4, <1>5, <1>6 DEF PriceAllowed

\* A transaction that reads the same is there as it was named.
LEMMA RevisionCarries ==
    ASSUME NEW old, NEW new, NEW op, NamesTransaction(op), Allowed(old, op), Answered(old, new, op)
    PROVE  NamesCurrentRevision(new, op)
<1> DEFINE q == AboutRevision(op.ref)
<1>1. NamesCurrentRevision(old, op)
  <2>1. CASE op.kind = "update"  BY <2>1 DEF Allowed, UpdateAllowed
  <2>2. CASE op.kind = "delete"  BY <2>2 DEF Allowed
  <2>q. QED BY <2>1, <2>2 DEF NamesTransaction
<1>2. BeanCheck(old) /\ StandsFor(old, op.ref, op.text)
  BY <1>1 DEF NamesCurrentRevision, Named, StandsFor
<1>3. Reading(old, q) = {[text |-> op.text]}  BY <1>2, ReadingOfRef
<1>4. q \in QuestionsOf(op)  BY DEF QuestionsOf, NamesTransaction
<1>5. q.kind = "transaction_revision" /\ q.subject.ref = op.ref  BY DEF AboutRevision
<1>6. op.ref.path \in SidecarPath
  BY <1>1 DEF NamesCurrentRevision, Named, Resolves
<1> HIDE DEF q
<1>7. [text |-> op.text] \in Reading(new, q)  BY <1>3, <1>4, OnlyReading
<1>8. BeanCheck(new)  BY <1>5, <1>7 DEF Reading
<1>9. PICK e \in Resolves(IndexOf(new), op.ref) : [text |-> op.text] = [text |-> e.text]
  BY <1>5, <1>7, <1>8 DEF Reading
<1>10. e.text = op.text
  <2>1. [text |-> op.text].text = [text |-> e.text].text  BY <1>9
  <2>q. QED BY <2>1
<1>11. e.ref = op.ref  BY DEF Resolves
<1>q. QED BY <1>6, <1>8, <1>10, <1>11 DEF NamesCurrentRevision, Named

\* Two ledgers with the same transactions have the same balances.
LEMMA SameTotal ==
    ASSUME NEW old \in Ledger, NEW new \in Ledger, Transactions(old) = Transactions(new),
           NEW accounts, NEW cur, NEW before
    PROVE  Total(old, accounts, cur, before) = Total(new, accounts, cur, before)
<1> DEFINE S == Parts(old, cur, before)
           T == Parts(new, cur, before)
           w == Weights(old, accounts, cur, before)
           v == Weights(new, accounts, cur, before)
<1>1. S = T  BY DEF Parts
<1>2. /\ IsFiniteSet(S)
      /\ \E h : Summing(S, w, h) /\ Total(old, accounts, cur, before) = h[S]
  BY TotalShape
<1>3. \E h : Summing(T, v, h) /\ Total(new, accounts, cur, before) = h[T]  BY TotalShape
<1>4. \A x \in S : w[x] = v[x]  BY <1>1 DEF Weights
<1> HIDE DEF S, T, w, v
<1>5. PICK h : Summing(S, w, h) /\ Total(old, accounts, cur, before) = h[S]  BY <1>2
<1>6. PICK j : Summing(T, v, j) /\ Total(new, accounts, cur, before) = j[T]  BY <1>3
<1>7. Recurs(S, w, h) /\ Recurs(T, v, j)  BY <1>5, <1>6 DEF Summing
<1>8. S \in SUBSET (S \cap T)  BY <1>1
<1>9. h[S] = j[S]  BY <1>1, <1>2, <1>4, <1>7, <1>8, SumsAgree
<1>q. QED BY <1>1, <1>5, <1>6, <1>9

\* Every line of the one stands where it stood in the other.
Starting(base, after) ==
    \A p \in Path : \A k \in 1 .. Len(base[p].lines) :
        k <= Len(after[p].lines) /\ after[p].lines[k] = base[p].lines[k]

\* An append moves no line.
LEMMA AppendStarts ==
    ASSUME NEW ledger, Sound(ledger), NEW edit, IsAppend(edit), edit.says \in Seq(Directive),
           NEW after, after = Edited(ledger, edit)
    PROVE  Starting(ledger, after)
<1> DEFINE file == ledger[MonthPath]
           text == TextOf(edit.says)
           new  == Appended(file, text)
           n    == Len(file.lines)
<1>1. ledger \in Ledger  BY DEF Sound
<1>2. file \in File /\ MonthPath \in Path  BY <1>1, WrittenFiles, LedgerFiles
<1>3. text \in Seq(Line) /\ Whole(text)  BY TextWhole
<1>4. after = [ledger EXCEPT ![MonthPath] = new]  BY DEF Edited, IsAppend
<1>5. \A p \in Path : Len(ledger[p].lines) \in Nat  BY <1>1, LedgerFiles, LenProperties
<1> HIDE DEF file, text
<1>6. PICK mid \in {text, Below(text)} : Changed(file, new, n, n, mid)
  BY <1>2, <1>3, AppendedIs
<1>7. Spliced(file.lines, n, n, mid, new.lines)
  <2> HIDE DEF new
  <2>q. QED BY <1>6 DEF Changed
<1> HIDE DEF new
<1>8. after[MonthPath] = new /\ \A q \in Path \ {MonthPath} : after[q] = ledger[q]
  BY <1>1, <1>2, <1>4 DEF Ledger
<1>9. \A k \in 1 .. n : k <= Len(new.lines) /\ new.lines[k] = file.lines[k]
  <2> DEFINE l == Len(new.lines)
             m == Len(mid)
  <2>1. /\ n \in Nat /\ m \in Nat /\ l = n + m - (n - n)
        /\ \A k \in 1 .. n : new.lines[k] = file.lines[k]
    <3>1. n \in Nat  BY <1>2, <1>5 DEF file
    <3>2. m \in Nat  BY <1>7, LenProperties DEF Spliced
    <3>q. QED BY <1>7, <3>1, <3>2 DEF Spliced
  <2> HIDE DEF l, m, n
  <2>2. \A k \in 1 .. n : k <= l  BY <2>1
  <2>q. QED BY <2>1, <2>2 DEF l
<1>10. ASSUME NEW p \in Path, NEW k \in 1 .. Len(ledger[p].lines)
       PROVE  k <= Len(after[p].lines) /\ after[p].lines[k] = ledger[p].lines[k]
  <2>1. CASE p = MonthPath  BY <1>8, <1>9, <2>1 DEF file, n
  <2>2. CASE p # MonthPath  BY <1>5, <1>8, <2>2
  <2>q. QED BY <2>1, <2>2
<1>q. QED BY <1>10 DEF Starting

\* What an append of directives that are no transactions leaves as it was.
Keeps(base, after) ==
    /\ Starting(base, after)
    /\ base \in WholeLedger /\ after \in Ledger
    /\ \A a : OpenDates(base, a) = OpenDates(after, a)
    /\ Placed(base) \subseteq Placed(after)
    /\ Transactions(base) = Transactions(after)

\* A ledger that passes bean-check passed it before such an append.
LEMMA CheckedBefore ==
    ASSUME NEW base, NEW after, Keeps(base, after), BeanCheck(after)
    PROVE  BeanCheck(base)
<1>1. base \in Ledger /\ Parses(base)  BY WholeIsSound DEF Keeps, Sound
<1>2. \A a : OpenDates(base, a) = OpenDates(after, a)  BY DEF Keeps
<1>3. \A kind : Said(base, kind) \subseteq Said(after, kind)  BY DEF Keeps, Said
<1>4. \A a : CloseDates(base, a) \subseteq CloseDates(after, a)  BY <1>3 DEF CloseDates
<1>5. \A a, date : InUse(after, a, date) => InUse(base, a, date)  BY <1>2, <1>4 DEF InUse
<1>6. ASSUME NEW a \in Account
      PROVE  /\ Cardinality(OpenDates(base, a)) <= 1
             /\ Cardinality({e \in Placed(base) :
                   e.says.kind = "close" /\ e.says.account = a}) <= 1
             /\ \A c \in CloseDates(base, a) : \E o \in OpenDates(base, a) : o <= c
  <2> DEFINE S == {e \in Placed(base) : e.says.kind = "close" /\ e.says.account = a}
             T == {e \in Placed(after) : e.says.kind = "close" /\ e.says.account = a}
  <2>1. /\ Cardinality(OpenDates(after, a)) <= 1 /\ Cardinality(T) <= 1
        /\ \A c \in CloseDates(after, a) : \E o \in OpenDates(after, a) : o <= c
    BY DEF BeanCheck
  <2>2. S \subseteq T  BY DEF Keeps
  <2>3. IsFiniteSet(T)
    <3>1. IsFiniteSet(Placed(after))  BY PlacedShape DEF Keeps
    <3>q. QED BY <3>1, FS_Subset
  <2> HIDE DEF S, T
  <2>4. /\ Cardinality(S) <= Cardinality(T)
        /\ Cardinality(S) \in Nat /\ Cardinality(T) \in Nat
    BY <2>2, <2>3, FS_Subset, FS_CardinalityType
  <2>5. Cardinality(S) <= 1  BY <2>1, <2>4
  <2>q. QED BY <1>2, <1>4, <2>1, <2>5 DEF S
<1>7. ASSUME NEW e \in Transactions(base), NEW a \in PostedTo(e.says)
      PROVE  InUse(base, a, e.says.date)
  BY <1>5 DEF Keeps, BeanCheck
<1>8. ASSUME NEW d \in Said(base, "balance")
      PROVE  /\ InUse(base, d.account, d.date)
             /\ Total(base, Under[d.account], d.cur, d.date) = d.number
  <2>1. d \in Said(after, "balance")  BY <1>3
  <2>2. /\ InUse(after, d.account, d.date)
        /\ Total(after, Under[d.account], d.cur, d.date) = d.number
    BY <2>1 DEF BeanCheck
  <2>3. Total(base, Under[d.account], d.cur, d.date)
           = Total(after, Under[d.account], d.cur, d.date)
    BY <1>1, SameTotal DEF Keeps
  <2>q. QED BY <1>5, <2>2, <2>3
<1>9. Attached(base)
  <2>1. after \in Ledger  BY DEF Keeps
  <2>2. \A p \in Path : /\ DOMAIN base[p].lines = 1 .. Len(base[p].lines)
                         /\ DOMAIN after[p].lines = 1 .. Len(after[p].lines)
                         /\ Len(base[p].lines) \in Nat /\ Len(after[p].lines) \in Nat
    BY <1>1, <2>1, LedgerFiles, LenProperties
  <2>3. ASSUME NEW p \in Path, NEW k \in DOMAIN base[p].lines, base[p].lines[k] = Meta
        PROVE  k > 1 /\ IsIndented(base[p].lines[k - 1])
    <3> DEFINE x == base[p].lines
               y == after[p].lines
               n == Len(x)
               m == Len(y)
    <3>1. /\ DOMAIN x = 1 .. n /\ DOMAIN y = 1 .. m /\ n \in Nat /\ m \in Nat
          /\ k \in 1 .. n
      BY <2>2
    <3>2. \A i \in 1 .. n : i <= m /\ y[i] = x[i]  BY DEF Keeps, Starting
    <3>3. \A i \in DOMAIN y : y[i] = Meta => i > 1 /\ IsIndented(y[i - 1])
      BY DEF BeanCheck, Attached
    <3>4. x[k] = Meta  BY <2>3
    <3> HIDE DEF x, y, n, m
    <3>5. k <= m /\ y[k] = Meta  BY <3>1, <3>2, <3>4
    <3>6. k \in DOMAIN y  BY <3>1, <3>5
    <3>7. k > 1 /\ IsIndented(y[k - 1])  BY <3>3, <3>5, <3>6
    <3>8. k - 1 \in 1 .. n  BY <3>1, <3>7
    <3>9. y[k - 1] = x[k - 1]  BY <3>2, <3>8
    <3>q. QED BY <3>7, <3>9 DEF x
  <2>q. QED BY <2>3 DEF Attached
<1>q. QED BY <1>1, <1>6, <1>7, <1>8, <1>9 DEF BeanCheck

\* Accounts are opened where the open directives are.
LEMMA SameOpenings ==
    ASSUME NEW old, NEW new, \A p \in Path : new[p].opens = old[p].opens, NEW a
    PROVE  OpenDates(old, a) = OpenDates(new, a)
<1>1. {old[p].opens : p \in Path} = {new[p].opens : p \in Path}  OBVIOUS
<1>q. QED BY <1>1 DEF OpenDates

\* An account that was empty and reads the same may be closed: what passes bean-check
\* with the closing passed it before.
LEMMA CloseCarries ==
    ASSUME NEW old, NEW base \in WholeLedger, NEW op \in Operation, op.kind = "close",
           Sound(old), Allowed(old, op), Answered(old, base, op),
           NEW after, after = Edited(base, EditOf(old, op)), BeanCheck(after)
    PROVE  CloseAllowed(base, op)
<1> DEFINE q == AboutClose(op.account, op.date)
           x == CloseState(old, op.account, op.date)
           y == CloseState(base, op.account, op.date)
           w == [states |-> IF op.account \in Indexed(base) THEN {y} ELSE {}]
           edit == EditOf(old, op)
<1>1. /\ op.account \in Indexed(old) /\ x.opened # {} /\ ~x.closed
      /\ \E o \in x.opened : o <= op.date
      /\ x.future = {} /\ x.inventory = {}
  BY DEF Allowed, CloseAllowed
<1>2. q \in QuestionsOf(op)  BY DEF QuestionsOf
<1>3. /\ q.kind = "account_close_state"
      /\ q.subject.account = op.account /\ q.subject.close_date = op.date
  BY DEF AboutClose
<1>4. Reading(base, q) = {w}  BY <1>3 DEF Reading
<1>5. Reading(old, q) = {[states |-> {x}]}  BY <1>1, <1>3 DEF Reading
<1>6. edit \in Edit  BY EditOfAllowed
<1>7. edit.kind = "close" /\ edit.says = <<[kind |-> "close", account |-> op.account, date |-> op.date]>>
  BY DEF EditOf, Append1
<1> HIDE DEF q, x, y, edit
<1>8. [states |-> {x}] = w
  <2> DEFINE v == [states |-> {x}]
  <2>1. Reading(old, q) = {v}  BY <1>5
  <2> HIDE DEF v, w
  <2>2. v \in Reading(base, q)  BY <1>2, <2>1, OnlyReading
  <2>3. v = w  BY <1>4, <2>2
  <2>q. QED BY <2>3 DEF v
<1>9. {x} = IF op.account \in Indexed(base) THEN {y} ELSE {}
  <2>1. [states |-> {x}].states = w.states  BY <1>8
  <2>q. QED BY <2>1
<1>10. op.account \in Indexed(base) /\ x = y  BY <1>9
<1>11. IsAppend(edit) /\ edit.says \in Seq(Directive)
  <2>1. IsAppend(edit)  BY <1>7 DEF IsAppend
  <2>q. QED BY <1>6, <2>1 DEF Edit, IsAppend
<1>12. after = Edited(base, edit)  BY DEF edit
<1>13. Sound(base)  BY WholeIsSound
<1>14. /\ after \in Ledger /\ \A p \in Path : after[p].opens = base[p].opens
       /\ Placed(base) \subseteq Placed(after)
  BY <1>11, <1>12, <1>13, AppendPlaces
<1>15. Transactions(base) = Transactions(after)
  <2>1. ASSUME NEW e \in Transactions(after) PROVE e \in Placed(base)
    <3> SUFFICES ASSUME e \notin Placed(base) PROVE FALSE  OBVIOUS
    <3>1. e \in Placed(after) /\ e.says.kind = "txn"  BY DEF Transactions
    <3>2. e \in Fresh(base, after)  BY <3>1 DEF Fresh
    <3>3. PICK i \in 1 .. Len(edit.says) : e.says = edit.says[i]
      BY <1>11, <1>12, <1>13, <3>2, FreshEntries
    <3>4. Len(edit.says) = 1 /\ edit.says[1].kind = "close"  BY <1>7
    <3>q. QED BY <3>1, <3>3, <3>4
  <2>q. QED BY <1>14, <2>1 DEF Transactions
<1>18. Starting(base, after)  BY <1>11, <1>12, <1>13, AppendStarts
<1>16. Keeps(base, after)  BY <1>14, <1>15, <1>18, SameOpenings DEF Keeps
<1>17. BeanCheck(base)  BY <1>16, CheckedBefore
<1>q. QED BY <1>1, <1>10, <1>17 DEF CloseAllowed, y

\* An account that is used was opened.
LEMMA UsedIsKnown ==
    ASSUME NEW base, NEW after, BeanCheck(after), \A p \in Path : after[p].opens = base[p].opens,
           NEW e \in Transactions(after), NEW a \in PostedTo(e.says), a \in Account
    PROVE  a \in Known(base)
<1>1. InUse(after, a, e.says.date)  BY DEF BeanCheck
<1>2. OpenDates(after, a) # {}  BY <1>1 DEF InUse
<1>3. OpenDates(base, a) = OpenDates(after, a)  BY SameOpenings
<1>q. QED BY <1>2, <1>3 DEF Known

\* The balance an assertion is compared with is read off the inventory.
LEMMA SameAmount ==
    ASSUME NEW old, NEW new, NEW a, NEW date, NEW cur,
           Inventory(old, Under[a], date) = Inventory(new, Under[a], date)
    PROVE  CurrentAmount(old, a, date, cur) = CurrentAmount(new, a, date, cur)
  BY DEF CurrentAmount

\* A reconciliation that was allowed and reads the same is allowed: what passes
\* bean-check with the adjustment has its accounts open.
LEMMA ReconcileCarries ==
    ASSUME NEW old, NEW base \in WholeLedger, NEW op \in Operation, op.kind = "reconcile",
           Sound(old), Allowed(old, op), Answered(old, base, op),
           NEW after, after = Edited(base, EditOf(old, op)), BeanCheck(after)
    PROVE  ReconcileAllowed(base, op)
<1> DEFINE date == AssertionDate(op)
           edit == EditOf(old, op)
           adj  == Adjustment(old, op, date, op.amount)
           bal  == [kind |-> "balance", account |-> op.account, date |-> date,
                    number |-> op.amount, cur |-> op.cur]
           q    == AboutBalance(op.account, date)
           r    == AboutCheckpoint(op.account, date, op.cur)
<1>1. op.account \in Account /\ op.other \in Account  BY DEF Operation, Request
<1>2. /\ CurrentAmount(old, op.account, date, op.cur) # {}
      /\ Checkpoints(old, op.account, date, op.cur) = {}
  BY DEF Allowed, ReconcileAllowed, AdjustmentAllowed
<1>3. edit.kind = "append" /\ edit.says = <<adj, bal>>
  BY DEF EditOf, Append1, Reconciliation
<1>4. edit \in Edit  BY EditOfAllowed
<1>5. q \in QuestionsOf(op) /\ r \in QuestionsOf(op)  BY DEF QuestionsOf, AboutAdjustment
<1>6. /\ q.kind = "balance_state" /\ q.subject.account = op.account /\ q.subject.as_of = date
      /\ r.kind = "checkpoint_state" /\ r.subject.account = op.account
      /\ r.subject.date = date /\ r.subject.cur = op.cur
  BY DEF AboutBalance, AboutCheckpoint
<1>7. adj.kind = "txn" /\ adj.to = op.account /\ adj.from = op.other  BY DEF Adjustment
<1>8. after = Edited(base, edit)  OBVIOUS
<1> HIDE DEF q, r, date, edit, adj, bal
<1>9. Inventory(old, Under[op.account], date) = Inventory(base, Under[op.account], date)
  <2> DEFINE v == [balance |-> Inventory(old, Under[op.account], date)]
             w == [balance |-> Inventory(base, Under[op.account], date)]
  <2>1. Reading(old, q) = {v} /\ Reading(base, q) = {w}  BY <1>6 DEF Reading
  <2>2. /\ v.balance = Inventory(old, Under[op.account], date)
        /\ w.balance = Inventory(base, Under[op.account], date)
    OBVIOUS
  <2> HIDE DEF v, w
  <2>3. v \in Reading(base, q)  BY <1>5, <2>1, OnlyReading
  <2>q. QED BY <2>1, <2>2, <2>3
<1>10. Checkpoints(old, op.account, date, op.cur) = Checkpoints(base, op.account, date, op.cur)
  <2> DEFINE v == [amounts |-> Checkpoints(old, op.account, date, op.cur)]
             w == [amounts |-> Checkpoints(base, op.account, date, op.cur)]
  <2>1. Reading(old, r) = {v} /\ Reading(base, r) = {w}  BY <1>6 DEF Reading
  <2>2. /\ v.amounts = Checkpoints(old, op.account, date, op.cur)
        /\ w.amounts = Checkpoints(base, op.account, date, op.cur)
    OBVIOUS
  <2> HIDE DEF v, w
  <2>3. v \in Reading(base, r)  BY <1>5, <2>1, OnlyReading
  <2>q. QED BY <2>1, <2>2, <2>3
<1>11. IsAppend(edit) /\ edit.says \in Seq(Directive)
  <2>1. IsAppend(edit)  BY <1>3 DEF IsAppend
  <2>q. QED BY <1>4, <2>1 DEF Edit, IsAppend
<1>12. Sound(base)  BY WholeIsSound
<1>13. \A p \in Path : after[p].opens = base[p].opens
  BY <1>8, <1>11, <1>12, AppendPlaces
<1>14. PICK e \in Fresh(base, after) : e.says = adj
  <2> DEFINE ds == edit.says
  <2>1. /\ IsFiniteSet(FreshOf(base, after, adj))
        /\ Cardinality(FreshOf(base, after, adj)) = Often(ds, adj)
    BY <1>8, <1>11, <1>12, FreshEntries
  <2>2. ds[1] = adj /\ Len(ds) = 2  BY <1>3
  <2> HIDE DEF ds
  <2>3. Times(ds, 2, {ds[1]}) # 0
    <3> DEFINE D == {ds[1]}
    <3>1. 2 \in Nat /\ 1 \in 1 .. 2 /\ ds[1] \in D  OBVIOUS
    <3> HIDE DEF D
    <3>2. Times(ds, 2, D) # 0  BY <3>1, TimesGrow
    <3>q. QED BY <3>2 DEF D
  <2>4. Often(ds, adj) # 0  BY <2>2, <2>3 DEF Often
  <2>5. FreshOf(base, after, adj) # {}  BY <2>1, <2>4, FS_EmptySet
  <2>q. QED BY <2>5 DEF FreshOf
<1>15. e \in Transactions(after) /\ op.account \in PostedTo(e.says) /\ op.other \in PostedTo(e.says)
  BY <1>7, <1>14 DEF Fresh, Transactions, PostedTo
<1>16. op.account \in Known(base) /\ op.other \in Known(base)
  BY <1>1, <1>13, <1>15, UsedIsKnown
<1>17. CurrentAmount(base, op.account, date, op.cur) # {}
  BY <1>2, <1>9, SameAmount
<1>18. AdjustmentAllowed(base, op, date)  BY <1>16, <1>17 DEF AdjustmentAllowed
<1>q. QED BY <1>2, <1>10, <1>18 DEF ReconcileAllowed, date

\* The policy an operation has passed, where it still can be asked for.
PolicyHeld(base, op) ==
    /\ op.kind = "price" => PriceAllowed(base, op)
    /\ op.kind = "close" => CloseAllowed(base, op)
    /\ op.kind = "reconcile" => ReconcileAllowed(base, op)
    /\ NamesTransaction(op) => NamesCurrentRevision(base, op)

\* An operation that was allowed on one ledger passes its policy on another where
\* its facts read the same and from which its edit leads to a ledger that passes
\* bean-check (facts.py, what the semantic preconditions are sealed for).
THEOREM PolicyCarries ==
    ASSUME NEW old \in WholeLedger, NEW base \in WholeLedger, NEW op \in Operation,
           Allowed(old, op), Answered(old, base, op),
           NEW after, after = Edited(base, EditOf(old, op)), BeanCheck(after)
    PROVE  PolicyHeld(base, op)
<1>1. Sound(old)  BY WholeIsSound
<1>2. op.kind = "price" => PriceAllowed(base, op)  BY PriceCarries
<1>3. op.kind = "close" => CloseAllowed(base, op)  BY <1>1, CloseCarries
<1>4. op.kind = "reconcile" => ReconcileAllowed(base, op)  BY <1>1, ReconcileCarries
<1>5. NamesTransaction(op) => NamesCurrentRevision(base, op)  BY RevisionCarries
<1>q. QED BY <1>2, <1>3, <1>4, <1>5 DEF PolicyHeld
=============================================================================
