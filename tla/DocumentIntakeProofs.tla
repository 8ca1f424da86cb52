------------------------ MODULE DocumentIntakeProofs ------------------------
(***************************************************************************)
(* DocumentIntake for any page limit and any set of files.  The gate finds *)
(* an excerpt where the upload pinned it because both search the same      *)
(* pages.  Where a value really stood takes the joined text: each of its   *)
(* words comes from a word of some page, and neighbours in it are          *)
(* neighbours on one page unless a page break lies between them.           *)
(***************************************************************************)
EXTENDS DocumentIntake, TrustChainProofs, WellFoundedInduction

Received == [verified |-> TRUE, authenticity |-> "original_as_received"]
Cited == {[located |-> TRUE, hashFits |-> TRUE]}
Undecided == [status |-> "pending", actor |-> NoActor, dated |-> FALSE]
Bound(complete) == [complete |-> complete, status |-> "authoritative"]

\* A finding made of the upload, under some authority and some decision.
MadeFromUpload ==
  /\ upload = Ingest(file) /\ upload.status # "quarantined"
  /\ finding.field \in Fields
  /\ finding.excerpt = upload.fields[finding.field].excerpt
  /\ finding.page = upload.fields[finding.field].page /\ finding.page # NoPage
  /\ \E complete \in BOOLEAN :
       /\ finding.base = Chain(Received, Bound(complete), Cited, Undecided)
       /\ \E human \in Human :
            /\ human.status # "pending" => human.actor \in Actors /\ human.dated
            /\ finding.chain = Chain(Received, Bound(complete), Cited, human)

IntakeInv ==
  /\ file \in Files
  /\ upload # NoUpload => upload = Ingest(file)
  /\ finding # NoFinding => MadeFromUpload

LEMMA IngestParts ==
  ASSUME NEW f
  PROVE  /\ Ingest(f).status = UploadStatus(f) /\ Ingest(f).source = Received
         /\ \A field \in Fields :
              /\ Ingest(f).fields[field].excerpt = Excerpt(field, JoinedText(f))
              /\ Ingest(f).fields[field].page =
                   LocateEvidence(Parsed(f), Excerpt(field, JoinedText(f)))
  BY DEF Ingest, Received

-----------------------------------------------------------------------------
(* The joined text *)

\* Every proof by induction below takes the least number that would be an exception.
LEMMA LeastNumber ==
  ASSUME NEW numbers, numbers \subseteq Nat, numbers # {}
  PROVE  \E n \in numbers : \A m \in numbers : n <= m
<1>1. IsWellFoundedOn(OpToRel(<, Nat), Nat)
  BY NatLessThanWellFounded
<1>2. PICK n \in numbers : \A m \in numbers : ~(<<m, n>> \in OpToRel(<, Nat))
  BY <1>1, WFMin
<1>3. \A m \in numbers : ~(m < n)
  BY <1>2 DEF OpToRel
<1>4. \A m \in numbers : m \in Nat /\ n \in Nat
  OBVIOUS
<1> QED
  BY <1>3, <1>4

\* g joins the first m sequences, as FlattenSeq does.
Joins(g, seqs, m) == g = [i \in 1..m |-> IF i = 1 THEN seqs[i] ELSE g[i-1] \o seqs[i]]

LEMMA JoinsParts ==
  ASSUME NEW g, NEW seqs, NEW m \in Nat, Joins(g, seqs, m)
  PROVE  \A i \in 1..m : g[i] = IF i = 1 THEN seqs[i] ELSE g[i-1] \o seqs[i]
BY DEF Joins

LEMMA JoinsExists ==
  ASSUME NEW seqs, NEW m \in Nat
  PROVE  \E g : Joins(g, seqs, m)
<1> DEFINE exceptions == {n \in 0..m : ~\E g : Joins(g, seqs, n)}
<1>1. SUFFICES ASSUME exceptions # {} PROVE FALSE
  OBVIOUS
<1>2. PICK n \in exceptions : \A k \in exceptions : n <= k
  <2>1. exceptions \subseteq Nat
    OBVIOUS
  <2> HIDE DEF exceptions
  <2> QED
    BY <1>1, <2>1, LeastNumber
<1>3. n # 0
  <2>1. Joins([i \in 1..0 |-> seqs], seqs, 0)
    BY DEF Joins
  <2> QED
    BY <1>2, <2>1
<1>4. PICK g : Joins(g, seqs, n - 1)
  <2>1. n - 1 \in 0..m /\ n - 1 \notin exceptions
    BY <1>2, <1>3
  <2> QED
    BY <2>1
<1> DEFINE h == [i \in 1..n |-> IF i < n THEN g[i]
                                ELSE IF i = 1 THEN seqs[i] ELSE g[i-1] \o seqs[i]]
<1>5. \A i \in 1..n : h[i] = IF i = 1 THEN seqs[i] ELSE h[i-1] \o seqs[i]
  <2>1. \A i \in 1..(n-1) : g[i] = IF i = 1 THEN seqs[i] ELSE g[i-1] \o seqs[i]
    BY <1>2, <1>3, <1>4, JoinsParts
  <2>2. ASSUME NEW i \in 1..n PROVE h[i] = IF i = 1 THEN seqs[i] ELSE h[i-1] \o seqs[i]
    <3>1. CASE i = 1
      BY <1>2, <1>3, <2>1, <3>1
    <3>2. CASE i # 1
      <4>1. i - 1 \in 1..n /\ i - 1 < n
        BY <1>2, <3>2
      <4>2. h[i-1] = g[i-1]
        BY <4>1
      <4>3. i < n => i \in 1..(n-1)
        BY <1>2
      <4>4. h[i] = IF i < n THEN g[i] ELSE g[i-1] \o seqs[i]
        BY <3>2
      <4> HIDE DEF h
      <4> QED
        BY <2>1, <3>2, <4>2, <4>3, <4>4
    <3> QED
      BY <3>1, <3>2
  <2> QED
    BY <2>2
<1>6. Joins(h, seqs, n)
  <2>1. DOMAIN h = 1..n /\ h = [i \in 1..n |-> h[i]]
    OBVIOUS
  <2> HIDE DEF h
  <2> QED
    BY <1>5, <2>1 DEF Joins
<1> QED
  BY <1>2, <1>6

Alike(s, t, m) == \A i \in 1..m : s[i] = t[i]

\* However it is chosen, what joins the first m of one sequence joins as much of a longer one.
LEMMA JoinsAgree ==
  ASSUME NEW s, NEW t, NEW m \in Nat, NEW n \in Nat, m <= n,
         Alike(s, t, m), NEW g, Joins(g, s, m), NEW h, Joins(h, t, n)
  PROVE  Alike(g, h, m)
<1> DEFINE exceptions == {i \in 1..m : g[i] # h[i]}
<1>1. SUFFICES ASSUME exceptions # {} PROVE FALSE
  BY DEF Alike
<1>2. PICK i \in exceptions : \A k \in exceptions : i <= k
  <2>1. exceptions \subseteq Nat
    OBVIOUS
  <2> HIDE DEF exceptions
  <2> QED
    BY <1>1, <2>1, LeastNumber
<1>3. i \in 1..m /\ i \in 1..n /\ g[i] # h[i]
  BY <1>2
<1>4. /\ g[i] = IF i = 1 THEN s[i] ELSE g[i-1] \o s[i]
      /\ h[i] = IF i = 1 THEN t[i] ELSE h[i-1] \o t[i]
  BY <1>3, JoinsParts
<1>5. (i # 1 => g[i-1] = h[i-1]) /\ s[i] = t[i]
  BY <1>2, <1>3 DEF Alike
<1> QED
  BY <1>3, <1>4, <1>5

LEMMA FlattenedIsJoined ==
  ASSUME NEW seqs \in Seq(Seq(Words)), Len(seqs) # 0, NEW g, Joins(g, seqs, Len(seqs))
  PROVE  FlattenSeq(seqs) = g[Len(seqs)]
<1> DEFINE flatten == CHOOSE f : Joins(f, seqs, Len(seqs))
<1>1. FlattenSeq(seqs) = flatten[Len(seqs)]
  BY DEF FlattenSeq, Joins
<1>2. Joins(flatten, seqs, Len(seqs))
  OBVIOUS
<1>3. Len(seqs) \in Nat /\ Len(seqs) \in 1..Len(seqs)
  OBVIOUS
<1>4. Alike(seqs, seqs, Len(seqs))
  BY DEF Alike
<1> HIDE DEF flatten
<1>5. Alike(flatten, g, Len(seqs))
  BY <1>2, <1>3, <1>4, JoinsAgree
<1> QED
  BY <1>1, <1>3, <1>5 DEF Alike

\* The words of the first n pages.
Upto(pages, n) == FlattenSeq(SubSeq(pages, 1, n))

LEMMA UptoIsJoined ==
  ASSUME NEW pages \in Seq(Seq(Words)), NEW n \in 1..Len(pages), NEW m \in n..Len(pages),
         NEW g, Joins(g, pages, m)
  PROVE  Upto(pages, n) = g[n]
<1> DEFINE front == SubSeq(pages, 1, n)
<1>1. /\ front \in Seq(Seq(Words)) /\ Len(front) = n /\ n \in Nat /\ n # 0
      /\ Alike(front, pages, n)
  BY DEF Alike
<1>2. PICK h : Joins(h, front, n)
  BY <1>1, JoinsExists
<1>3. m \in Nat /\ n <= m
  OBVIOUS
<1> HIDE DEF front
<1>4. FlattenSeq(front) = h[n]
  BY <1>1, <1>2, FlattenedIsJoined
<1>5. Alike(h, g, n)
  BY <1>1, <1>2, <1>3, JoinsAgree
<1> QED
  BY <1>1, <1>4, <1>5 DEF Upto, front, Alike

LEMMA OnePageMore ==
  ASSUME NEW pages \in Seq(Seq(Words)), NEW n \in 1..Len(pages)
  PROVE  Upto(pages, n) = Upto(pages, n - 1) \o pages[n]
<1>1. n \in Nat /\ pages[n] \in Seq(Words)
  OBVIOUS
<1>2. PICK g : Joins(g, pages, n)
  BY <1>1, JoinsExists
<1>3. Upto(pages, n) = IF n = 1 THEN pages[n] ELSE g[n-1] \o pages[n]
  <2>1. n \in n..Len(pages) /\ n \in 1..n
    OBVIOUS
  <2>2. Upto(pages, n) = g[n]
    BY <1>2, <2>1, UptoIsJoined
  <2> QED
    BY <1>1, <1>2, <2>1, <2>2, JoinsParts
<1>4. CASE n = 1
  <2>1. Upto(pages, n - 1) = <<>>
    <3>1. SubSeq(pages, 1, n - 1) = <<>>
      BY <1>4
    <3> QED
      BY <3>1 DEF Upto, FlattenSeq
  <2> QED
    BY <1>1, <1>3, <1>4, <2>1
<1>5. CASE n # 1
  <2>1. n - 1 \in 1..Len(pages) /\ n \in (n-1)..Len(pages)
    BY <1>5
  <2>2. Upto(pages, n - 1) = g[n-1]
    BY <1>2, <2>1, UptoIsJoined
  <2> QED
    BY <1>3, <1>5, <2>2
<1> QED
  BY <1>4, <1>5

LEMMA UptoEnds ==
  ASSUME NEW pages \in Seq(Seq(Words))
  PROVE  Upto(pages, 0) = <<>> /\ Upto(pages, Len(pages)) = FlattenSeq(pages)
<1>1. SubSeq(pages, 1, 0) = <<>>
  OBVIOUS
<1>2. SubSeq(pages, 1, Len(pages)) = pages
  OBVIOUS
<1>3. FlattenSeq(<<>>) = <<>>
  BY DEF FlattenSeq
<1> QED
  BY <1>1, <1>2, <1>3 DEF Upto

LEMMA UptoTyped ==
  ASSUME NEW pages \in Seq(Seq(Words))
  PROVE  \A n \in 0..Len(pages) : Upto(pages, n) \in Seq(Words)
<1> DEFINE exceptions == {n \in 0..Len(pages) : Upto(pages, n) \notin Seq(Words)}
<1>1. SUFFICES ASSUME exceptions # {} PROVE FALSE
  OBVIOUS
<1>2. PICK n \in exceptions : \A k \in exceptions : n <= k
  <2>1. exceptions \subseteq Nat
    OBVIOUS
  <2> HIDE DEF exceptions
  <2> QED
    BY <1>1, <2>1, LeastNumber
<1>3. n \in 0..Len(pages) /\ Upto(pages, n) \notin Seq(Words)
  BY <1>2
<1>4. n # 0
  <2>1. Upto(pages, 0) = <<>> /\ <<>> \in Seq(Words)
    BY UptoEnds
  <2> QED
    BY <1>3, <2>1
<1>5. n \in 1..Len(pages) /\ pages[n] \in Seq(Words)
  BY <1>3, <1>4
<1>6. Upto(pages, n - 1) \in Seq(Words)
  BY <1>2, <1>5
<1>7. Upto(pages, n) = Upto(pages, n - 1) \o pages[n]
  BY <1>5, OnePageMore
<1> QED
  BY <1>3, <1>5, <1>6, <1>7

LEMMA ConcatParts ==
  ASSUME NEW a \in Seq(Words), NEW b \in Seq(Words)
  PROVE  /\ a \o b \in Seq(Words) /\ Len(a \o b) = Len(a) + Len(b)
         /\ Len(a) \in Nat /\ Len(b) \in Nat /\ Len(a \o b) \in Nat
         /\ \A i \in 1..Len(b) : (a \o b)[Len(a) + i] = b[i]
         /\ \A i \in 1..Len(a) : (a \o b)[i] = a[i]
OBVIOUS

\* Where a page begins and ends in the text of the pages up to it.
LEMMA PageInText ==
  ASSUME NEW pages \in Seq(Seq(Words)), NEW n \in 1..Len(pages)
  PROVE  /\ Upto(pages, n) \in Seq(Words) /\ Upto(pages, n - 1) \in Seq(Words)
         /\ pages[n] \in Seq(Words)
         /\ Len(Upto(pages, n)) \in Nat /\ Len(Upto(pages, n - 1)) \in Nat
         /\ Len(pages[n]) \in Nat
         /\ Len(Upto(pages, n)) = Len(Upto(pages, n - 1)) + Len(pages[n])
         /\ \A i \in 1..Len(pages[n]) : Upto(pages, n)[Len(Upto(pages, n - 1)) + i] = pages[n][i]
         /\ \A i \in 1..Len(Upto(pages, n - 1)) : Upto(pages, n)[i] = Upto(pages, n - 1)[i]
<1>1. n \in 0..Len(pages) /\ n - 1 \in 0..Len(pages) /\ pages[n] \in Seq(Words)
  OBVIOUS
<1>2. Upto(pages, n) \in Seq(Words) /\ Upto(pages, n - 1) \in Seq(Words)
  BY <1>1, UptoTyped
<1>3. Upto(pages, n) = Upto(pages, n - 1) \o pages[n]
  BY OnePageMore
<1> DEFINE a == Upto(pages, n - 1)
           b == pages[n]
<1>4. /\ Len(a \o b) = Len(a) + Len(b)
      /\ Len(a) \in Nat /\ Len(b) \in Nat /\ Len(a \o b) \in Nat
      /\ \A i \in 1..Len(b) : (a \o b)[Len(a) + i] = b[i]
      /\ \A i \in 1..Len(a) : (a \o b)[i] = a[i]
  <2>1. a \in Seq(Words) /\ b \in Seq(Words)
    BY <1>1, <1>2
  <2> HIDE DEF a, b
  <2> QED
    BY <2>1, ConcatParts
<1>5. Upto(pages, n) = a \o b
  BY <1>3
<1> QED
  BY ONLY <1>1, <1>2, <1>4, <1>5

\* Pages that follow change nothing of what came before.
LEMMA TextGrows ==
  ASSUME NEW pages \in Seq(Seq(Words)), NEW p \in 0..Len(pages)
  PROVE  \A n \in p..Len(pages) :
           /\ Len(Upto(pages, p)) <= Len(Upto(pages, n))
           /\ \A i \in 1..Len(Upto(pages, p)) : Upto(pages, n)[i] = Upto(pages, p)[i]
<1> DEFINE Grown(n) == /\ Len(Upto(pages, p)) <= Len(Upto(pages, n))
                       /\ \A i \in 1..Len(Upto(pages, p)) : Upto(pages, n)[i] = Upto(pages, p)[i]
           exceptions == {n \in p..Len(pages) : ~Grown(n)}
<1>1. SUFFICES ASSUME exceptions # {} PROVE FALSE
  OBVIOUS
<1>2. PICK n \in exceptions : \A k \in exceptions : n <= k
  <2>1. exceptions \subseteq Nat
    OBVIOUS
  <2> HIDE DEF exceptions
  <2> QED
    BY <1>1, <2>1, LeastNumber
<1>3. n \in p..Len(pages) /\ ~Grown(n) /\ Upto(pages, p) \in Seq(Words)
  BY <1>2, UptoTyped
<1>4. n # p
  BY <1>3
<1>5. n \in 1..Len(pages) /\ n - 1 \in p..Len(pages) /\ n - 1 \notin exceptions
  BY <1>2, <1>3, <1>4
<1>6. Grown(n - 1)
  BY <1>5
<1>7. Grown(n)
  <2>1. /\ Len(Upto(pages, n)) = Len(Upto(pages, n - 1)) + Len(pages[n])
        /\ \A i \in 1..Len(Upto(pages, n - 1)) : Upto(pages, n)[i] = Upto(pages, n - 1)[i]
        /\ Len(pages[n]) \in Nat /\ Len(Upto(pages, n - 1)) \in Nat
    BY <1>5, PageInText
  <2>2. Len(Upto(pages, p)) \in Nat
    BY <1>3
  <2>3. Len(Upto(pages, p)) <= Len(Upto(pages, n - 1))
    BY <1>6
  <2>4. \A i \in 1..Len(Upto(pages, p)) :
          i \in 1..Len(Upto(pages, n - 1)) /\ Upto(pages, n - 1)[i] = Upto(pages, p)[i]
    BY <1>6, <2>1, <2>2
  <2>5. Len(Upto(pages, p)) <= Len(Upto(pages, n))
    <3> DEFINE before == Len(Upto(pages, n - 1))
               added == Len(pages[n])
               first == Len(Upto(pages, p))
               whole == Len(Upto(pages, n))
    <3>1. before \in Nat /\ added \in Nat /\ whole = before + added /\ first <= before
          /\ first \in Nat
      BY <2>1, <2>2, <2>3
    <3> HIDE DEF before, added, first, whole
    <3>2. first <= whole
      BY <3>1
    <3> QED
      BY <3>2 DEF first, whole
  <2>6. ASSUME NEW i \in 1..Len(Upto(pages, p))
        PROVE  Upto(pages, n)[i] = Upto(pages, p)[i]
    BY <2>1, <2>4
  <2> QED
    BY <2>5, <2>6
<1> QED
  BY <1>3, <1>7

-----------------------------------------------------------------------------
(* Words of the text and words of a page *)

LEMMA ParsedIsSequence ==
  ASSUME NEW f \in Files
  PROVE  /\ Parsed(f) \in Seq(Seq(Words)) /\ Len(Parsed(f)) \in 0..PageLimit
         /\ DOMAIN Parsed(f) = 1..Len(Parsed(f)) /\ Len(Parsed(f)) \in Nat
<1>1. f.pages \in Seq(Seq(Words)) /\ PageLimit \in Nat \ {0}
  BY IntakeAssumption
<1>2. Parsed(f) \in Seq(Seq(Words)) /\ Len(Parsed(f)) <= PageLimit
  <2>1. CASE Len(f.pages) <= PageLimit
    BY <1>1, <2>1 DEF Parsed
  <2>2. CASE ~(Len(f.pages) <= PageLimit)
    <3>1. /\ SubSeq(f.pages, 1, PageLimit) \in Seq(Seq(Words))
          /\ Len(SubSeq(f.pages, 1, PageLimit)) = PageLimit
      BY <1>1, <2>2
    <3> QED
      BY <1>1, <2>2, <3>1 DEF Parsed
  <2> QED
    BY <2>1, <2>2
<1> QED
  BY <1>1, <1>2

LEMMA JoinedIsText ==
  ASSUME NEW f \in Files
  PROVE  JoinedText(f) \in Seq(Words)
<1>1. Parsed(f) \in Seq(Seq(Words)) /\ Len(Parsed(f)) \in 0..Len(Parsed(f))
  BY ParsedIsSequence
<1> QED
  BY <1>1, UptoEnds, UptoTyped DEF JoinedText

\* The page of a word: it ends the word's text or goes beyond it, the page before does not.
LEMMA PageOfWordHolds ==
  ASSUME file \in Files, NEW n \in 1..Len(JoinedText(file))
  PROVE  /\ PageOfWord(n) \in 1..Len(Parsed(file))
         /\ n <= Len(Upto(Parsed(file), PageOfWord(n)))
         /\ n > Len(Upto(Parsed(file), PageOfWord(n) - 1))
<1> DEFINE pages == Parsed(file)
           reaching == {p \in 0..Len(pages) : n <= Len(Upto(pages, p))}
<1>1. pages \in Seq(Seq(Words)) /\ Len(pages) \in Nat /\ JoinedText(file) = FlattenSeq(pages)
  BY ParsedIsSequence DEF JoinedText
<1> HIDE DEF pages
<1>2. Upto(pages, 0) = <<>> /\ Upto(pages, Len(pages)) = JoinedText(file)
  BY <1>1, UptoEnds
<1>3. PICK p \in reaching : \A q \in reaching : p <= q
  <2>1. Len(pages) \in reaching
    BY <1>1, <1>2
  <2>2. reaching \subseteq Nat
    OBVIOUS
  <2> HIDE DEF reaching
  <2> QED
    BY <2>1, <2>2, LeastNumber
<1>4. p \in 0..Len(pages) /\ n <= Len(Upto(pages, p)) /\ n \in Nat \ {0}
  <2>1. Len(JoinedText(file)) \in Nat
    BY <1>1, <1>2, UptoTyped
  <2> QED
    BY <1>3, <2>1
<1>5. p # 0
  BY <1>2, <1>4
<1>6. p \in 1..Len(pages) /\ n > Len(Upto(pages, p - 1))
  <2>1. p \in 1..Len(pages) /\ p - 1 \in 0..Len(pages) /\ p - 1 \notin reaching
    BY <1>1, <1>3, <1>4, <1>5
  <2>2. ~(n <= Len(Upto(pages, p - 1))) /\ Len(Upto(pages, p - 1)) \in Nat
    BY <1>1, <2>1, UptoTyped
  <2> QED
    BY <1>4, <2>1, <2>2
<1> QED
  BY <1>4, <1>6 DEF PageOfWord, Upto, pages

\* What stands within one page of the text is read on that page.
LEMMA ReadWhereItStands ==
  ASSUME NEW pages \in Seq(Seq(Words)), NEW p \in 1..Len(pages),
         NEW first \in Nat, NEW last \in Nat, first <= last,
         Len(Upto(pages, p - 1)) < first, last <= Len(Upto(pages, p))
  PROVE  Reads(pages[p], SubSeq(FlattenSeq(pages), first, last))
<1> DEFINE text == FlattenSeq(pages)
           excerpt == SubSeq(text, first, last)
           before == Len(Upto(pages, p - 1))
           after == Len(Upto(pages, p))
           at == first - before - 1
<1>1. text \in Seq(Words) /\ Upto(pages, Len(pages)) = text
  <2>1. Len(pages) \in 0..Len(pages)
    OBVIOUS
  <2> QED
    BY <2>1, UptoEnds, UptoTyped
<1>2. /\ Len(Upto(pages, p)) <= Len(text)
      /\ \A i \in 1..Len(Upto(pages, p)) : text[i] = Upto(pages, p)[i]
  <2>1. p \in 0..Len(pages) /\ Len(pages) \in p..Len(pages)
    OBVIOUS
  <2> QED
    BY <1>1, <2>1, TextGrows
<1>3. /\ before \in Nat /\ Len(pages[p]) \in Nat /\ Len(Upto(pages, p)) = before + Len(pages[p])
      /\ \A i \in 1..Len(pages[p]) : Upto(pages, p)[before + i] = pages[p][i]
  BY PageInText
<1>4. Len(text) \in Nat /\ last <= Len(text) /\ first >= 1
  <2>1. Len(text) \in Nat /\ after <= Len(text) /\ last <= after /\ before < first
    BY <1>1, <1>2
  <2>2. before \in Nat /\ after \in Nat
    BY PageInText
  <2> HIDE DEF text, before, after
  <2> QED
    BY <2>1, <2>2
<1>5. /\ Len(excerpt) = last - first + 1
      /\ \A i \in 1..Len(excerpt) : excerpt[i] = text[first + i - 1]
  BY <1>1, <1>4
<1>6. /\ at \in 0..Len(pages[p]) /\ at + Len(excerpt) <= Len(pages[p])
      /\ Len(excerpt) \in Nat /\ Len(excerpt) >= 1
  <2> DEFINE words == Len(pages[p])
             taken == Len(excerpt)
  <2>1. /\ before \in Nat /\ words \in Nat /\ after = before + words
        /\ taken = last - first + 1 /\ before < first /\ last <= after
    BY <1>3, <1>5
  <2> HIDE DEF before, words, after, taken
  <2>2. at \in 0..words /\ at + taken <= words /\ taken \in Nat /\ taken >= 1
    BY <2>1
  <2> QED
    BY <2>2 DEF words, taken
<1> HIDE DEF text, excerpt, before, after
<1>7. ASSUME NEW i \in 1..Len(excerpt)
      PROVE  pages[p][at + i] = excerpt[i]
  <2>1. Len(excerpt) \in Nat
    BY <1>6
  <2>2. at + i \in 1..Len(pages[p]) /\ before + (at + i) = first + i - 1
    BY <1>3, <1>6, <2>1
  <2>3. first + i - 1 \in 1..Len(Upto(pages, p))
    BY <1>3, <2>2
  <2> QED
    BY <1>2, <1>3, <1>5, <2>2, <2>3
<1> HIDE DEF at
<1>8. Reads(pages[p], excerpt)
  <2>1. /\ \A i \in 2..Len(excerpt) : pages[p][at + i] = excerpt[i]
        /\ Within(excerpt[1], pages[p][at + 1]) /\ Closes(excerpt[1], pages[p][at + 1])
    BY <1>6, <1>7 DEF Within, Closes
  <2> QED
    BY <1>6, <2>1 DEF Reads
<1> QED
  BY <1>8 DEF text, excerpt

\* The leftmost match of a field is one, and lies in the text.
LEMMA FirstMatchHolds ==
  ASSUME NEW text \in Seq(Words), NEW field, Matches(field, text) # {}
  PROVE  /\ FirstMatch(field, text)[1] \in 1..Len(text)
         /\ FirstMatch(field, text)[2] \in 1..Len(text)
         /\ FirstMatch(field, text)[1] <= FirstMatch(field, text)[2]
<1>1. \A span \in Matches(field, text) :
        span[1] \in 1..Len(text) /\ span[2] \in 1..Len(text) /\ span[1] <= span[2]
  BY DEF Matches, Amounts, Dates
<1> DEFINE starts == {span[1] : span \in Matches(field, text)}
<1>2. PICK start \in starts : \A other \in starts : start <= other
  <2>1. starts \subseteq Nat /\ starts # {}
    BY <1>1
  <2> HIDE DEF starts
  <2> QED
    BY <2>1, LeastNumber
<1>3. \E span \in Matches(field, text) : \A other \in Matches(field, text) : span[1] <= other[1]
  BY <1>2
<1>4. FirstMatch(field, text) \in Matches(field, text)
  BY <1>3 DEF FirstMatch
<1> QED
  BY <1>1, <1>4

LEMMA ExcerptHolds ==
  ASSUME NEW text \in Seq(Words), NEW field
  PROVE  /\ Excerpt(field, text) \in Seq(Words)
         /\ Excerpt(field, text) # Nothing =>
              /\ Matches(field, text) # {}
              /\ Excerpt(field, text) = SubSeq(text, FirstMatch(field, text)[1],
                                                     FirstMatch(field, text)[2])
<1>1. CASE Matches(field, text) = {}
  BY <1>1 DEF Excerpt, Nothing
<1>2. CASE Matches(field, text) # {}
  <2>1. Excerpt(field, text) = SubSeq(text, FirstMatch(field, text)[1], FirstMatch(field, text)[2])
    BY <1>2 DEF Excerpt
  <2>2. SubSeq(text, FirstMatch(field, text)[1], FirstMatch(field, text)[2]) \in Seq(Words)
    BY <1>2, FirstMatchHolds
  <2> QED
    BY <1>2, <2>1, <2>2
<1> QED
  BY <1>1, <1>2

-----------------------------------------------------------------------------
(* Location and verification *)

\* The first page that has the excerpt exists as soon as one has it.
LEMMA LocatedPage ==
  ASSUME NEW pages, DOMAIN pages \subseteq Nat, NEW excerpt, PagesWith(pages, excerpt) # {}
  PROVE  /\ LocateEvidence(pages, excerpt) \in PagesWith(pages, excerpt)
         /\ \A n \in PagesWith(pages, excerpt) : LocateEvidence(pages, excerpt) <= n
<1>1. PagesWith(pages, excerpt) \subseteq Nat
  BY DEF PagesWith
<1>2. \E n \in PagesWith(pages, excerpt) : \A m \in PagesWith(pages, excerpt) : n <= m
  BY <1>1, LeastNumber
<1> QED
  BY <1>2 DEF LocateEvidence

LEMMA LocatedIsVerified ==
  ASSUME NEW f \in Files, NEW excerpt, LocateEvidence(Parsed(f), excerpt) # NoPage
  PROVE  VerifyEvidenceAtSource(f, LocateEvidence(Parsed(f), excerpt), excerpt) = {}
<1> DEFINE page == LocateEvidence(Parsed(f), excerpt)
<1>1. PagesWith(Parsed(f), excerpt) # {}
  BY DEF LocateEvidence
<1>2. page \in PagesWith(Parsed(f), excerpt)
  BY <1>1, ParsedIsSequence, LocatedPage
<1>3. page \in 1..Len(Parsed(f)) /\ excerpt # Nothing /\ Reads(Parsed(f)[page], excerpt)
  BY <1>2, ParsedIsSequence DEF PagesWith
<1> QED
  BY <1>3 DEF VerifyEvidenceAtSource, When

-----------------------------------------------------------------------------
(* The invariant *)

LEMMA InitIntake == IntakeInit => IntakeInv
  BY DEF IntakeInit, IntakeInv

LEMMA NextIntake == IntakeInv /\ [IntakeNext]_intakeVars => IntakeInv'
<1> SUFFICES ASSUME IntakeInv, [IntakeNext]_intakeVars PROVE IntakeInv'
  OBVIOUS
<1>1. CASE UploadDocument
  <2>1. finding = NoFinding
    <3>1. UploadStatus(file) # "none"
      BY DEF UploadStatus
    <3>2. upload.status = "none"
      BY <1>1 DEF UploadDocument, NoUpload
    <3> QED
      BY <3>1, <3>2, IngestParts DEF IntakeInv, MadeFromUpload
  <2> QED
    BY <1>1, <2>1 DEF UploadDocument, IntakeInv
<1>2. ASSUME NEW field \in Fields, NEW complete \in BOOLEAN,
             CreateFinding(field, Bound(complete))
      PROVE  IntakeInv'
  <2>1. /\ upload = Ingest(file) /\ upload.source = Received /\ upload.status # "quarantined"
        /\ upload.fields[field].page # NoPage /\ file' = file /\ upload' = upload
    BY <1>2, IngestParts DEF CreateFinding, IntakeInv
  <2>2. /\ finding'.field = field /\ finding'.excerpt = upload.fields[field].excerpt
        /\ finding'.page = upload.fields[field].page
        /\ finding'.base = Chain(Received, Bound(complete), Cited, Undecided)
        /\ finding'.chain = Chain(Received, Bound(complete), Cited, Undecided)
    BY <1>2, <2>1 DEF CreateFinding, Cited, Undecided
  <2>3. Undecided \in Human /\ Undecided.status = "pending"
    BY DEF Undecided, Human, HumanStatus
  <2>4. MadeFromUpload'
    BY <2>1, <2>2, <2>3 DEF MadeFromUpload
  <2> QED
    BY <2>1, <2>4 DEF IntakeInv
<1>3. ASSUME NEW status \in {"approved", "rejected"}, NEW actor \in Actors,
             DecideFinding(status, actor)
      PROVE  IntakeInv'
  <2> DEFINE human == [status |-> status, actor |-> actor, dated |-> TRUE]
  <2>1. PICK complete \in BOOLEAN :
          finding.base = Chain(Received, Bound(complete), Cited, Undecided)
    BY <1>3 DEF DecideFinding, IntakeInv, MadeFromUpload
  <2>2. /\ finding' = [finding EXCEPT !.chain = WithDecision(finding.base, human)]
        /\ file' = file /\ upload' = upload
    BY <1>3 DEF DecideFinding
  <2>3. WithDecision(finding.base, human) = Chain(Received, Bound(complete), Cited, human)
    BY <2>1, ChainKeepsParts DEF WithDecision
  <2>4. human \in Human /\ human.actor \in Actors /\ human.dated
    BY DEF Human, HumanStatus
  <2>5. /\ finding'.field = finding.field /\ finding'.excerpt = finding.excerpt
        /\ finding'.page = finding.page /\ finding'.base = finding.base
        /\ finding'.chain = Chain(Received, Bound(complete), Cited, human)
    BY <2>2, <2>3
  <2>6. MadeFromUpload'
    BY <1>3, <2>1, <2>2, <2>4, <2>5 DEF DecideFinding, IntakeInv, MadeFromUpload
  <2> QED
    BY <2>2, <2>6 DEF IntakeInv
<1>4. CASE UNCHANGED intakeVars
  BY <1>4 DEF intakeVars, IntakeInv, MadeFromUpload
<1> QED
  BY <1>1, <1>2, <1>3, <1>4 DEF IntakeNext, Bound

LEMMA IntakeInvHolds == IntakeSpec => []IntakeInv
<1> QED
  BY InitIntake, NextIntake, PTL DEF IntakeSpec

-----------------------------------------------------------------------------
(* The theorems *)

(* What an upload stores of a document is typed for documents of any length: excerpts of *)
(* the text and pages within the limit (ingest_pdf), and findings of a known field.      *)
THEOREM IntakeTypeCorrect == IntakeSpec => []IntakeTypeOK
<1>1. IntakeInv => IntakeTypeOK
  <2> SUFFICES ASSUME IntakeInv PROVE IntakeTypeOK
    OBVIOUS
  <2>1. file \in Files
    BY DEF IntakeInv
  <2>2. ASSUME upload # NoUpload
        PROVE  /\ upload.status \in {"quarantined", "manual_review", "ready"}
               /\ upload.source \in Source
               /\ \A field \in Fields : /\ upload.fields[field].excerpt \in Seq(Words)
                                        /\ upload.fields[field].page \in 0..PageLimit
    <3>1. upload = Ingest(file) /\ upload.status = UploadStatus(file) /\ upload.source = Received
      BY <2>2, IngestParts DEF IntakeInv
    <3>2. upload.status \in {"quarantined", "manual_review", "ready"}
      BY <3>1 DEF UploadStatus
    <3>3. upload.source \in Source
      BY <3>1 DEF Received, Source, AuthenticityStatus
    <3>4. JoinedText(file) \in Seq(Words)
      BY <2>1, JoinedIsText
    <3>5. ASSUME NEW field \in Fields
          PROVE  LocateEvidence(Parsed(file), Excerpt(field, JoinedText(file))) \in 0..PageLimit
      <4> DEFINE pages == Parsed(file)
                 excerpt == Excerpt(field, JoinedText(file))
      <4>1. DOMAIN pages = 1..Len(pages) /\ Len(pages) \in 0..PageLimit /\ PageLimit \in Nat
        BY <2>1, ParsedIsSequence, IntakeAssumption
      <4> SUFFICES LocateEvidence(pages, excerpt) \in 0..PageLimit
        OBVIOUS
      <4> HIDE DEF pages, excerpt
      <4>2. CASE PagesWith(pages, excerpt) = {}
        BY <4>1, <4>2 DEF LocateEvidence, NoPage
      <4>3. CASE PagesWith(pages, excerpt) # {}
        <5>1. LocateEvidence(pages, excerpt) \in DOMAIN pages
          BY <4>1, <4>3, LocatedPage DEF PagesWith
        <5> QED
          BY <4>1, <5>1
      <4> QED
        BY <4>2, <4>3
    <3> QED
      BY <3>1, <3>2, <3>3, <3>4, <3>5, IngestParts, ExcerptHolds
  <2>3. ASSUME finding # NoFinding
        PROVE  finding.field \in Fields /\ finding.chain.human \in Human
    BY <2>3, ChainKeepsParts DEF IntakeInv, MadeFromUpload
  <2> QED
    BY <2>1, <2>2, <2>3 DEF IntakeTypeOK
<1> QED
  BY <1>1, IntakeInvHolds, PTL

(* A value that stands on one page is pinned to it or to an earlier page; one that runs  *)
(* over a page break is left without a page or pinned to any page with its characters    *)
(* (_locate_evidence against extract_fields), however many pages and words there are.    *)
THEOREM PinnedRight == IntakeSpec => []PinnedWhereExtracted
<1>1. IntakeInv => PinnedWhereExtracted
  <2> SUFFICES ASSUME IntakeInv, upload # NoUpload, NEW field \in Fields,
                      upload.fields[field].excerpt # Nothing
               PROVE  LET page == upload.fields[field].page
                          begins == PageOfWord(FirstMatch(field, JoinedText(file))[1])
                          ends == PageOfWord(FirstMatch(field, JoinedText(file))[2])
                      IN IF begins = ends THEN page \in 1..begins
                         ELSE \/ page = NoPage
                              \/ /\ page \in DOMAIN Parsed(file)
                                 /\ Reads(Parsed(file)[page], upload.fields[field].excerpt)
    BY DEF PinnedWhereExtracted
  <2> DEFINE text == JoinedText(file)
             pages == Parsed(file)
             first == FirstMatch(field, text)[1]
             last == FirstMatch(field, text)[2]
             excerpt == Excerpt(field, text)
             p == PageOfWord(first)
  <2>1. /\ file \in Files /\ excerpt # Nothing
        /\ upload.fields[field].page = LocateEvidence(pages, excerpt)
    BY IngestParts DEF IntakeInv
  <2>2. /\ pages \in Seq(Seq(Words)) /\ text \in Seq(Words) /\ text = FlattenSeq(pages)
        /\ DOMAIN pages = 1..Len(pages)
    BY <2>1, ParsedIsSequence, JoinedIsText DEF JoinedText
  <2>3. /\ first \in 1..Len(text) /\ last \in 1..Len(text) /\ first <= last
        /\ excerpt = SubSeq(text, first, last)
    BY <2>1, <2>2, ExcerptHolds, FirstMatchHolds
  <2> HIDE DEF text, pages, first, last, excerpt, p
  <2>4. ASSUME p = PageOfWord(last) PROVE LocateEvidence(pages, excerpt) \in 1..p
    <3>1. /\ p \in 1..Len(pages)
          /\ first > Len(Upto(pages, p - 1)) /\ last <= Len(Upto(pages, p))
      BY <2>1, <2>3, <2>4, PageOfWordHolds DEF text, pages, p
    <3>2. Reads(pages[p], excerpt)
      <4>1. first \in Nat /\ last \in Nat /\ Len(Upto(pages, p - 1)) < first
        <5>1. Len(Upto(pages, p - 1)) \in Nat
          BY <2>2, <3>1, PageInText
        <5> QED
          BY <2>3, <3>1, <5>1
      <4> QED
        BY <2>2, <2>3, <3>1, <4>1, ReadWhereItStands
    <3>3. p \in PagesWith(pages, excerpt)
      BY <2>1, <2>2, <3>1, <3>2 DEF PagesWith
    <3>4. /\ LocateEvidence(pages, excerpt) \in 1..Len(pages)
          /\ LocateEvidence(pages, excerpt) <= p
      BY <2>2, <3>3, LocatedPage DEF PagesWith
    <3> QED
      BY <3>1, <3>4
  <2>5. \/ LocateEvidence(pages, excerpt) = NoPage
        \/ /\ LocateEvidence(pages, excerpt) \in DOMAIN pages
           /\ Reads(pages[LocateEvidence(pages, excerpt)], excerpt)
    <3>1. CASE PagesWith(pages, excerpt) = {}
      BY <3>1 DEF LocateEvidence
    <3>2. CASE PagesWith(pages, excerpt) # {}
      <4>1. LocateEvidence(pages, excerpt) \in PagesWith(pages, excerpt)
        <5>1. DOMAIN pages \subseteq Nat
          BY <2>2
        <5> QED
          BY <3>2, <5>1, LocatedPage
      <4> QED
        BY <4>1 DEF PagesWith
    <3> QED
      BY <3>1, <3>2
  <2>6. upload.fields[field].excerpt = excerpt
    BY IngestParts DEF IntakeInv, excerpt, text
  <2>7. IF p = PageOfWord(last) THEN upload.fields[field].page \in 1..p
        ELSE \/ upload.fields[field].page = NoPage
             \/ /\ upload.fields[field].page \in DOMAIN pages
                /\ Reads(pages[upload.fields[field].page], upload.fields[field].excerpt)
    BY <2>1, <2>4, <2>5, <2>6
  <2> QED
    BY <2>7 DEF p, first, last, text, pages
<1> QED
  BY <1>1, IntakeInvHolds, PTL

(* What an upload pins to a page the gate finds there (_locate_evidence and              *)
(* _verify_evidence_at_source), for documents of any length.                             *)
THEOREM PinnedFound == IntakeSpec => []PinnedIsFoundAgain
<1>1. IntakeInv => PinnedIsFoundAgain
  BY IngestParts, LocatedIsVerified DEF IntakeInv, PinnedIsFoundAgain
<1> QED
  BY <1>1, IntakeInvHolds, PTL

(* Of a finding that intake let through, the gate asks for nothing but a complete        *)
(* authority and an approval, and the document it cites was not quarantined              *)
(* (create_finding, production_gate).                                                    *)
THEOREM DecisionLeft == IntakeSpec => []OnlyTheDecisionIsLeft
<1>1. IntakeInv => OnlyTheDecisionIsLeft
  <2> SUFFICES ASSUME IntakeInv, finding # NoFinding
               PROVE  /\ file.threats \subseteq {"suspicious_link"}
                      /\ GateReasons = {} <=> /\ finding.chain.authority.complete
                                              /\ finding.chain.human.status = "approved"
    BY DEF OnlyTheDecisionIsLeft
  <2>1. MadeFromUpload /\ file \in Files
    BY DEF IntakeInv
  <2>2. file.threats \subseteq {"suspicious_link"}
    BY <2>1, IngestParts DEF MadeFromUpload, UploadStatus, ScanActions
  <2>3. VerifyEvidenceAtSource(file, finding.page, finding.excerpt) = {}
    BY <2>1, IngestParts, LocatedIsVerified DEF MadeFromUpload
  <2>4. PICK complete \in BOOLEAN, human \in Human :
          /\ human.status # "pending" => human.actor \in Actors /\ human.dated
          /\ finding.chain = Chain(Received, Bound(complete), Cited, human)
    BY <2>1 DEF MadeFromUpload
  <2>5. /\ Received \in Source /\ Bound(complete) \in Authority /\ Cited \in SUBSET Evidence
        /\ Cited # {} /\ \A item \in Cited : item.located /\ item.hashFits
        /\ Received.verified /\ Received.authenticity = "original_as_received"
        /\ Bound(complete).complete = complete
    BY DEF Received, Bound, Cited, Source, Authority, Evidence, AuthenticityStatus
  <2>6. /\ finding.chain.authority = Bound(complete) /\ finding.chain.human = human
        /\ finding.chain.blockers = Blockers(Received, Bound(complete), Cited, human)
    BY <2>4 DEF Chain
  <2>7. finding.chain.blockers = {} <=> complete /\ human.status = "approved"
    BY <2>4, <2>5, <2>6, NothingBlocks, ActorAssumption
  <2>8. finding.chain.eligible <=> finding.chain.blockers = {}
    BY <2>4, <2>5, <2>6, EligibleMeans
  <2>9. Reasons(finding.chain, finding.chain.human.actor) = {}
          <=> complete /\ human.status = "approved"
    BY <2>6, <2>7, <2>8 DEF Reasons, When
  <2> QED
    BY <2>2, <2>3, <2>5, <2>6, <2>9 DEF GateReasons
<1> QED
  BY <1>1, IntakeInvHolds, PTL
=============================================================================
