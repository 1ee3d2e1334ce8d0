--------------------------------- MODULE Algs ---------------------------------
(***************************************************************************)
(* The library's algorithms over bounded inputs: sorting, searching,       *)
(* regular expressions, reading fields, options, paths and addresses, and  *)
(* converting text.                                                        *)
(*   kind.alg  which of them;  want  what it is asked                      *)
(*   s         what the code has answered, by the name of its function;    *)
(*             Asked before                                                *)
(***************************************************************************)
EXTENDS SortSearch, SequencesExt

CONSTANTS Letters, Number, StrMax, NMatch,      \* of Rex
          Quote, Comma, Newline, ReadError,     \* of Csv
          Options, Digits,                      \* of OptParse
          Arrays,       \* sequences of integers to sort
          MaxPermuted,  \* elements to permute
          Texts, Patterns, \* sequences of characters, to search in and for
          RexPatterns, RexTexts, \* patterns as below, and what they are matched with
          CsvTexts, CsvSizes,    \* field texts and the lengths of buffers
          CommandLines, \* sequences of words
          Paths, PathSizes, \* strings of bytes and the lengths of buffers
          AddrGroups,   \* sequence of [text, value], groups of an IPv6 address
          Codes,        \* sequences of code points, none a NUL or half a pair
          ByteStrings, TextSizes \* strings of bytes, and the lengths of buffers

VARIABLES kind, s, want
vars == <<kind, s, want>>

R == INSTANCE Rex
C == INSTANCE Csv
O == INSTANCE OptParse
T == INSTANCE Strs

is(alg) == kind.alg = alg
Asked   == <<>>
answers(name, r) == s' = [fn |-> name, r |-> r] /\ UNCHANGED <<kind, want>>

Enough == 100    \* of memory

array(seq) == [i \in 0..Len(seq)-1 |-> seq[i + 1]]
seq(a)     == [i \in 1..Cardinality(DOMAIN a) |-> a[i - 1]]

--------------------------------------------------------------------------
(* A pattern as a tree: <<"chr", c>>, <<"any">>, <<"set", letters>>,       *)
(* <<"cat", p, q>>, <<"alt", p, q>>, <<"grp", p>>, <<"rep", p, how>>       *)

RECURSIVE written(_)
written(p) == CASE p[1] = "chr" -> <<p[2]>>
                [] p[1] = "any" -> <<".">>
                [] p[1] = "set" -> <<"[">> \o p[2] \o <<"]">>
                [] p[1] = "cat" -> written(p[2]) \o written(p[3])
                [] p[1] = "alt" -> written(p[2]) \o <<"|">> \o written(p[3])
                [] p[1] = "grp" -> <<"(">> \o written(p[2]) \o <<")">>
                [] p[1] = "rep" -> written(p[2]) \o p[3]

Lo(how)    == IF how[1] \in {"*", "?"} THEN 0 ELSE IF how[1] = "+" THEN 1 ELSE Number[how[2]]
Hi(how, n) == IF how[1] = "?" THEN 1 ELSE IF how[1] \in {"*", "+"} THEN n ELSE Number[how[2]]

(* where in a text what matches the pattern from place i can end *)
RECURSIVE ends(_, _, _), times(_, _, _, _)
times(p, t, from, k) ==
    IF k = 0 THEN from ELSE times(p, t, UNION {ends(p, t, i) : i \in from}, k - 1)
ends(p, t, i) ==
    CASE p[1] = "chr" -> IF i < Len(t) /\ t[i + 1] = p[2] THEN {i + 1} ELSE {}
      [] p[1] = "any" -> IF i < Len(t) THEN {i + 1} ELSE {}
      [] p[1] = "set" -> IF i < Len(t) /\ (t[i + 1] \in {p[2][k] : k \in DOMAIN p[2]})
                                            # (Head(p[2]) = "^") THEN {i + 1} ELSE {}
      [] p[1] = "cat" -> UNION {ends(p[3], t, j) : j \in ends(p[2], t, i)}
      [] p[1] = "alt" -> ends(p[2], t, i) \cup ends(p[3], t, i)
      [] p[1] = "grp" -> ends(p[2], t, i)
      [] p[1] = "rep" -> UNION {times(p[2], t, {i}, k) : k \in Lo(p[3])..Hi(p[3], Len(t) + 2)}

(* no character is repeated that may be absent: where one is, rex_match    *)
(* never tries it zero times once it has matched, and misses matches       *)
RECURSIVE nozero(_)
nozero(p) == CASE p[1] = "rep" -> (p[2][1] = "grp" \/ Lo(p[3]) > 0) /\ nozero(p[2])
               [] p[1] \in {"cat", "alt"} -> nozero(p[2]) /\ nozero(p[3])
               [] p[1] = "grp" -> nozero(p[2])
               [] OTHER -> TRUE

--------------------------------------------------------------------------

Inputs == CASE is("sort")    -> Arrays
            [] is("permute") -> UNION {{f \in [1..n -> 0..n-1] :
                                          \A i, j \in 1..n : f[i] = f[j] => i = j}
                                        : n \in 1..MaxPermuted}
            [] is("search")  -> Texts \X Patterns
            [] is("regex")   -> RexPatterns
            [] is("fields")  -> CsvTexts
            [] is("options") -> CommandLines
            [] is("path")    -> Paths
            [] is("address") -> [before : 0..9, zeros : BOOLEAN, after : 0..9, first : DOMAIN AddrGroups,
                               wide : {0, 1, 6}]
            [] is("text")    -> Codes
            [] is("bytes")   -> ByteStrings

Init == /\ kind \in [alg : {"sort", "permute", "search", "regex", "fields", "options",
                            "path", "address", "text", "bytes"}]
        /\ want \in Inputs
        /\ s = Asked

Isort == is("sort") /\ answers("isort", isort_i(array(want), 0, Len(want)))
Ssort == is("sort") /\ answers("ssort", ssort_i(array(want), 0, Len(want)))
Hsort == is("sort") /\ answers("hsort", hsort_i(array(want), 0, Len(want)))
Qsort == is("sort") /\ answers("qsort", qsort_array(array(want), Len(want)))

Permute == is("permute") /\
           answers("permute", permute_array([i \in 0..Len(want)-1 |-> i], array(want), Len(want)))

Kmp == is("search") /\ want[2] # <<>> /\ answers("kmp", kmp_match(want[1], want[2]))

Bm  == is("search") /\ Len(want[1]) >= Len(want[2]) /\ answers("bm", bm_match(want[1], want[2]))

(* a tree that could not be made is cleared by sfx_init itself *)
Rooms == {0, 1, 2, 4, Enough}
Sfx == is("search") /\ want[1] # <<>> /\ \E room \in Rooms :
       LET t == sfx_init(want[1], room)
       IN  answers("sfx", [ok |-> ~t.failed,
                           at |-> IF t.failed THEN NoMatch ELSE sfx_match(t, want[1], want[2]),
                           made |-> 1..t.nodes-1, freed |-> sfx_freed(t)])

Regex == is("regex") /\
         LET m == R!rex_init(written(want))
         IN  answers("rex", [ok |-> m.ok, made |-> 3..Len(m.node), freed |-> R!rex_free(m),
                             found |-> [t \in RexTexts |-> R!rex_match(m, t)]])

(* the client reads to the end, or until an error: field after field, or   *)
(* in pieces that it puts together; it may drop fields                     *)
RECURSIVE all_fields(_, _, _)
all_fields(c, size, got) ==
    LET r == C!csv_read_field(c, size)
        f == [code |-> r.code, out |-> r.out]
    IN  IF r.code = "eof" THEN got
        ELSE IF r.code \in {"err", "crash"} THEN Append(got, f)
        ELSE all_fields(r.c, size, Append(got, f))

RECURSIVE all_pieces(_, _, _, _)
all_pieces(c, size, part, got) ==
    LET r == C!csv_next(c, size)
        f == [code |-> r.code, out |-> part \o r.out]
    IN  IF r.code = "eof" THEN got
        ELSE IF r.code = "cnt" THEN all_pieces(r.c, size, f.out, got)
        ELSE IF r.code = "err" THEN Append(got, f) ELSE all_pieces(r.c, size, <<>>, Append(got, f))

RECURSIVE all_ends(_, _, _)
all_ends(c, size, got) ==
    LET r == C!csv_clear_field(c, size)
    IN  IF r.code \in {"eof", "err"} THEN Append(got, r.code)
        ELSE all_ends(r.c, size, Append(got, r.code))

Fields == is("fields") /\ \E size \in CsvSizes :
          answers("fields", [size |-> size,
                             got  |-> all_pieces(C!csv_init(want), size, <<>>, <<>>),
                             read |-> all_fields(C!csv_init(want), size, <<>>),
                             codes |-> all_ends(C!csv_init(want), size, <<>>)])

ParseOptions == is("options") /\
                answers("options", O!optparse_all(O!optparse_reset(array(want)), <<>>))

Slash == 47  Suffix == <<120>>

RECURSIVE all_paths(_, _, _)
all_paths(pw, size, got) ==
    LET r == T!pwalk_next(pw, Suffix, size)
    IN  IF r.ok THEN all_paths(r.pw, size, Append(got, r.out)) ELSE [pw |-> pw, got |-> got]

(* to the end, and once more where the walker may be reset *)
WalkPath == is("path") /\ \E size \in PathSizes :
            LET once == all_paths(T!pwalk_init(want, <<T!Colon>>, Slash), size, <<>>)
            IN  answers("pwalk", [size |-> size, got |-> once.got,
                                  again |-> all_paths(T!pwalk_reset(once.pw), size, <<>>).got])

(* the groups before "::", and those behind it; one has a digit more *)
group(k)   == LET g == AddrGroups[((want.first + k) % Len(AddrGroups)) + 1]
              IN  IF k = want.wide THEN [text |-> Append(g.text, 48), value |-> 16 * g.value]
                  ELSE g
Before     == [k \in 1..want.before |-> group(k)]
After      == IF want.zeros THEN [k \in 1..want.after |-> group(want.before + k)] ELSE <<>>
colons(gs) == FoldLeft(LAMBDA t, g : IF t = <<>> THEN g.text ELSE t \o <<T!Colon>> \o g.text,
                       <<>>, gs)
ParseAddr == is("address") /\
             LET text == colons(Before)
                         \o (IF want.zeros THEN <<T!Colon, T!Colon>> ELSE <<>>) \o colons(After)
             IN  answers("ip6a", [len |-> Len(text), of |-> T!str_parse_ip6a(text)])

encoded(codes) == T!utf32_to_utf8(Enough, codes, [n |-> 0, out |-> <<>>])
Convert == is("text") /\ \E size \in TextSizes :
           LET full   == encoded(want).out
               one(c) == T!utf8_encode(c, T!utf8_enc_len(c))
           IN  answers("utf8", [all |-> encoded(want), size |-> size,
                    cut   |-> T!utf32_to_utf8(size, want, [n |-> 0, out |-> <<>>]),
                    bad   |-> T!utf8_validate(full, 0, TRUE),
                    count |-> T!utf8_nchars(full, 0),
                    back  |-> T!utf8_to_utf32(Enough, full, 0, 0, <<>>),
                    units |-> T!utf8_to_utf16(Enough, full, 0, 0, <<>>),
                    from  |-> IF \A i \in DOMAIN want : want[i] < 65536
                              THEN T!utf16_to_utf8(Enough, want, [n |-> 0, out |-> <<>>])
                              ELSE T!Failed,
                    place |-> [i \in DOMAIN want |-> T!utf8_findc(full, 0, one(want[i]))],
                    span  |-> [i \in DOMAIN want |-> T!utf8_span(full, one(want[i]))],
                    cspan |-> [i \in DOMAIN want |-> T!utf8_cspan(full, one(want[i]))],
                    skip  |-> [k \in 0..Len(want)+1 |-> T!utf8_skip_help(full, 0, k, TRUE)]])

Validate == is("bytes") /\
            answers("validate", [bad  |-> T!utf8_validate(want, 0, FALSE),
                                 back |-> T!utf8_to_utf32(Enough, want, 0, 0, <<>>)])

Next == s = Asked /\ (Isort \/ Ssort \/ Hsort \/ Qsort \/ Permute \/ Kmp \/ Bm \/ Sfx
                      \/ Regex \/ Fields \/ ParseOptions
                      \/ WalkPath \/ ParseAddr \/ Convert \/ Validate)

Spec == Init /\ [][Next]_vars

--------------------------------------------------------------------------

done(alg) == is(alg) /\ s # Asked

(* Every sort puts the elements in order and loses none, the quicksort     *)
(* within its stack of QS_MAXDEPTH parts; permute_array moves each element *)
(* where it was asked to, however the cycles lie.                          *)
SortTrue ==
    /\ done("sort") => LET a == IF s.fn = "qsort" THEN s.r.a ELSE s.r
                       IN  /\ seq(a) = SortSeq(want, <)
                           /\ s.fn = "qsort" => s.r.most < MaxDepth
    /\ done("permute") => seq(s.r) = want

(* A search finds the first place where the pattern is, the suffix tree    *)
(* one of them, and they say so if there is none.  A regular expression    *)
(* matches only what it means, all of it where nothing optional is         *)
(* repeated, and from the leftmost place on; the nodes of suffix tree and  *)
(* expression are each freed once, those of a suffix tree that ran out of  *)
(* memory too.                                                             *)
MatchTrue ==
    /\ done("search") /\ s.fn # "sfx" => s.r = FirstPlace(want[1], want[2])
    /\ done("search") /\ s.fn = "sfx" =>
         /\ s.r.ok => IF Places(want[1], want[2]) = {} THEN s.r.at = NoMatch
                      ELSE s.r.at \in Places(want[1], want[2])
         /\ {s.r.freed[k] : k \in DOMAIN s.r.freed} = s.r.made
         /\ Cardinality(DOMAIN s.r.freed) = Cardinality(s.r.made)
    /\ done("regex") =>
         /\ s.r.ok
         /\ {s.r.freed[i] : i \in DOMAIN s.r.freed} = s.r.made
         /\ Len(s.r.freed) = Cardinality(s.r.made)
         /\ \A t \in RexTexts :
              LET r    == s.r.found[t]
                  from == {i \in 0..(IF t = <<>> THEN 0 ELSE Len(t) - 1) : ends(want, t, i) # {}}
                  m    == r.at[0]
              IN  /\ r.ok => from # {}
                  /\ nozero(want) /\ from # {} => r.ok
                  /\ r.ok /\ m.valid => m.start + m.len \in ends(want, t, m.start)
                  /\ r.ok /\ m.valid /\ nozero(want) => \A i \in from : m.start <= i

(* However short the buffer, the fields of a text end where quotes, commas *)
(* and new lines say and have its other characters, though a quote or a    *)
(* pair of quotes is cut; the quotes are none of them unless one follows   *)
(* another.  (The code drops a doubled quote in quotes, and takes a pair   *)
(* that is not in quotes for one.)  A read error ends them.  Read whole,   *)
(* the fields are the same up to one that does not fit, which ends the     *)
(* program.                                                                *)
FieldsTrue ==
    done("fields") =>
         LET failed  == \E i \in DOMAIN want : want[i] = ReadError
             clean   == SelectSeq(want, LAMBDA ch : ch # ReadError)
             fields  == C!FieldsOf(clean, 1)
             but(n)  == [i \in 1..n |-> fields[i]]
             bare(f) == [f EXCEPT !.out = C!unquoted(@)]
             got     == s.r.got
             n       == Len(got)
             \* nothing but quotes at the end may be a field or not
             all     == \/ n = Len(fields)
                        \/ n = Len(fields) - 1 /\ Last(fields).out = <<>>
             long    == {i \in DOMAIN got : Len(got[i].out) > s.r.size - 1}
             m       == Len(s.r.read)
         IN  /\ IF failed
                THEN /\ got[n].code = "err" /\ Last(s.r.codes) = "err"
                     /\ [i \in 1..n-1 |-> bare(got[i])] = but(n - 1)
                ELSE /\ all /\ [i \in 1..n |-> bare(got[i])] = but(n)
                     /\ s.r.codes = Append([i \in DOMAIN got |-> got[i].code], "eof")
             /\ C!Plain(clean) => \A i \in 1..n : got[i] = bare(got[i])
             /\ IF long = {} THEN s.r.read = got
                ELSE /\ \A i \in long : m <= i
                     /\ m \in long /\ s.r.read[m].code = "crash"
                     /\ [i \in 1..m-1 |-> s.r.read[i]] = [i \in 1..m-1 |-> got[i]]

(* The options found are those the words mean, one by one, and the words   *)
(* are left in order with the options first.  (But for a long option that  *)
(* there is not: UnknownRefused.)                                          *)
OptionsTrue ==
    done("options") =>
         LET m == O!Meaning(Tail(want), <<>>, <<>>, <<>>)
             n == Len(m.got)
         IN  CASE m.wrong = "" ->
                    /\ s.r.got = m.got
                    /\ s.r.ret = 1 + Len(m.used)
                    /\ seq(s.r.argv) = <<want[1]>> \o m.used \o m.other
               [] m.wrong = "word" ->
                    /\ s.r.got = m.got
                    /\ s.r.ret \in {O!CLORET_UNKOPT, O!CLORET_NOPARAM, O!CLORET_BADPARAM}
                    /\ ToSet(seq(s.r.argv)) = ToSet(want)
               [] m.wrong = "option" -> SubSeq(s.r.got, 1, n) = m.got

(* A long option that there is not is refused as one: CLORET_UNKOPT.       *)
UnknownRefused ==
    done("options") =>
         (O!Meaning(Tail(want), <<>>, <<>>, <<>>).wrong = "option" => s.r.ret = O!CLORET_UNKOPT)

(* A path's parts: the first, and each other that is not empty *)
PartOf(path, i) ==
    LET stop == CHOOSE j \in i-1..Len(path) :
                   /\ j = Len(path) \/ path[j+1] = T!Colon
                   /\ \A k \in i..j : path[k] # T!Colon
    IN  SubSeq(path, i, stop)
Parts(path) ==
    LET from == {i \in 1..Len(path)+1 : \/ i = 1
                                        \/ /\ i <= Len(path) /\ path[i-1] = T!Colon
                                           /\ path[i] # T!Colon}
        starts == SetToSortSeq(from, <)
    IN  [k \in DOMAIN starts |-> PartOf(path, starts[k]) \o <<Slash>> \o Suffix]

text(buf) == SubSeq(buf, 1, (CHOOSE i \in DOMAIN buf : /\ buf[i] = T!NUL
                                                       /\ \A j \in 1..i-1 : buf[j] # T!NUL) - 1)

(* A walk gives each part of the path with its suffix, until one does not  *)
(* fit in the buffer; after a reset it gives them again.                   *)
PathTrue ==
    done("path") =>
        LET parts == Parts(want)
            fits  == CHOOSE n \in 0..Len(parts) :
                        /\ \A i \in 1..n : Len(parts[i]) < s.r.size
                        /\ n = Len(parts) \/ Len(parts[n+1]) >= s.r.size
        IN  /\ [i \in DOMAIN s.r.got |-> text(s.r.got[i])] = SubSeq(parts, 1, fits)
            /\ s.r.again = s.r.got

(* An address of eight groups, or of fewer with "::", has the bytes that   *)
(* its groups say; one with more groups or with a longer one is refused.   *)
(* (One of fewer groups without "::" is taken, and zeros put behind it.)   *)
AddressTrue ==
    done("address") =>
        LET gs     == Before \o After
            bytes(h) == FoldLeft(LAMBDA b, g : b \o <<g.value \div 256, g.value % 256>>, <<>>, h)
            room   == IF want.zeros THEN 7 ELSE 8
            long   == \E k \in DOMAIN gs : Len(gs[k].text) > 4
        IN  /\ long \/ Len(gs) > room => s.r.of.ret = -1
            /\ ~long /\ (Len(gs) = room \/ (want.zeros /\ Len(gs) < room)) =>
                 s.r.of = [ret  |-> s.r.len,
                           addr |-> bytes(Before) \o T!zeros(16 - 2 * Len(gs)) \o bytes(After)]

(* Characters become bytes and come back unchanged, and every search and   *)
(* count of the bytes says what is true of the characters; the length is   *)
(* that of all of them however few bytes there is room for.  Bytes that    *)
(* are valid are the only ones that stand for their characters.            *)
Utf8True ==
    /\ done("text") =>
         LET len(k)  == encoded(SubSeq(want, 1, k)).n
             upto(P(_)) == CHOOSE k \in 0..Len(want) : /\ \A i \in 1..k : P(want[i])
                                                       /\ k = Len(want) \/ ~P(want[k+1])
             small   == \A i \in DOMAIN want : want[i] < 65536
             bytes   == s.r.all.out
         IN  /\ s.r.all.n = Len(bytes) /\ s.r.bad = -1 /\ s.r.count = Len(want)
             /\ s.r.back = [n |-> Len(want), out |-> want]
             /\ s.r.cut.n = Len(bytes) /\ Len(s.r.cut.out) <= s.r.size
             /\ s.r.size >= Len(bytes) => s.r.cut.out = bytes
             /\ s.r.units = IF small THEN s.r.back ELSE T!Failed
             /\ small => s.r.from = s.r.all
             /\ \A i \in DOMAIN want :
                  /\ s.r.place[i] = len(upto(LAMBDA c : c # want[i]))
                  /\ s.r.cspan[i] = s.r.place[i]
                  /\ s.r.span[i] = len(upto(LAMBDA c : c = want[i]))
             /\ \A k \in 0..Len(want) : s.r.skip[k] = len(k)
             /\ s.r.skip[Len(want)+1] = -1
    /\ done("bytes") =>
         IF s.r.bad = -1 THEN s.r.back.n # -1 /\ encoded(s.r.back.out).out = want
         ELSE /\ s.r.back = T!Failed
              /\ T!utf8_validate(SubSeq(want, 1, s.r.bad), 0, FALSE) = -1
              /\ \A n \in 1..Len(want) - s.r.bad :
                   T!utf8_validate(SubSeq(want, s.r.bad + 1, s.r.bad + n), 0, FALSE) # -1

(* Fields, options, paths, addresses and characters are read for what they *)
(* say: the five properties above.                                         *)
ParseTrue == FieldsTrue /\ OptionsTrue /\ PathTrue /\ AddressTrue /\ Utf8True
==============================================================================
