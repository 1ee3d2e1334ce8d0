----------------------------- MODULE MCLibrary -----------------------------
EXTENDS Library, Sequences


\* few keys where keys are copied, with a second node and a second value of
\* key 3; twelve for the AVL tree, so that a removal rotates twice
MCSizes == {<<"avl", "pkey", 4, 15>>, <<"avl", "skey", 1, 5>>, <<"rb", "rkey", 1, 7>>,
            <<"rb", "skey", 1, 4>>, <<"splay", "pkey", 1, 6>>, <<"splay", "skey", 1, 4>>,
            <<"hash", "pkey", 1, 5>>, <<"hash", "skey", 1, 4>>}
MCMapKinds == {[map |-> x[1], key |-> x[2]] : x \in MCSizes}
MCKeys == [c \in MCMapKinds |-> LET x == CHOOSE x \in MCSizes : c.map = x[1] /\ c.key = x[2]
                             IN  x[3]..x[4]]
MCNode == 1..15 \cup {103}
MCNodeKey == [n \in MCNode |-> IF n > 100 THEN n - 100 ELSE n]
MCValues == [k \in 1..15 |-> IF k = 3 THEN {1, 2} ELSE {1}]
MCHashOf == [k \in 1..15 |-> (3 * k) % 4]


MCObjKinds == {[obj |-> "list"], [obj |-> "clist"], [obj |-> "heap", size |-> 0],
               [obj |-> "heap", size |-> 4], [obj |-> "ring", size |-> 3],
               [obj |-> "dynbuf"], [obj |-> "arena", size |-> 7], [obj |-> "bitset"],
               [obj |-> "graph", size |-> 2, edges |-> 3],
               [obj |-> "graph", size |-> 3, edges |-> 2]}
MCCell == 1..5 \cup {101, 102}
MCElemKey == [n \in 1..5 |-> (n + 1) \div 2]
\* six elements in a heap, so that what fills a gap may belong above it, and
\* a seventh, for which it would have to grow beyond an int
MCHeapKey == <<1, 1, 2, 3, 3, 3, 2>>
MCChunk == {<<1>>, <<1, 2>>, <<2, 1, 2>>, <<1, 2, 1, 2>>}
MCPiece == {<<1>>, <<2, 1>>}

MCDigitAs == [c \in {"1", "2"} |-> IF c = "1" THEN 1 ELSE 2]
MCNames == {<<"x">>, <<"y">>, <<"z">>, <<"l", "o", "n">>}
MCShellArgs == {<<"1">>, <<"2", "a">>, <<"a">>, <<"$", "x">>, <<"$", "y">>}
MCShellWords == {<<>>, <<<<"i">>>>, <<<<"s">>, <<"a">>, <<"a">>, <<"a">>>>}
                \cup {<<c, a>> : c \in {<<"i">>, <<"s">>, <<"q">>}, a \in MCShellArgs}
\* a string is only asked for into a variable: without one it is lost
MCLines == {l \in [ret : {<<>>} \cup MCNames, glued : BOOLEAN, words : MCShellWords] :
              l.ret = <<>> => l.words # <<>> /\ l.words[1] # <<"s">>}

Strings(set, lens) == UNION {[1..k -> set] : k \in lens}
MCArrays == Strings(1..3, 0..5) \cup Strings(1..2, 6..8) \cup {x \in [1..6 -> 1..6] : \A i,j \in 1..6 : x[i]=x[j] => i = j} \cup Strings(1..2, {9, 10})
MCLetters == <<"a","b","c">>
MCNumber == [z \in {"2"} |-> 2]
MCTexts == Strings({"a","b"}, 0..7)
MCPatterns == Strings({"a","b"}, 0..4)
cat(A,B) == {<<"cat", a, b>> : a \in A, b \in B}
alt(A,B) == {<<"alt", a, b>> : a \in A, b \in B}
grp(A) == {<<"grp", a>> : a \in A}
rep(A) == A \cup {<<"rep", a, how>> : a \in A, how \in {<<"*">>, <<"+">>, <<"?">>, <<"{","2","}">>}}
Chr == {<<"chr","a">>, <<"chr","b">>}
Sets == {<<"set", <<"a", "c">>>>, <<"set", <<"^", "a">>>>}
Item == rep(Chr \cup {<<"any">>})
Body == Chr \cup cat(Chr, Chr) \cup alt(Chr, Chr) \cup alt(Chr, cat(Chr, Chr)) \cup alt(cat(Chr, Chr), Chr)
Group == rep(grp(Body))
MCRexPatterns == cat(Item, Item) \cup Group \cup cat(Group, Chr) \cup cat(Chr, Group) \cup alt(Chr, Group)
  \cup alt(cat(Chr, Chr), Chr) \cup alt(Chr, alt(Chr, Chr)) \cup alt(Chr, alt(grp({<<"chr","a">>}), Chr))
  \cup grp(alt(cat(Chr, grp(alt(Chr, Chr))), Chr)) \cup cat(rep(Sets), Chr) \cup cat(Item, rep(grp(alt(Chr, cat(Chr, Chr)))))
MCRexTexts == Strings({"a","b"}, 0..4)
MCCsvTexts == Strings({"x", "q", ",", "nl"}, 0..6) \cup {Append(t, "err") : t \in Strings({"x","q"}, 0..4)}
MCCsvSizes == 2..4
MCOptions == <<[type |-> "noarg", ch |-> "a", str |-> <<"-","-","a","b">>],
               [type |-> "string", ch |-> "s", str |-> <<>>],
               [type |-> "int", ch |-> "none", str |-> <<"-","-","a","c">>],
               [type |-> "int", ch |-> "i", str |-> <<"-","-","i">>]>>
MCWords == {<<"-","-","z">>, <<"-","-","z","=","1">>, <<"x">>, <<"-">>, <<"-","-">>, <<"-","a">>, <<"-","a","a">>, <<"-","s">>, <<"-","a","s">>, <<"-","s","1">>,
  <<"-","i">>, <<"-","i","x">>, <<"1">>, <<"-", "z">>, <<"-","-","a">>, <<"-","-","a","c","=","1">>, <<"-","-","i">>, <<"-","-","a","b","=","1">>}
MCCommandLines == {<<<<"p">>>> \o w : w \in Strings(MCWords, 0..3)}

MCPaths == Strings({58, 97}, 0..5)
\* "1", "a2", "B3c" and "fF40"
MCAddrGroups == <<[text |-> <<49>>, value |-> 1], [text |-> <<97, 50>>, value |-> 162],
                  [text |-> <<66, 51, 99>>, value |-> 2876],
                  [text |-> <<102, 70, 52, 48>>, value |-> 65344]>>
MCCodes == Strings({1, 127, 128, 2047, 2048, 55295, 65535, 65536, 1114111, 2097151, 2097152,
                    67108863, 67108864, 2147483647}, 0..2)
           \cup Strings({36, 255, 8364, 66376}, {3})
MCByteStrings == Strings({0, 36, 159, 160, 193, 194, 224}, 0..3)
                 \cup Strings({36, 143, 144, 240}, {4, 5})
                 \cup Strings({128, 136, 248}, {5}) \cup Strings({128, 132, 252}, {6})
============================================================================
