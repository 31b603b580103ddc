----------------------------- MODULE ScanFiles -----------------------------
(***************************************************************************)
(* The data files that the scanner reads (probes, CVE entries, fixes of    *)
(* distributions: processor.cpp, cve.cpp), and what is recognised in a     *)
(* banner with them.  A text is a sequence of characters; a word that a    *)
(* pattern looks for, such as "Ubuntu-", counts as one character.          *)
(***************************************************************************)
EXTENDS Integers, Sequences, SequencesExt, FiniteSetsExt, TLC

Tab == "\t"
Bar == "|"

\* The parts that std::getline finds: an empty one behind the last delimiter is none.
RECURSIVE Pieces(_, _)
Pieces(text, delimiter) ==
    LET at == Min({i \in 1..Len(text) : text[i] = delimiter} \cup {Len(text) + 1})
    IN  IF text = <<>> THEN <<>>
        ELSE <<SubSeq(text, 1, at - 1)>> \o Pieces(SubSeq(text, at + 1, Len(text)), delimiter)

SplitByTab(line) == Pieces(line, Tab)

\* split_references: the parts between bars that are not empty.
SplitReferences(text) == SelectSeq(Pieces(text, Bar), LAMBDA p : p # <<>>)

Lower == ("A" :> "a") @@ ("U" :> "u") @@ ("Ubuntu" :> "ubuntu") @@ ("Debian" :> "debian")
ToLower(text) == [i \in 1..Len(text) |-> IF text[i] \in DOMAIN Lower THEN Lower[text[i]] ELSE text[i]]

\* The lines of a file that are read: neither empty nor a comment.
Rows(lines) ==
    LET used == SelectSeq(lines, LAMBDA l : l # <<>>)
    IN  [i \in 1..Len(SelectSeq(used, LAMBDA l : l[1] # "#")) |->
            SplitByTab(SelectSeq(used, LAMBDA l : l[1] # "#")[i])]

-----------------------------------------------------------------------------
\* load_distro_fixes: rows of at least six fields; further ones are not used.
LoadFixes(lines) ==
    LET rows == SelectSeq(Rows(lines), LAMBDA r : Len(r) >= 6)
    IN  [i \in 1..Len(rows) |->
            [cve |-> rows[i][1], distro |-> ToLower(rows[i][2]), release |-> rows[i][3],
             package |-> rows[i][4], fixed |-> rows[i][5], status |-> ToLower(rows[i][6])]]

\* What check_backport finds under distro_fix_key, in the order of the file.
FixesOf(fixes, cve, distro) ==
    SelectSeq(fixes, LAMBDA f : f.cve = cve /\ f.distro = ToLower(distro))

SeverityOf(text) == IF text \in {<<"INFO">>, <<"LOW">>, <<"HIGH">>, <<"CRITICAL">>} THEN text[1] ELSE "MEDIUM"

\* parse_cvss, where "9" stands for a number.
CvssOf(text) == IF text # <<>> /\ Head(text) = "9" THEN <<"9">> ELSE <<"-1">>

\* load_database, as if the trailing fields were required.
Bug_AllFieldsRequired(lines) ==
    LET rows == SelectSeq(Rows(lines), LAMBDA r : Len(r) >= 10)
    IN  [i \in 1..Len(rows) |->
            [cve |-> rows[i][1], product |-> rows[i][2], range |-> <<rows[i][3], rows[i][4]>>,
             severity |-> SeverityOf(rows[i][5]), description |-> rows[i][6],
             cvss |-> CvssOf(rows[i][7]), vector |-> rows[i][8], remediation |-> rows[i][9],
             references |-> SplitReferences(rows[i][10])]]

\* load_database: six fields, and four that an entry may leave out.
LoadDatabase(lines) ==
    LET rows == SelectSeq(Rows(lines), LAMBDA r : Len(r) >= 6)
        Optional(r, n, default) == IF Len(r) >= n THEN r[n] ELSE default
    IN  [i \in 1..Len(rows) |->
            [cve |-> rows[i][1], product |-> rows[i][2], range |-> <<rows[i][3], rows[i][4]>>,
             severity |-> SeverityOf(rows[i][5]), description |-> rows[i][6],
             cvss |-> CvssOf(Optional(rows[i], 7, <<>>)), vector |-> Optional(rows[i], 8, <<>>),
             remediation |-> Optional(rows[i], 9, <<>>), references |-> SplitReferences(Optional(rows[i], 10, <<>>))]]

\* load_patterns: service, expression and an optional flag of the lines that say match.
LoadPatterns(lines) ==
    LET rows == SelectSeq(Rows(lines), LAMBDA r : Len(r) >= 3 /\ r # <<>> /\ r[1] = <<"match">>)
    IN  [i \in 1..Len(rows) |->
            [service |-> rows[i][2], regex |-> rows[i][3],
             icase |-> Len(rows[i]) > 3 /\ rows[i][4] = <<"icase">>]]

-----------------------------------------------------------------------------
\* std::regex_search for an expression of letters, then groups "()" of one character
\* each: where it matches first, what the groups hold; <<>> when it does not match.
NoMatch == [found |-> FALSE, groups |-> <<>>]
Search(regex, icase, banner) ==
    LET letters == SelectSeq(regex, LAMBDA c : c # "()")
        groups == Len(regex) - Len(letters)
        Fold(t) == IF icase THEN ToLower(t) ELSE t
        hits == {i \in 1..(Len(banner) - Len(regex) + 1) :
                    Fold(SubSeq(banner, i, i + Len(letters) - 1)) = Fold(letters)}
        at == Min(hits) + Len(letters)
    IN  IF hits = {} THEN NoMatch
        ELSE [found |-> TRUE, groups |-> [g \in 1..groups |-> <<banner[at + g - 1]>>]]

\* detect_service, as if it went on after a pattern without groups.
Bug_BareMatchGoesOn(patterns, banner) ==
    LET Hit(i) == Search(patterns[i].regex, patterns[i].icase, banner)
        hits == {i \in 1..Len(patterns) : Hit(i).found /\ Hit(i).groups # <<>>}
        G(n) == IF hits # {} /\ Len(Hit(Min(hits)).groups) >= n THEN Hit(Min(hits)).groups[n] ELSE <<>>
    IN  [service |-> IF hits = {} THEN <<>> ELSE patterns[Min(hits)].service,
         product |-> G(1), version |-> G(2)]

\* detect_service: the first pattern of the file that matches decides.
DetectService(patterns, banner) ==
    LET Hit(i) == Search(patterns[i].regex, patterns[i].icase, banner)
        hits == {i \in 1..Len(patterns) : Hit(i).found}
        G(n) == IF hits # {} /\ Len(Hit(Min(hits)).groups) >= n THEN Hit(Min(hits)).groups[n] ELSE <<>>
    IN  [service |-> IF hits = {} THEN <<>> ELSE patterns[Min(hits)].service,
         product |-> G(1), version |-> G(2)]

\* The characters of a package revision; the words of other distributions are made of them.
Parenthesis == {"(", ")"}
RevisionChars(text) == {i \in 1..Len(text) : text[i] \notin {" "} \cup Parenthesis}

\* The longest run of revision characters that begins at i.
RunAt(text, i) ==
    SubSeq(text, i, Max({j \in (i - 1)..Len(text) : \A k \in i..j : k \in RevisionChars(text)}))

\* The first match of one of the patterns "word, then characters of class", if any.
Marker(banner, word) ==
    LET at == {i \in 1..(Len(banner) - 1) : banner[i] = word /\ i + 1 \in RevisionChars(banner)}
    IN  IF at = {} THEN <<>> ELSE RunAt(banner, Min(at))

\* detect_distro: the tag that the first pattern of the list to match puts on the port.
DigitsAt(text, i) == SubSeq(text, i, Max({j \in (i - 1)..Len(text) : \A k \in i..j : text[k] = "1"}))
Numbered(banner, word) ==
    LET at == {i \in 2..Len(banner) : banner[i - 1] = word /\ banner[i] = "1"}
    IN  IF at = {} THEN <<>> ELSE DigitsAt(banner, Min(at))

\* "el", digits, "_" and a digit, where no word goes on into "el".
RhelRelease(banner) ==
    LET Ends(i) == i + Len(DigitsAt(banner, i))
        at == {i \in 2..Len(banner) :
                 /\ banner[i - 1] = "el" /\ banner[i] = "1"
                 /\ i > 2 => banner[i - 2] \in {" ", "(", ")", "Ubuntu-", "Debian-"}
                 /\ Ends(i) < Len(banner) /\ SubSeq(banner, Ends(i), Ends(i) + 1) = <<"_", "1">>}
    IN  IF at = {} THEN <<>> ELSE DigitsAt(banner, Min(at))

DetectDistro(banner) ==
    LET Matches == << <<"Ubuntu", Marker(banner, "Ubuntu-")>>, <<"Debian", Marker(banner, "Debian-")>>,
                      <<"RHEL", RhelRelease(banner)>>, <<"Fedora", Numbered(banner, ".fc")>>,
                      <<"AmazonLinux", Numbered(banner, ".amzn")>> >>
        hits == {i \in 1..Len(Matches) : Matches[i][2] # <<>>}
        words == SelectSeq(<<"+alpine", "+suse">>, LAMBDA w : w \in ToSet(banner))
    IN  IF hits # {} THEN <<Matches[Min(hits)][1], " ", "(">> \o Matches[Min(hits)][2] \o <<")">>
        ELSE IF words # <<>> THEN <<IF words[1] = "+alpine" THEN "Alpine" ELSE "SUSE">> ELSE <<>>

\* parse_distro_tag, as if the marker stayed in the revision.
Bug_MarkerStays(tag) ==
    LET text == ToLower(tag)
        Says(word, marker) == \E i \in 1..Len(text) : text[i] \in {word, marker}
        open == Max({i \in 1..Len(tag) : tag[i] = "("} \cup {0})
        close == Max({i \in 1..Len(tag) : tag[i] = ")"} \cup {0})
    IN  [distro |-> IF Says("ubuntu", "Ubuntu-") THEN "ubuntu"
                    ELSE IF Says("debian", "Debian-") THEN "debian" ELSE "",
         revision |-> SubSeq(tag, open + 1, close - 1)]

\* parse_distro_tag: distribution and package revision of a tag.
ParseDistroTag(tag) ==
    LET text == ToLower(tag)
        Says(word, marker) == \E i \in 1..Len(text) : text[i] \in {word, marker}
        distro == IF Says("ubuntu", "Ubuntu-") THEN "ubuntu"
                  ELSE IF Says("debian", "Debian-") THEN "debian" ELSE ""
        open == Max({i \in 1..Len(tag) : tag[i] = "("} \cup {0})
        close == Max({i \in 1..Len(tag) : tag[i] = ")"} \cup {0})
        Strip(s, word) == IF s # <<>> /\ Head(s) = word THEN Tail(s) ELSE s
    IN  [distro |-> distro,
         revision |-> IF distro = "" \/ open = 0 \/ close = 0 \/ close <= open + 1 THEN <<>>
                      ELSE Strip(Strip(SubSeq(tag, open + 1, close - 1), "Ubuntu-"), "Debian-")]
=============================================================================
