----------------------------- MODULE ConfigText -----------------------------
(***************************************************************************)
(* How the text of a configuration file becomes settings: the reader the   *)
(* daemon uses for every file (NtpConfig::parseConfigFile and              *)
(* parseCommandLineArg, config/config.cpp) and the ConfigParser of each    *)
(* format (config/parser.cpp), which the factory picks by the file's       *)
(* extension and the daemon never calls.                                   *)
(*                                                                         *)
(* A text is a sequence of tokens: words, numbers, separators, quotes,     *)
(* spaces and carriage returns.  The author writes the same settings, one  *)
(* per line, into a file of each extension; both readers read each file,   *)
(* line by line.                                                           *)
(***************************************************************************)
EXTENDS Integers, FiniteSets, Sequences, SequencesExt

CONSTANTS
    Words,        \* words and numerals
    Keys,         \* the setting each key word names, aliases included, in lower case
    Kind,         \* the kind of each setting
    DaemonOnly,   \* the settings ConfigParser does not know
    Number,       \* the value of each numeral
    Lower,        \* the lower-case form of each word that has one
    Algorithms,   \* the names a setting of kind "choice" knows
    TextDefaults, \* setDefaults
    Entries,      \* what the author may write on a line
    MaxLines      \* bound: lines of a file

SettingNames == DOMAIN Kind

Quote == "\""
Comma == ","

\* What a text is made of.
Signs == {"SP", "CR", Quote, "=", ":", Comma, "#", ";", "/", "[", "]", "{"}
Tokens == Words \cup Signs

\* What an author writes: a key of one word; a value without a quote, a line's end or
\* blanks around it.
ASSUME TextAssumption ==
    /\ Words \cap Signs = {}
    /\ DOMAIN Keys \subseteq Words \ DOMAIN Lower
    /\ DOMAIN Number \subseteq Words
    /\ \A w \in DOMAIN Keys : Keys[w] \in SettingNames
    /\ \A s \in SettingNames :
          Kind[s] \in {"string", "bool", "list", "port", "stratum", "choice", "keys"}
    /\ DaemonOnly \subseteq SettingNames
    /\ Entries \subseteq
          [what : {"setting", "section", "comment", "blank"}, key : Words,
           value : Seq(Tokens \ {"CR", Quote}), spaced : BOOLEAN, quoted : BOOLEAN,
           cr : BOOLEAN, last : BOOLEAN]
    /\ \A e \in Entries : e.value # <<>> => "SP" \notin {Head(e.value), Last(e.value)}
    /\ MaxLines \in Nat

Formats == {"INI", "JSON", "YAML", "UNKNOWN"}
Extensions == {"conf", "cfg", "json", "yaml"}

VARIABLES
    lines,      \* the entries read so far
    daemon,     \* what parseConfigFile made of the file of each extension
    parser      \* what the factory's ConfigParser made of it

textVars == <<lines, daemon, parser>>

-----------------------------------------------------------------------------
(* The author's files *)

When(b, text) == IF b THEN text ELSE <<>>

\* The text of a file of each extension.
TextFormat == [conf |-> "INI", cfg |-> "INI", json |-> "JSON", yaml |-> "YAML"]

Quotable(e) == e.key \in DOMAIN Keys /\ Kind[Keys[e.key]] \in {"string", "list", "choice", "keys"}

Value(e, f) ==
    IF Quotable(e) /\ (e.quoted \/ f = "JSON") THEN <<Quote>> \o e.value \o <<Quote>>
    ELSE e.value

Setting(e, f) ==
    LET sp == When(e.spaced, <<"SP">>)
    IN  CASE f = "INI" -> <<e.key>> \o sp \o <<"=">> \o sp \o Value(e, f)
          [] f = "JSON" -> <<"SP", Quote, e.key, Quote>> \o sp \o <<":", "SP">> \o Value(e, f)
                           \o When(~e.last, <<Comma>>)
          [] f = "YAML" -> sp \o <<e.key, ":", "SP">> \o Value(e, f)

Section(e, f) ==
    CASE f = "INI" -> <<"[", e.key, "]">>
      [] f = "JSON" -> <<Quote, e.key, Quote, ":", "SP", "{">>
      [] f = "YAML" -> <<e.key, ":">>

Comment(e, f) == When(e.spaced, <<"SP">>) \o <<IF f = "JSON" THEN "/" ELSE "#">> \o Setting(e, f)

\* A line of a file of format f that says e.
Line(e, f) ==
    (CASE e.what = "setting" -> Setting(e, f)
       [] e.what = "section" -> Section(e, f)
       [] e.what = "comment" -> Comment(e, f)
       [] e.what = "blank" -> <<>>) \o When(e.cr, <<"CR">>)

-----------------------------------------------------------------------------
(* Pieces of text *)

\* The text without the blanks at its ends.
Trimmed(text, blanks) ==
    LET solid(t) == t \notin blanks
    IN  IF \E i \in DOMAIN text : solid(text[i])
        THEN SubSeq(text, SelectInSeq(text, solid), SelectLastInSeq(text, solid))
        ELSE <<>>

\* Mutant: carriage returns are kept.
trim_KeepsCR(text) == Trimmed(text, {"SP"})

\* ConfigParser::trim
trim(text) == Trimmed(text, {"SP", "CR"})

\* The daemon trims spaces and tabs only.
daemonTrim(text) == Trimmed(text, {"SP"})

\* Mutant: a quoted text keeps its quotes.
unquote_Kept(text) == text

unquote(text) ==
    IF Len(text) >= 2 /\ Head(text) = Quote /\ Last(text) = Quote THEN Tail(Front(text))
    ELSE text

\* find(sep), and what is before and after it.
Find(text, sep) == SelectInSeq(text, LAMBDA t : t = sep)
Before(text, sep) == SubSeq(text, 1, Find(text, sep) - 1)
After(text, sep) == SubSeq(text, Find(text, sep) + 1, Len(text))

\* getline(ss, item, ','): an item starts the text and after every comma, and goes on
\* to the next.
Starts(text) == {1} \cup {i + 1 : i \in {j \in DOMAIN text : text[j] = Comma}}
Ends(text, i) == Max({i - 1} \cup {j \in i .. Len(text) : \A k \in i .. j : text[k] # Comma})
Item(text, i, blanks) == Trimmed(SubSeq(text, i, Ends(text, i)), blanks)

\* The items with the place each starts at, trimmed, without the empty ones ...
Placed(text, blanks) ==
    [i \in {j \in Starts(text) : Item(text, j, blanks) # <<>>} |-> Item(text, i, blanks)]

\* ... and a list of what is placed, in the order of the places.
InOrder(placed) ==
    [n \in 1 .. Cardinality(DOMAIN placed) |->
        placed[CHOOSE i \in DOMAIN placed : Cardinality({j \in DOMAIN placed : j < i}) = n - 1]]

Items(text, blanks) == InOrder(Placed(text, blanks))

tolower(text) == [i \in DOMAIN text |-> IF text[i] \in DOMAIN Lower THEN Lower[text[i]] ELSE text[i]]

\* std::stoi and its kin skip blanks and stop at what is no digit; without a digit
\* they throw.
Digits(text) == Head(trim(text))
HasNumber(text) == trim(text) # <<>> /\ Digits(text) \in DOMAIN Number
stoi(text) == Number[Digits(text)]

-----------------------------------------------------------------------------
(* One setting *)

stringToBool(v) == tolower(v) \in {<<"true">>, <<"1">>, <<"yes">>, <<"on">>, <<"enabled">>}
parseList(v) == Items(v, {"SP", "CR"})

daemonBool(v) == v \in {<<"true">>, <<"1">>, <<"yes">>}
daemonList(v) == Items(v, {"SP"})

\* md5, sha1, sha256, or none of them
Choice(v) == IF tolower(v) \in {<<c>> : c \in Algorithms} THEN tolower(v)[1] ELSE "none"

\* parseAuthenticationKeySpec over the list: id:key, a later one replaces an earlier.
parseAuthenticationKeys(items) ==
    LET good(item) == /\ Find(item, ":") \notin {0, 1, Len(item)}
                      /\ HasNumber(Before(item, ":"))
        specs == SelectSeq(items, good)
        id(item) == stoi(Before(item, ":"))
    IN  [k \in {id(specs[i]) : i \in DOMAIN specs} |->
            After(specs[SelectLastInSeq(specs, LAMBDA item : id(item) = k)], ":")]

\* static_cast<port_t>
Port(n) == n % 65536

\* What a setting becomes, given what a reader takes v for as a boolean and as a list; one
\* that does not parse stays.
Converted(s, v, old, bool, list) ==
    CASE Kind[s] = "string" -> v
      [] Kind[s] = "bool" -> bool
      [] Kind[s] = "list" -> list
      [] Kind[s] = "port" -> IF HasNumber(v) THEN Port(stoi(v)) ELSE old
      [] Kind[s] = "stratum" -> IF HasNumber(v) /\ stoi(v) \in 0 .. 15 THEN stoi(v) ELSE old
      [] Kind[s] = "choice" -> Choice(v)
      [] Kind[s] = "keys" -> parseAuthenticationKeys(daemonList(v))

\* The settings a key names: one or none.  The whole text has to be the key word.
Named(key) == {Keys[w] : w \in {x \in DOMAIN Keys : tolower(key) = <<x>>}}

parseKeyValue(c, key, v) ==
    [s \in SettingNames |-> IF s \in Named(key) \ DaemonOnly
                            THEN Converted(s, v, c[s], stringToBool(v), parseList(v)) ELSE c[s]]

daemonKeyValue(c, key, v) ==
    [s \in SettingNames |-> IF s \in Named(key)
                            THEN Converted(s, v, c[s], daemonBool(v), daemonList(v)) ELSE c[s]]

-----------------------------------------------------------------------------
(* The readers: one line *)

\* NtpConfig::parseConfigFile: comments are recognised before the line is trimmed, key and
\* value are not trimmed around the separator.
DaemonLine(c, text) ==
    LET line == daemonTrim(text)
        skipped == \/ text = <<>> \/ text[1] \in {"#", ";"}
                   \/ line # <<>> /\ line[1] = "[" /\ Last(line) = "]"
    IN  IF skipped \/ Find(line, "=") = 0 THEN c
        ELSE daemonKeyValue(c, Before(line, "="), unquote(After(line, "=")))

\* Every ConfigParser skips empty lines, comments and lines without its separator ...
Skips(line, comments, sep) ==
    line = <<>> \/ line[1] \in comments \/ Find(line, sep) = 0

\* ... and trims what is on either side of the separator.
KeyText(line, sep) == trim(Before(line, sep))
ValueText(line, sep) == trim(After(line, sep))

dropComma(text) == IF text # <<>> /\ Last(text) = Comma THEN Front(text) ELSE text

\* Quotes, a trailing comma, and the quotes the comma hid.
CleanJson(text) == unquote(dropComma(unquote(text)))

IniLine(c, text) ==
    LET line == trim(text)
    IN  IF Skips(line, {"#", ";"}, "=") THEN c
        ELSE parseKeyValue(c, KeyText(line, "="), ValueText(line, "="))

JsonLine(c, text) ==
    LET line == trim(text)
    IN  IF Skips(line, {"/", "*"}, ":") THEN c
        ELSE parseKeyValue(c, unquote(KeyText(line, ":")), CleanJson(ValueText(line, ":")))

YamlLine(c, text) ==
    LET line == trim(text)
    IN  IF Skips(line, {"#"}, ":") THEN c
        ELSE parseKeyValue(c, KeyText(line, ":"), ValueText(line, ":"))

\* ConfigParserFactory::detectFormat, by the extension.
detectFormat(ext) ==
    CASE ext \in {"ini", "conf"} -> "INI"
      [] ext = "json" -> "JSON"
      [] ext \in {"yml", "yaml"} -> "YAML"
      [] OTHER -> "UNKNOWN"

\* createParserFromFile, and a line of what it made; there is no parser for an unknown
\* format.
parserLine(ext, c, text) ==
    CASE detectFormat(ext) = "INI" -> IniLine(c, text)
      [] detectFormat(ext) = "JSON" -> JsonLine(c, text)
      [] detectFormat(ext) = "YAML" -> YamlLine(c, text)
      [] detectFormat(ext) = "UNKNOWN" -> c

-----------------------------------------------------------------------------
TextInit ==
    /\ lines = <<>>
    /\ daemon = [ext \in Extensions |-> TextDefaults]
    /\ parser = [ext \in Extensions |-> TextDefaults]

\* The next line of every file.
ReadLine(e) ==
    /\ Len(lines) < MaxLines
    /\ lines' = Append(lines, e)
    /\ daemon' = [ext \in Extensions |->
                     DaemonLine(daemon[ext], Line(e, TextFormat[ext]))]
    /\ parser' = [ext \in Extensions |->
                     parserLine(ext, parser[ext], Line(e, TextFormat[ext]))]

TextNext == \E e \in Entries : ReadLine(e)

TextSpec == TextInit /\ [][TextNext]_textVars
-----------------------------------------------------------------------------
Assigns(e, s) == e.what = "setting" /\ s \in Named(<<e.key>>)
Heads(e, s) == e.what = "section" /\ s \in Named(<<e.key>>)

\* A value the JSON parser cuts short: it takes the value's own comma for the line's.
CommaLost(e, s) ==
    /\ e.last /\ e.value # <<>> /\ Last(e.value) = Comma
    /\ Kind[s] \in {"string", "bool", "choice"}

\* A ConfigParser makes the same of the same settings in every format, spaced or not,
\* with either line end, whatever comments and sections are around, except of a
\* value with quotes, which only the JSON parser takes off, of one whose last comma
\* it takes off too, and of a section that has the name of a setting, which the JSON
\* and YAML parsers take for its value.
FormatsAgree ==
    \A s \in SettingNames :
        \/ parser["conf"][s] = parser["json"][s] /\ parser["json"][s] = parser["yaml"][s]
        \/ \E i \in DOMAIN lines : Heads(lines[i], s)
        \/ \E i \in DOMAIN lines :
              /\ Assigns(lines[i], s)
              /\ (lines[i].quoted /\ Quotable(lines[i])) \/ CommaLost(lines[i], s)

\* A line the daemon's reader takes as the INI format means it: nothing around the
\* separator, no carriage return and a boolean of its own spelling.
Compact(e, s) ==
    /\ ~e.spaced
    /\ e.cr => Kind[s] \in {"port", "stratum"}
    /\ Kind[s] = "bool" => (stringToBool(e.value) = daemonBool(e.value))

\* Of a file of key=value lines the daemon makes what the JSON parser makes of the same
\* settings in JSON, quotes included: a setting differs only if a line that assigns it is
\* not compact or loses a comma in JSON, and what is around it does not matter.
DaemonReadsCompact ==
    \A s \in SettingNames \ DaemonOnly :
        \/ daemon["conf"][s] = parser["json"][s]
        \/ \E i \in DOMAIN lines : Heads(lines[i], s)
        \/ \E i \in DOMAIN lines :
              Assigns(lines[i], s) /\ (~Compact(lines[i], s) \/ CommaLost(lines[i], s))

\* "./simple-ntpd --config config.json" (README.md:63): what the JSON file says is
\* what the daemon works with.
JsonFileRead == daemon["json"] = parser["json"]
=============================================================================
