-------------------------- MODULE NameConstraints --------------------------
(***************************************************************************)
(* The names of certificates, in x509/verify.go: mail addresses, domains,  *)
(* URIs and IP addresses are parsed and held against the name constraints  *)
(* of a CA, and a host name against the names of a leaf.  All of it is     *)
(* pure.  A string is a sequence of characters, a character a string of    *)
(* length one; "\n" stands for the characters that are allowed nowhere.    *)
(***************************************************************************)
EXTENDS Integers, Sequences, SequencesExt

Upper == {"A", "B"}
ToLowerChar(c) == CASE c = "A" -> "a" [] c = "B" -> "b" [] OTHER -> c
Alnum == {"a", "b", "0"} \cup Upper
\* the characters of an atom: letters, digits, the dot and some marks
AText == Alnum \cup {"-", "_", ".", "*"}
\* what may follow a backslash in a quoted string, and what may stand there without one
TextChars == AText \cup {"@", "\"", "\\", " ", ":"}
QText == TextChars \ {"\"", "\\"}

ToLower(s) == [i \in DOMAIN s |-> ToLowerChar(s[i])]
EqualFold(s, t) == ToLower(s) = ToLower(t)

Split(s, sep) ==
    FoldLeft(LAMBDA parts, c :
               IF c = sep THEN Append(parts, <<>>)
               ELSE [parts EXCEPT ![Len(parts)] = Append(@, c)],
             <<<<>>>>, s)

TrimSuffix(s, c) == IF s # <<>> /\ Last(s) = c THEN Front(s) ELSE s

Fail == [ok |-> FALSE]
Ok(v) == [ok |-> TRUE, val |-> v]

\* The loop cuts labels off at the last dot until nothing is left, so an empty first
\* label is never cut off, and a leading dot goes unnoticed.
LabelsCut(parts) == Reverse(IF Head(parts) = <<>> THEN Tail(parts) ELSE parts)
LabelsChecked(labels) ==
    IF \E i \in DOMAIN labels :
         labels[i] = <<>> \/ \E j \in DOMAIN labels[i] : labels[i][j] \in {" ", "\n"}
    THEN Fail ELSE Ok(labels)
domainToReverseLabels(domain) == LabelsChecked(LabelsCut(Split(domain, ".")))

----------------------------------------------------------------------------
(* parseRFC2821Mailbox, one character at a time.                           *)

BadDots(local) ==
    \/ Head(local) = "." \/ Last(local) = "."
    \/ \E i \in 1..(Len(local) - 1) : local[i] = "." /\ local[i + 1] = "."

MailboxChar(st, c) ==
    LET to(at) == [st EXCEPT !.at = at]
        keep(at) == [st EXCEPT !.at = at, !.local = Append(@, c)]
        atom == CASE c = "\\" -> to("escaped")
                  [] c \in AText -> keep("atom")
                  [] c = "@" /\ st.local # <<>> /\ ~BadDots(st.local) -> to("domain")
                  [] OTHER -> to("bad")
    IN CASE st.at = "start" -> IF c = "\"" THEN to("quoted") ELSE atom
         [] st.at = "quoted" ->
              CASE c = "\"" -> to("closed")
                [] c = "\\" -> to("pair")
                [] c \in QText -> keep("quoted")
                [] OTHER -> to("bad")
         [] st.at = "pair" -> IF c \in TextChars THEN keep("quoted") ELSE to("bad")
         [] st.at = "closed" -> IF c = "@" THEN to("domain") ELSE to("bad")
         [] st.at = "atom" -> atom
         \* outside of quotes the escaped character is not looked at
         [] st.at = "escaped" -> keep("atom")
         [] st.at = "domain" -> [st EXCEPT !.domain = Append(@, c)]
         [] OTHER -> st

MailboxRead(st) ==
    IF st.at = "domain" /\ domainToReverseLabels(st.domain).ok
    THEN Ok([local |-> st.local, domain |-> st.domain]) ELSE Fail
parseRFC2821Mailbox(in) ==
    MailboxRead(FoldLeft(MailboxChar, [at |-> "start", local |-> <<>>, domain |-> <<>>], in))

----------------------------------------------------------------------------
(* A match is a Boolean, or an error.                                      *)

MatchLabels(d, k, sub) ==
    IF ~(d.ok /\ k.ok) THEN Fail
    ELSE Ok(/\ Len(d.val) >= Len(k.val)
            /\ ~(sub /\ Len(d.val) = Len(k.val))
            /\ \A i \in DOMAIN k.val : EqualFold(k.val[i], d.val[i]))
matchDomainConstraint(domain, constraint) ==
    LET sub == constraint # <<>> /\ Head(constraint) = "." IN
    IF constraint = <<>> THEN Ok(TRUE)
    ELSE MatchLabels(domainToReverseLabels(domain),
                     domainToReverseLabels(IF sub THEN Tail(constraint) ELSE constraint), sub)

MatchMailbox(m, k) ==
    IF k.ok THEN Ok(m.local = k.val.local /\ EqualFold(m.domain, k.val.domain)) ELSE Fail
matchEmailConstraint(mailbox, constraint) ==
    IF Contains(constraint, "@") THEN MatchMailbox(mailbox, parseRFC2821Mailbox(constraint))
    ELSE matchDomainConstraint(mailbox.domain, constraint)

\* A URI has a host and may have a port; SplitHostPort takes the host from the two.
matchURIConstraint(uri, constraint) ==
    IF uri.host = <<>> \/ uri.ip THEN Fail ELSE matchDomainConstraint(uri.host, constraint)

\* An address is a sequence of bits, an IPNet an address and the length of its mask.
matchIPConstraint(ip, constraint) ==
    Ok(/\ Len(ip) = Len(constraint.ip)
       /\ \A i \in 1..constraint.bits : ip[i] = constraint.ip[i])

Match(type, name, constraint) ==
    CASE type = "email" -> matchEmailConstraint(name, constraint)
      [] type = "dns" -> matchDomainConstraint(name, constraint)
      [] type = "uri" -> matchURIConstraint(name, constraint)
      [] type = "ip" -> matchIPConstraint(name, constraint)

\* The result is the new count of comparisons, or an error.  The first constraint
\* that matches or fails decides; they are counted before they are compared.
Decisive(type, name, list) ==
    SelectSeq([i \in DOMAIN list |-> Match(type, name, list[i])], LAMBDA r : ~r.ok \/ r.val)
Permits(permitted, decisive) == permitted = <<>> \/ (decisive # <<>> /\ Head(decisive).ok)
checkNameConstraints(count, limit, type, name, permitted, excluded) ==
    LET n == count + Len(excluded)
        m == n + Len(permitted)
    IN IF \/ n > limit \/ Decisive(type, name, excluded) # <<>>
          \/ m > limit \/ ~Permits(permitted, Decisive(type, name, permitted))
       THEN Fail ELSE Ok(m)

\* The names in a SAN extension, as isValid goes through them; other types are ignored.
ParseName(san) ==
    CASE san.type = "email" -> parseRFC2821Mailbox(san.name)
      [] san.type = "dns" -> IF domainToReverseLabels(san.name).ok THEN Ok(san.name) ELSE Fail
      [] OTHER -> Ok(san.name)

CheckParsed(ca, limit, count, type, parsed) ==
    IF ~parsed.ok THEN Fail
    ELSE checkNameConstraints(count, limit, type, parsed.val, ca.permitted[type], ca.excluded[type])
CheckSAN(ca, limit, count, san) ==
    IF ~count.ok \/ san.type \notin DOMAIN ca.permitted THEN count
    ELSE CheckParsed(ca, limit, count.val, san.type, ParseName(san))

----------------------------------------------------------------------------
(* Host names.                                                             *)

ValidParts(parts) ==
    \A i \in DOMAIN parts :
      /\ parts[i] # <<>>
      /\ \/ i = 1 /\ parts[i] = <<"*">>
         \/ \A j \in DOMAIN parts[i] :
              parts[i][j] \in Alnum \cup {"_", ":"} \/ (parts[i][j] = "-" /\ j # 1)
validHostname(host) == ValidParts(Split(TrimSuffix(host, "."), "."))

hasSANExtension(leaf) == leaf.sans # <<>>

commonNameAsHostname(leaf, ignoreCN) ==
    ~ignoreCN /\ ~hasSANExtension(leaf) /\ validHostname(leaf.cn)

MatchParts(pattern, host) ==
    /\ Len(pattern) = Len(host)
    /\ \A i \in DOMAIN pattern : (i = 1 /\ pattern[i] = <<"*">>) \/ pattern[i] = host[i]
matchHostnames(pattern, host) ==
    LET p == TrimSuffix(pattern, ".")
        h == TrimSuffix(host, ".")
    IN p # <<>> /\ h # <<>> /\ MatchParts(Split(p, "."), Split(h, "."))

DNSNames(leaf) == {leaf.sans[i].name : i \in {j \in DOMAIN leaf.sans : leaf.sans[j].type = "dns"}}
IPAddresses(leaf) == {leaf.sans[i].name : i \in {j \in DOMAIN leaf.sans : leaf.sans[j].type = "ip"}}

\* host is [ip |-> TRUE, name |-> address] or [ip |-> FALSE, name |-> string].
VerifyHostname(leaf, host, ignoreCN) ==
    IF host.ip THEN host.name \in IPAddresses(leaf)
    ELSE \E name \in IF commonNameAsHostname(leaf, ignoreCN) THEN {leaf.cn} ELSE DNSNames(leaf) :
            matchHostnames(ToLower(name), ToLower(host.name))

\* Mutant: a common name that serves as a host name is not looked at.
NamesAllowedMutant(ca, leaf, limit, ignoreCN) ==
    \/ ~ca.constrained
    \/ FoldLeft(LAMBDA count, san : CheckSAN(ca, limit, count, san), Ok(0), leaf.sans).ok

\* isValid: the part about the names of the leaf below the CA.
NamesAllowed(ca, leaf, limit, ignoreCN) ==
    \/ ~ca.constrained
    \/ /\ ~commonNameAsHostname(leaf, ignoreCN)
       /\ FoldLeft(LAMBDA count, san : CheckSAN(ca, limit, count, san), Ok(0), leaf.sans).ok

----------------------------------------------------------------------------
\* A domain is in the subtree of another one: the labels of the latter are its last
\* ones; a leading dot asks for at least one label more.  The reference for the
\* matching, on whole names instead of reversed labels.
InSubtree(domain, constraint) ==
    LET sub == constraint # <<>> /\ Head(constraint) = "."
        d == ToLower(TrimSuffix(domain, "."))
        k == ToLower(IF sub THEN Tail(constraint) ELSE constraint)
    IN \/ (k = <<>> /\ (sub => d # <<>>))
       \/ (d = k /\ ~sub)
       \/ IsStrictSuffix(<<".">> \o k, d)

\* What a CA whose DNS names are constrained lets through is what a host is accepted
\* for: whether the name comes from the SANs or from the common name, and whatever wild
\* cards, letter case or closing dots are in it, the host lies in a permitted subtree
\* (verify.go:621 "ensure VerifyHostname will not accept an unchecked name").
HostIsPermitted(ca, leaf, host, limit, ignoreCN) ==
    /\ ca.constrained /\ ca.permitted["dns"] # <<>> /\ ~host.ip
    /\ NamesAllowed(ca, leaf, limit, ignoreCN)
    /\ VerifyHostname(leaf, host, ignoreCN)
    => \E i \in DOMAIN ca.permitted["dns"] : InSubtree(host.name, ca.permitted["dns"][i])
============================================================================
