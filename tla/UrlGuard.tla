------------------------------- MODULE UrlGuard -------------------------------
(***************************************************************************)
(* UrlGuard of app/security/url_guard.py: the verdict on a target or proxy *)
(* URL before a scrape is admitted, as the HTTP status it is answered      *)
(* with, and what the README says of it ("URL Safety").                    *)
(*                                                                         *)
(* A URL is what urlparse and getaddrinfo make of it: whether it parses,   *)
(* whether its scheme is http or https, what kind of host it names,        *)
(* whether its port can be read, and the addresses the host resolves to,   *)
(* {} when it does not; a host with a label too long or empty cannot even  *)
(* be encoded for the question.  An address is the property ipaddress      *)
(* reports of it; in 64:ff9b::/96, which itself is a reserved range, it    *)
(* also embeds an IPv4 address.  One that ipaddress cannot read passes     *)
(* unchecked.                                                              *)
(***************************************************************************)

Kinds == {"public", "loopback", "private", "link_local", "multicast", "reserved",
          "unspecified"}
Plain(kind) == [kind |-> kind, embeds |-> "nothing"]
Nat64(kind) == [kind |-> "reserved", embeds |-> kind]
Unreadable == Plain("unreadable")
Addresses == {Plain(k) : k \in Kinds} \cup {Nat64(k) : k \in Kinds} \cup {Unreadable}

Urls == [parses : BOOLEAN,
         web : BOOLEAN,
         host : {"none", "localhost", "sub.localhost", "name", "unencodable"},
         port : {"readable", "malformed"},
         answer : SUBSET Addresses]

Allowed == 200
BadRequest == 400
Forbidden == 403
ServerError == 500

\* is_blocked_ip, which is not asked about an address that cannot be read.
IsBlockedIp(ip) == IF ip.embeds = "nothing" THEN ip.kind \notin {"public", "unreadable"}
                                            ELSE ip.embeds # "public"

LocalName(url) == url.host \in {"localhost", "sub.localhost"}

\* Faulty: one address that may be scraped is enough.
ValidateAny(url) ==
    IF ~url.parses THEN ServerError
    ELSE IF ~url.web \/ url.host = "none" THEN BadRequest
    ELSE IF LocalName(url) THEN Forbidden
    ELSE IF url.port = "malformed" \/ url.host = "unencodable" THEN ServerError
    ELSE IF url.answer = {} THEN BadRequest
    ELSE IF \A ip \in url.answer : IsBlockedIp(ip) THEN Forbidden ELSE Allowed

\* Nobody catches the ValueError of urlparse, that of a malformed port, or the
\* UnicodeError of getaddrinfo for a host it cannot encode.
Validate(url) ==
    IF ~url.parses THEN ServerError
    ELSE IF ~url.web \/ url.host = "none" THEN BadRequest
    ELSE IF LocalName(url) THEN Forbidden
    ELSE IF url.port = "malformed" \/ url.host = "unencodable" THEN ServerError
    ELSE IF url.answer = {} THEN BadRequest
    ELSE IF \E ip \in url.answer : IsBlockedIp(ip) THEN Forbidden ELSE Allowed

-------------------------------------------------------------------------------
(* The documented verdict, stated apart from the order of the checks *)

\* What a connection to the address reaches.
Reaches(ip) == IF ip \in {Nat64(k) : k \in Kinds} THEN Plain(ip.embeds) ELSE ip

\* README, "URL Safety", where a NAT64 address counts as what it reaches and one
\* that cannot be read as none of those listed.
Listed == {Plain(k) : k \in Kinds \ {"public"}}
Blocked(url) == LocalName(url) \/ \E ip \in url.answer : Reaches(ip) \in Listed
Usable(url) == /\ url.parses /\ url.web /\ url.host # "none" /\ url.port = "readable"
               /\ LocalName(url) \/ (url.host = "name" /\ url.answer # {})
===============================================================================
