------------------------------- MODULE Origin -------------------------------
(***************************************************************************)
(* How the sidecar forms the URI of an upstream request: the configured    *)
(* base URL, parsed once, followed by a path-and-query.  Shared by the     *)
(* passthrough route and by /confidential (proxy.rs).                      *)
(*                                                                         *)
(* A path-and-query is abstracted to its length and to whether the http    *)
(* crate accepts its bytes; a base URL to which parts it has and to the    *)
(* length of its path without trailing slashes.                            *)
(***************************************************************************)
EXTENDS Naturals

CONSTANTS
    Base,             \* the parsed --upstream-url
    MaxPathAndQuery   \* MAX_PATH_AND_QUERY

BaseUrls == [scheme : BOOLEAN, authority : BOOLEAN, prefix : Nat]

ASSUME OriginAssumption ==
    /\ Base \in BaseUrls
    /\ MaxPathAndQuery \in Nat

(* origin_path_and_query is Some: the joined bytes are short enough and    *)
(* the http crate accepts them.                                            *)
OriginPathAndQuery(path) ==
    /\ Base.prefix + path.len <= MaxPathAndQuery
    /\ path.valid

(* origin_uri is Ok: Uri::from_parts with a path present wants a scheme    *)
(* and an authority together, or neither.                                  *)
OriginUri == Base.scheme = Base.authority

(* External: the hyper client sends absolute-form URIs only; any other URI *)
(* is an error before a connection is opened.                              *)
Sendable == Base.scheme /\ Base.authority

=============================================================================
