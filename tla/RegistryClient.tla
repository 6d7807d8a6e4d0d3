---------------------------- MODULE RegistryClient -----------------------------
(***************************************************************************)
(* RegistryClient.inspect of immutable_migration_image.py: what the client *)
(* concludes about a tag from four GETs in a row - bearer token, manifest, *)
(* config and, after a redirect, the blob storage - each of which may fail *)
(* in its own way.  "The tag is free" must come from the registry itself,  *)
(* never from a failure on the way to it.  Assumed of the registry: it     *)
(* does not answer MANIFEST_UNKNOWN for a tag it holds.                    *)
(***************************************************************************)
CONSTANTS
  Sources,         \* commits of Shared
  Configs,         \* image configs (label, layers), by digest
  Digests,         \* image manifests, by digest
  Absent,          \* no manifest
  SourceOf,        \* SourceOf[c]: the revision label of config c
  ConfigOf,        \* ConfigOf[d]: the config manifest d describes
  ImageError,      \* the exception of every refusal of the client
  OSError          \* the exception of a connection lost during a response

ASSUME Contents ==
  /\ SourceOf \in [Configs -> Sources]
  /\ ConfigOf \in [Digests -> Configs]
  /\ Absent \notin Digests \cup Configs
  /\ {ImageError, OSError} \cap (Digests \cup {Absent}) = {}

\* Ways a GET goes wrong: a body that is not what its headers or its digest
\* say, a 404 of whatever origin, another error status, a redirect to
\* anywhere, no connection, a connection lost during the response.
Faults == {"mangled", "not_found", "denied", "astray", "unreached", "broken"}

\* Replies to the four GETs while the tag holds d.  A 404 with the canonical
\* MANIFEST_UNKNOWN document is the registry's own; the config comes at once
\* or from the storage that a 307 with the blob's own path names.
Replies(d) ==
  [token    : {"ok"} \cup Faults,
   manifest : {IF d = Absent THEN "unknown" ELSE "ok"} \cup Faults,
   config   : {"ok", "storage"} \cup Faults,
   storage  : {"ok"} \cup Faults]

\* _request: everything but a broken connection ends in an ImageError, at
\* once or where the caller meets the HTTPError.
Failure(reply) == IF reply = "broken" THEN OSError ELSE ImageError

\* Mutant: any 404 says that the tag is free.
MutantAny404(reply) == reply \in {"unknown", "not_found"}

\* Status, URL, content type, encoding, length and body must all match.
IsExactManifestAbsence(reply) == reply = "unknown"

\* _fetch_config_blob: the reply that counts.  Only the one 307 is followed,
\* once and without the bearer token.
FetchConfigBlob(r) == IF r.config = "storage" THEN r.storage ELSE r.config

\* validate_remote_image on an intact manifest and its config.
ValidateRemoteImage(d, source) ==
  IF SourceOf[ConfigOf[d]] = source THEN d ELSE ImageError

\* inspect: the tag's manifest, Absent, or an exception.
Inspect(d, source, allowAbsent, r) ==
  IF r.token # "ok" THEN Failure(r.token)
  ELSE IF r.manifest # "ok"
       THEN IF allowAbsent /\ IsExactManifestAbsence(r.manifest)
            THEN Absent
            ELSE Failure(r.manifest)
  ELSE IF FetchConfigBlob(r) # "ok" THEN Failure(FetchConfigBlob(r))
  ELSE ValidateRemoteImage(d, source)

\* All that inspect can conclude while the tag of source holds d.
Inspected ==
  [d \in Digests \cup {Absent} |-> [source \in Sources |->
     [allowAbsent \in BOOLEAN |->
        {Inspect(d, source, allowAbsent, r) : r \in Replies(d)}]]]
===============================================================================
