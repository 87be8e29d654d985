----------------------------- MODULE Credentials -----------------------------
(***************************************************************************)
(* Where a client has its environment and its key from: the client builder *)
(* of src/client.rs, src/config.rs, src/keystore.rs and src/keygen.rs, and *)
(* cli/src/creds.rs on top of them.  Operators only.                       *)
(*                                                                         *)
(* A signer is a record of Options: the in-memory one always has both      *)
(* parts, a vault may lack either, since other tools edit it too.          *)
(*                                                                         *)
(* A definition marked "Fault" is a plausible slip in the definition that  *)
(* follows it, kept to confirm that the properties notice it.              *)
(***************************************************************************)
EXTENDS Requests

CONSTANTS
  Pems,   \* the texts that parse as a private key
  Urls    \* the texts that parse as a base URL, the environments' included

Production == <<"production">>
Dev        == <<"dev">>

(* Result<RevolutXClient>. *)
Made(environment, signer) ==
  [client |-> Some([environment |-> environment, signer |-> signer]), error |-> None]

Failed(variant) == [client |-> None, error |-> Some(Error(variant))]

-----------------------------------------------------------------------------
(* Signers.                                                                *)

Ed25519Signer(api_key, pem) == [api_key |-> Some(api_key), private_key_pem |-> Some(pem)]

(* Fault: the key is taken for whole when its private half is there. *)
HalfSigner(signer) == IF signer.private_key_pem \subseteq Pems THEN None ELSE Some(Error("Key"))

(* A vault decrypts both records for every request it signs. *)
SigningError(signer) ==
  IF signer.api_key = None \/ signer.private_key_pem = None THEN Some(Error("Signing"))
  ELSE IF ~(signer.private_key_pem \subseteq Pems) THEN Some(Error("Key"))
  ELSE None

-----------------------------------------------------------------------------
(* ClientBuilder, without a custom executor.  A client is named by where   *)
(* it sends to: the environment, or the base URL that overrides it.        *)

builder ==
  [environment |-> None, base_url |-> None, api_key |-> None, key |-> None, signer |-> None]

build(b) ==
  LET target == OrElse(b.base_url, OrElse(b.environment, Production))
  IN IF Blank(target) THEN Failed("Configuration")
     ELSE IF b.signer = None /\ (b.api_key = None) # (b.key = None) THEN Failed("Configuration")
     ELSE IF b.signer = None /\ ~(b.key \subseteq Pems) THEN Failed("Key")
     ELSE IF target \notin Urls THEN Failed("Configuration")
     ELSE IF b.signer # None THEN Made(target, b.signer)
     ELSE Made(target, {Ed25519Signer(api_key, OrElse(b.key, <<>>)) : api_key \in b.api_key})

-----------------------------------------------------------------------------
(* ClientConfig.                                                           *)

env_var(value) == {text \in value : ~Blank(text)}

parse_environment(text) ==
  CASE text \in {Dev, <<"development">>} -> Some(Dev)
    [] text \in {Production, <<"prod">>} -> Some(Production)
    [] OTHER -> None

from_env(variables) ==
  [environment      |-> UNION {parse_environment(text) : text \in env_var(variables.environment)},
   api_key          |-> env_var(variables.api_key),
   private_key_pem  |-> env_var(variables.private_key_pem),
   private_key_path |-> env_var(variables.private_key_path)]

(* Explicit values win. *)
or_env(config, variables) ==
  LET env == from_env(variables)
      or(option, other) == IF option = None THEN other ELSE option
  IN [environment      |-> or(config.environment, env.environment),
      api_key          |-> or(config.api_key, env.api_key),
      private_key_pem  |-> or(config.private_key_pem, env.private_key_pem),
      private_key_path |-> or(config.private_key_path, env.private_key_path)]

(* The key itself, or what the file at its path holds; no file, no text. *)
build_config(config, files) ==
  LET pem == IF config.private_key_pem # None THEN config.private_key_pem
             ELSE UNION {files[path] : path \in config.private_key_path}
  IN IF config.private_key_path # None /\ pem = None THEN Failed("KeyFile")
     ELSE IF config.api_key # None /\ pem = None THEN Failed("MissingPrivateKey")
     ELSE IF config.api_key = None /\ pem # None THEN Failed("MissingApiKey")
     ELSE build([builder EXCEPT !.environment = Some(OrElse(config.environment, Production)),
                                !.api_key = config.api_key, !.key = pem])

-----------------------------------------------------------------------------
(* The command line's credentials.                                         *)

environment(global) == OrElse(global.env, Production)

(* Fault: REVOLUTX_ENVIRONMENT wins over --env. *)
VariableWins(env, config) == IF config.environment # None THEN config ELSE [config EXCEPT !.environment = env]

FlagWins(env, config) == IF env = None THEN config ELSE [config EXCEPT !.environment = env]

client_for(global, needs_auth) ==
  IF ~needs_auth THEN build([builder EXCEPT !.environment = Some(environment(global))])
  ELSE IF global.insecure_env
       THEN build_config(FlagWins(global.env, from_env(global.variables)), global.files)
  ELSE IF global.vault = None THEN Failed("NoVault")
  ELSE IF ~global.unlocks THEN Failed("Locked")
  ELSE build([builder EXCEPT !.environment = Some(environment(global)), !.signer = global.vault])

(* vault init: all records in one save, or no vault.  A key file that is   *)
(* missing or does not parse ends it before that.                          *)
init_vault(vault, key_file, generated, api_key) ==
  LET pem == IF key_file = None THEN Some(generated) ELSE UNION key_file
  IN IF vault # None \/ pem = None \/ ~(pem \subseteq Pems) THEN vault
     ELSE Some([api_key |-> Some(api_key), private_key_pem |-> pem])
=============================================================================
