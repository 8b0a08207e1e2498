------------------------------ MODULE Entities ------------------------------
(***************************************************************************)
(* The tables the entities of the server stand for: what TypeORM reads and   *)
(* writes by name, and what the entities promise of it.  The tables are      *)
(* built by the migrations (SchemaTables and the two migration modules),    *)
(* never from the entities.                                                *)
(***************************************************************************)
EXTENDS SchemaOperations, TLC

Entity(required, optional, unique, refs) ==
  [required |-> BaseRequired \cup required,
   columns  |-> Base \cup required \cup optional,
   unique   |-> unique,
   refs     |-> refs]

SessionEntity ==
  Entity({"refresh_token_hash", "revoked", "expires_at", "ip_address", "user_agent"},
         {"user_id"}, {}, [user_id |-> Cascade("gamevault_user")])

GameVersionEntity ==
  Entity({"game_id", "file_path", "size", "early_access", "type", "indexed_at"},
         {"version", "release_date"}, {{"game_id", "file_path"}},
         [game_id |-> Cascade("gamevault_game")])

GamevaultGameEntity ==
  Entity({"file_path", "size", "early_access", "download_count", "type"},
         {"title", "sort_title", "version", "release_date", "user_metadata_id", "metadata_id"},
         {{"file_path"}, {"user_metadata_id"}, {"metadata_id"}},
         [user_metadata_id |-> SetNull("game_metadata"), metadata_id |-> SetNull("game_metadata")])

MediaEntity ==
  Entity({"type"}, {"source_url", "file_path", "uploader_id"}, {{"file_path"}},
         [uploader_id |-> NoAction("gamevault_user")])

LookupEntity ==
  Entity({"provider_slug", "provider_data_id", "name"}, {},
         {{"provider_slug", "provider_data_id"}}, Nothing)

DeveloperMetadataEntity == LookupEntity
GenreMetadataEntity     == LookupEntity
PublisherMetadataEntity == LookupEntity
TagMetadataEntity       == LookupEntity

\* The fields a provider, or a user, may leave out: all of them.
ProviderFields ==
  {"provider_slug", "provider_data_id", "provider_data_url", "provider_priority", "age_rating",
   "title", "release_date", "description", "notes", "average_playtime"}
MediaFields ==
  {"cover_id", "background_id", "url_screenshots", "url_trailers", "url_gameplays",
   "url_websites"}
InstallationFields ==
  {"rating", "early_access", "launch_parameters", "launch_executable", "installer_parameters",
   "installer_executable", "uninstaller_parameters", "uninstaller_executable", "umu_game_id",
   "umu_store", "umu_proton_path"}

GameMetadataEntity ==
  Entity({}, ProviderFields \cup MediaFields \cup InstallationFields,
         {{"provider_slug", "provider_data_id"}},
         [cover_id |-> NoAction("media"), background_id |-> NoAction("media")])

ProgressEntity ==
  Entity({"minutes_played", "state"}, {"user_id", "game_id", "last_played_at"}, {},
         [user_id |-> NoAction("gamevault_user"), game_id |-> NoAction("gamevault_game")])

GamevaultServerEntity == Entity({"uuid"}, {}, {{"uuid"}}, Nothing)

GamevaultUserEntity ==
  Entity({"username", "password", "api_key", "activated", "role"},
         {"avatar_id", "background_id", "email", "first_name", "last_name", "birth_date"},
         {{"username"}, {"api_key"}, {"avatar_id"}, {"background_id"}, {"email"}},
         [avatar_id |-> Cascade("media"), background_id |-> Cascade("media")])

Current ==
  [session |-> SessionEntity, game_version |-> GameVersionEntity,
   gamevault_game |-> GamevaultGameEntity, media |-> MediaEntity,
   developer_metadata |-> DeveloperMetadataEntity, genre_metadata |-> GenreMetadataEntity,
   publisher_metadata |-> PublisherMetadataEntity, tag_metadata |-> TagMetadataEntity,
   game_metadata |-> GameMetadataEntity, progress |-> ProgressEntity,
   gamevault_server |-> GamevaultServerEntity, gamevault_user |-> GamevaultUserEntity]

\* Junctions of the relations: the column of each side and its table.
ProviderJunction ==
  [gamevault_game_provider_metadata_game_metadata |->
     [gamevault_game_id |-> "gamevault_game", game_metadata_id |-> "game_metadata"]]

LookupJunctions ==
  [game_metadata_publishers_publisher_metadata |->
     [game_metadata_id |-> "game_metadata", publisher_metadata_id |-> "publisher_metadata"],
   game_metadata_developers_developer_metadata |->
     [game_metadata_id |-> "game_metadata", developer_metadata_id |-> "developer_metadata"],
   game_metadata_tags_tag_metadata |->
     [game_metadata_id |-> "game_metadata", tag_metadata_id |-> "tag_metadata"],
   game_metadata_genres_genre_metadata |->
     [game_metadata_id |-> "game_metadata", genre_metadata_id |-> "genre_metadata"]]

BookmarkJunction ==
  [bookmark |-> [gamevault_user_id |-> "gamevault_user", gamevault_game_id |-> "gamevault_game"]]

Junctions == ProviderJunction @@ LookupJunctions @@ BookmarkJunction

(***************************************************************************)
(* The entities of V12, kept for the V13 migration to read the old tables.  *)
(***************************************************************************)
V12Lookup == Base \cup {"rawg_id", "name"}

V12Game ==
  Base \cup {"rawg_id", "title", "rawg_title", "version", "release_date", "rawg_release_date",
             "cache_date", "file_path", "size", "description", "box_image_id",
             "background_image_id", "website_url", "metacritic_rating", "average_playtime",
             "early_access", "type"}

V12GamevaultUser ==
  Base \cup {"username", "password", "socket_secret", "profile_picture_id",
             "background_image_id", "email", "first_name", "last_name", "activated", "role"}

V12Image    == Base \cup {"source", "path", "media_type", "uploader_id"}
V12Progress == Base \cup {"user_id", "game_id", "minutes_played", "state", "last_played_at"}

Legacy ==
  [v12_game |-> V12Game, v12_gamevault_user |-> V12GamevaultUser, v12_image |-> V12Image,
   v12_progress |-> V12Progress, v12_developer |-> V12Lookup, v12_genre |-> V12Lookup,
   v12_publisher |-> V12Lookup, v12_tag |-> V12Lookup]
=============================================================================
