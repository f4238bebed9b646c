------------------------------ MODULE MCPlugin ------------------------------
(* A plugin for three systems and an mpv with all functions it uses, or        *)
(* without two that it calls late; a struct like the README's PluginConfig,    *)
(* files of up to three lines and up to two options on the command line.       *)
EXTENDS Plugin

MCTargets == {"linux", "windows", "android"}

\* The functions of include/client.h, those that pregenerated_bindings.rs declares, and
\* those that pregenerated_bindings_dyn_sym.rs has a pointer pfn_* for, as they stand in
\* each file.
MCFunctions ==
  {"mpv_client_api_version", "mpv_error_string", "mpv_free", "mpv_client_name", "mpv_client_id",
   "mpv_create", "mpv_initialize", "mpv_destroy", "mpv_terminate_destroy", "mpv_create_client",
   "mpv_create_weak_client", "mpv_load_config_file", "mpv_get_time_ns", "mpv_get_time_us",
   "mpv_free_node_contents", "mpv_set_option", "mpv_set_option_string", "mpv_command",
   "mpv_command_node", "mpv_command_ret", "mpv_command_string", "mpv_command_async",
   "mpv_command_node_async", "mpv_abort_async_command", "mpv_set_property",
   "mpv_set_property_string", "mpv_del_property", "mpv_set_property_async", "mpv_get_property",
   "mpv_get_property_string", "mpv_get_property_osd_string", "mpv_get_property_async",
   "mpv_observe_property", "mpv_unobserve_property", "mpv_event_name", "mpv_event_to_node",
   "mpv_request_event", "mpv_request_log_messages", "mpv_wait_event", "mpv_wakeup",
   "mpv_set_wakeup_callback", "mpv_wait_async_requests", "mpv_hook_add", "mpv_hook_continue",
   "mpv_get_wakeup_pipe"}
MCPregenSymbols ==
  {"mpv_client_api_version", "mpv_error_string", "mpv_free", "mpv_client_name", "mpv_client_id",
   "mpv_create", "mpv_initialize", "mpv_destroy", "mpv_terminate_destroy", "mpv_create_client",
   "mpv_create_weak_client", "mpv_load_config_file", "mpv_get_time_ns", "mpv_get_time_us",
   "mpv_free_node_contents", "mpv_set_option", "mpv_set_option_string", "mpv_command",
   "mpv_command_node", "mpv_command_ret", "mpv_command_string", "mpv_command_async",
   "mpv_command_node_async", "mpv_abort_async_command", "mpv_set_property",
   "mpv_set_property_string", "mpv_del_property", "mpv_set_property_async", "mpv_get_property",
   "mpv_get_property_string", "mpv_get_property_osd_string", "mpv_get_property_async",
   "mpv_observe_property", "mpv_unobserve_property", "mpv_event_name", "mpv_event_to_node",
   "mpv_request_event", "mpv_request_log_messages", "mpv_wait_event", "mpv_wakeup",
   "mpv_set_wakeup_callback", "mpv_wait_async_requests", "mpv_hook_add", "mpv_hook_continue",
   "mpv_get_wakeup_pipe"}
MCPregenPointers ==
  {"mpv_client_api_version", "mpv_error_string", "mpv_free", "mpv_client_name", "mpv_client_id",
   "mpv_create", "mpv_initialize", "mpv_destroy", "mpv_terminate_destroy", "mpv_create_client",
   "mpv_create_weak_client", "mpv_load_config_file", "mpv_get_time_ns", "mpv_get_time_us",
   "mpv_free_node_contents", "mpv_set_option", "mpv_set_option_string", "mpv_command",
   "mpv_command_node", "mpv_command_ret", "mpv_command_string", "mpv_command_async",
   "mpv_command_node_async", "mpv_abort_async_command", "mpv_set_property",
   "mpv_set_property_string", "mpv_del_property", "mpv_set_property_async", "mpv_get_property",
   "mpv_get_property_string", "mpv_get_property_osd_string", "mpv_get_property_async",
   "mpv_observe_property", "mpv_unobserve_property", "mpv_event_name", "mpv_event_to_node",
   "mpv_request_event", "mpv_request_log_messages", "mpv_wait_event", "mpv_wakeup",
   "mpv_set_wakeup_callback", "mpv_wait_async_requests", "mpv_hook_add", "mpv_hook_continue",
   "mpv_get_wakeup_pipe"}

MCVersions == {MCFunctions, MCFunctions \ {"mpv_get_time_us", "mpv_wait_event"}}

EnabledKey == <<"enabled">>
MaxKey     == <<"max", "items">>
TokenKey   == <<"token">>
LayoutKey  == <<"layout">>
ProxyKey   == <<"proxy">>

MCTypes == (EnabledKey :> "bool") @@ (MaxKey :> "u8") @@ (TokenKey :> "option") @@ (LayoutKey :> "enum")
           @@ (ProxyKey :> "data")
MCDefault == (EnabledKey :> FALSE) @@ (MaxKey :> 0) @@ (TokenKey :> <<>>) @@ (LayoutKey :> "default")
             @@ (ProxyKey :> "unset")

Lines == {<<>>, <<"_", "#", "enabled", "=", "no">>, <<"enabled">>,
          <<"_", "enabled", "_", "=", "YES">>, <<"enabled", "=", "no">>,
          <<"enabled", "=", "_", "yes">>, <<"max", "items", "=", "5">>,
          <<"max", "items", "=", "300">>, <<"token", "=", "a", "=", "_">>,
          <<"layout", "=", "compact">>, <<"layout", "=", "default">>, <<"other", "=", "5">>,
          <<"proxy", "=", "socks">>}

MCFiles == {NoFile} \cup BoundedSeq(Lines, 2)
           \cup {<<l, <<"max", "items", "=", "5">>, m>> :
                  l \in Lines, m \in {<<"enabled", "=", "no">>, <<"max", "items", "=", "300">>}}

Opt(key, v) == (Prefix \o key) :> v
Foreign == <<"another", "-", "enabled">> :> <<"yes">>

MCScriptOpts ==
  {Empty, Foreign, Opt(EnabledKey, <<"yes">>), Opt(MaxKey, <<"0">>), Opt(LayoutKey, <<"round">>),
   Opt(EnabledKey, <<"false">>) @@ Opt(MaxKey, <<"300">>), Opt(TokenKey, <<>>) @@ Foreign,
   Opt(LayoutKey, <<"default">>) @@ Opt(EnabledKey, NoText), Opt(LayoutKey, <<"expanded">>) @@ Opt(<<"other">>, <<"x">>)}
=============================================================================
