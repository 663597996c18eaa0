---------------------------- MODULE TraceSkeletons ----------------------------
(***************************************************************************)
(* The 57 template skeletons of the traces-v2 corpus                       *)
(* (packages/eval/scripts/r2/traces_v2_gen.py).  A skeleton writes its     *)
(* head, then repeats a block under g.loop until the document reaches its  *)
(* target length, then its tail.  What is kept of it: the kind of document *)
(* it belongs to, how often the loop runs at least, the gold categories    *)
(* every document of it plants and those some documents plant as well.     *)
(***************************************************************************)
EXTENDS TraceLabels, Naturals

Skeleton(kind, minIter, sure, other) ==
  [kind |-> kind, minIter |-> minIter, sure |-> sure, other |-> other,
   bare |-> FALSE]

(* A skeleton whose draws may all come out without a planted value. *)
Sparse(kind, minIter, other) ==
  [kind |-> kind, minIter |-> minIter, sure |-> {}, other |-> other,
   bare |-> TRUE]

(* ---------- Source code ---------- *)

tpl_py_fixtures ==
  Skeleton("source_code", 1, {person, url}, GoldLabels \ {person, url})
tpl_ts_config ==
  Skeleton("source_code", 0, {person, email, url, secret}, GoldLabels \ {person, email, url, secret})
tpl_go_seed ==
  Skeleton("source_code", 0, {person, secret}, GoldLabels \ {person, url, secret})
tpl_java_test ==
  Skeleton("source_code", 1, {person, email, url, secret}, GoldLabels \ {person, email, url, secret})
tpl_rb_seeds ==
  Skeleton("source_code", 0, {person, secret}, GoldLabels \ {person, url, secret})
tpl_php_settings ==
  Skeleton("source_code", 1, {person, email, secret}, GoldLabels \ {person, email, url, secret})
tpl_sh_deploy ==
  Skeleton("source_code", 1, {email, ip}, {person, phone, url, secret})

(* ---------- Configuration ---------- *)

tpl_dotenv ==
  Skeleton("config", 1, {}, {person, email, phone, url, ip, account, secret})
tpl_spring_yaml == Skeleton("config", 0, {person, email, secret}, {ip})
tpl_toml ==
  Skeleton("config", 1, {email, secret}, GoldLabels \ {email, url, secret})
tpl_ini == Skeleton("config", 1, {secret}, {person, email, url, ip})
tpl_appsettings ==
  Skeleton("config", 0, {person, email, secret}, GoldLabels \ {person, email, url, secret})
tpl_compose == Skeleton("config", 0, {ip, secret}, {person, email})
tpl_k8s == Skeleton("config", 1, {email, secret}, {ip})
tpl_ci == Skeleton("config", 1, {person}, {email, url, ip, secret})
tpl_dockerfile == Skeleton("config", 0, {person, email, secret}, {ip})

(* ---------- Logs ---------- *)

tpl_nginx == Sparse("log", 1, {person, email, url, ip, secret})
tpl_app_log ==
  Sparse("log", 1, GoldLabels \ {date, url, secret, license, vehicle, geo})
tpl_audit == Sparse("log", 1, {person, email, phone, address, ip})
tpl_cron == Sparse("log", 1, {person, email, phone, ip})
tpl_authlog == Sparse("log", 1, {person, ip, mac})
tpl_logfmt ==
  Sparse("log", 1, GoldLabels \ {date, url, secret, license, vehicle, geo})
tpl_postfix == Skeleton("log", 1, {email}, {ip})

(* ---------- Stack traces ---------- *)

tpl_trace_py == Skeleton("stack_trace", 1, {}, {person, email, phone, url, account})
tpl_trace_java == Skeleton("stack_trace", 1, {}, {person, email, account, passport})
tpl_trace_node == Skeleton("stack_trace", 1, {}, {person, email, address, ip})
tpl_trace_go == Skeleton("stack_trace", 1, {person, account}, {})
tpl_trace_ruby == Skeleton("stack_trace", 1, {person, email, date, ip}, {})
tpl_trace_php == Skeleton("stack_trace", 1, {ip, secret}, {person})
tpl_trace_sentry ==
  Skeleton("stack_trace", 1, {ip}, GoldLabels \ {date, url, ip, license, vehicle, geo})

(* ---------- Shell sessions ---------- *)

tpl_sh_curl ==
  Skeleton("shell_session", 1, {url, secret}, GoldLabels \ {url, secret})
tpl_sh_psql ==
  Skeleton("shell_session", 1, {person, secret}, GoldLabels \ {person, address, url, secret, geo})
tpl_sh_mysql ==
  Skeleton("shell_session", 1, {person, secret}, GoldLabels \ {person, address, url, secret})
tpl_sh_kubectl ==
  Sparse("shell_session", 1, GoldLabels \ {date, url, license, vehicle, geo})
tpl_sh_git ==
  Skeleton("shell_session", 1, {person, email}, GoldLabels \ {person, email})
tpl_sh_ssh ==
  Skeleton("shell_session", 1, {person, ip}, {email, phone, address, mac, account, secret, passport})
tpl_sh_docker == Sparse("shell_session", 1, {ip, mac, secret})

(* ---------- Data exports ---------- *)

tpl_csv == Skeleton("data_export", 1, {}, GoldLabels \ {url, secret})
tpl_csv_orders == Sparse("data_export", 1, {email})
tpl_sql == Skeleton("data_export", 1, {person}, GoldLabels \ {person, url, secret})
tpl_json_page ==
  Skeleton("data_export", 1, {person}, GoldLabels \ {person, url, secret})
tpl_xml == Skeleton("data_export", 1, {person, account}, {})
tpl_ndjson == Sparse("data_export", 1, {email, ip, mac, geo})
tpl_tsv ==
  Skeleton("data_export", 1, {person}, {phone, date, account, license, vehicle})
tpl_ldif == Sparse("data_export", 1, {person, email, phone, address})

(* ---------- Markdown ---------- *)

tpl_readme == Skeleton("markdown", 0, {person, url}, GoldLabels \ {person, url})
tpl_incident == Skeleton("markdown", 0, {person}, GoldLabels \ {person})
tpl_meeting == Skeleton("markdown", 1, {person, date}, GoldLabels \ {person, date})
tpl_ticket == Skeleton("markdown", 1, {person, email}, GoldLabels \ {person, email})
tpl_changelog == Skeleton("markdown", 1, {person}, {secret})
tpl_onboarding ==
  Skeleton("markdown", 1, {person, email, phone, date, mac, secret}, {vehicle})

(* ---------- E-mail and chat ---------- *)

tpl_email == Skeleton("message", 1, {person, email}, GoldLabels \ {person, email})
tpl_chat == Skeleton("message", 1, {}, GoldLabels \ {})
tpl_reply == Skeleton("message", 1, {person, email}, GoldLabels \ {person, email})
tpl_raw_email ==
  Skeleton("message", 1, {person, email, ip}, GoldLabels \ {person, email, ip})
tpl_whatsapp == Skeleton("message", 1, {person}, GoldLabels \ {person})
tpl_livechat ==
  Skeleton("message", 1, {person, email}, GoldLabels \ {person, email})

(* ---------- The registry: the skeletons of a kind, in their order ---------- *)

REGISTRY ==
  [source_code |-> <<tpl_py_fixtures, tpl_ts_config, tpl_go_seed, tpl_java_test,
     tpl_rb_seeds, tpl_php_settings, tpl_sh_deploy>>,
   config |-> <<tpl_dotenv, tpl_spring_yaml, tpl_toml, tpl_ini, tpl_appsettings,
     tpl_compose, tpl_k8s, tpl_ci, tpl_dockerfile>>,
   log |-> <<tpl_nginx, tpl_app_log, tpl_audit, tpl_cron, tpl_authlog, tpl_logfmt,
     tpl_postfix>>,
   stack_trace |-> <<tpl_trace_py, tpl_trace_java, tpl_trace_node, tpl_trace_go,
     tpl_trace_ruby, tpl_trace_php, tpl_trace_sentry>>,
   shell_session |-> <<tpl_sh_curl, tpl_sh_psql, tpl_sh_mysql, tpl_sh_kubectl,
     tpl_sh_git, tpl_sh_ssh, tpl_sh_docker>>,
   data_export |-> <<tpl_csv, tpl_csv_orders, tpl_sql, tpl_json_page, tpl_xml,
     tpl_ndjson, tpl_tsv, tpl_ldif>>,
   markdown |-> <<tpl_readme, tpl_incident, tpl_meeting, tpl_ticket,
     tpl_changelog, tpl_onboarding>>,
   message |-> <<tpl_email, tpl_chat, tpl_reply, tpl_raw_email, tpl_whatsapp,
     tpl_livechat>>]

Kinds == DOMAIN REGISTRY
===============================================================================
