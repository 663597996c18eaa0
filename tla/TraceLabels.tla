------------------------------ MODULE TraceLabels ------------------------------
(***************************************************************************)
(* The fourteen gold categories of the trace corpora, under the short      *)
(* names the template catalogues use.                                      *)
(***************************************************************************)

person == "private_person"
email == "private_email"
phone == "private_phone"
address == "private_address"
date == "private_date"
url == "private_url"
ip == "private_ip"
mac == "private_mac"
account == "account_number"
secret == "secret"
passport == "private_passport"
license == "private_driver_license"
vehicle == "private_vehicle_id"
geo == "private_geolocation"

GoldLabels ==
  {person, email, phone, address, date, url, ip, mac, account, secret,
   passport, license, vehicle, geo}
================================================================================
