-------------------------- MODULE PureCalls_proofs --------------------------
(***************************************************************************)
(* Proofs about the subnets of LinkLocal, for every length and every index *)
(* of a subnet and of an address, and what they mean for PureCalls; and    *)
(* about the arguments of CommandLine, whatever they are.                  *)
(***************************************************************************)
EXTENDS PureCalls, TLAPS

\* Quotient and remainder.
LEMMA Euclid ==
  ASSUME NEW n \in Nat, n > 0
  PROVE  /\ \A q, i \in Nat : i < n => (n * q + i) \div n = q /\ (n * q + i) % n = i
         /\ \A x \in Nat : /\ n * (x \div n) + (x % n) = x
                          /\ x % n \in Nat /\ x % n < n /\ x \div n \in Nat
  BY SMT

\* The first q ranges of n addresses are n * q addresses.
LEMMA Ranges ==
  ASSUME NEW n \in Nat, n > 0, NEW q \in Nat, NEW index \in Int, index < q
  PROVE  /\ (index + 1) * n <= n * q
         /\ \A i \in Nat : i < n => n * index + i < n * q
<1>1. n * (index + 1) <= n * q
  <2>1. index + 1 <= q
    BY SMT
  <2> QED
    BY <2>1, SMT
<1>2. n * (index + 1) = n * index + n /\ (index + 1) * n = n * (index + 1)
  BY SMT
<1>3. n * index \in Int /\ n * q \in Int
  BY SMT
<1> QED
  BY <1>1, <1>2, <1>3, SMT

\* An amount of addresses that divides those of 169.254.0.0/16.
Divides(n) ==
    n \in Nat /\ n > 3 /\ 65536 \div n \in Nat /\ n * (65536 \div n) = 65536

\* The lengths that are allowed divide the addresses of 169.254.0.0/16, and leave room for
\* the network, its broadcast and a host.
LEMMA AmountDivides ==
  ASSUME NEW length \in 17..30
  PROVE  Divides(get_ip_amount(length))
<1>1. CASE length = 17
  <2>1. 2 ^ 15 = 32768 /\ 32 - 17 = 15 /\ 65536 \div 32768 = 2
    BY SMT
  <2>2. get_ip_amount(length) = 32768
    BY ONLY <1>1, <2>1 DEF get_ip_amount
  <2>3. Divides(get_ip_amount(length))
    BY ONLY <2>1, <2>2, SMT DEF Divides
  <2> QED
    BY ONLY <2>3
<1>2. CASE length = 18
  <2>1. 2 ^ 14 = 16384 /\ 32 - 18 = 14 /\ 65536 \div 16384 = 4
    BY SMT
  <2>2. get_ip_amount(length) = 16384
    BY ONLY <1>2, <2>1 DEF get_ip_amount
  <2>3. Divides(get_ip_amount(length))
    BY ONLY <2>1, <2>2, SMT DEF Divides
  <2> QED
    BY ONLY <2>3
<1>3. CASE length = 19
  <2>1. 2 ^ 13 = 8192 /\ 32 - 19 = 13 /\ 65536 \div 8192 = 8
    BY SMT
  <2>2. get_ip_amount(length) = 8192
    BY ONLY <1>3, <2>1 DEF get_ip_amount
  <2>3. Divides(get_ip_amount(length))
    BY ONLY <2>1, <2>2, SMT DEF Divides
  <2> QED
    BY ONLY <2>3
<1>4. CASE length = 20
  <2>1. 2 ^ 12 = 4096 /\ 32 - 20 = 12 /\ 65536 \div 4096 = 16
    BY SMT
  <2>2. get_ip_amount(length) = 4096
    BY ONLY <1>4, <2>1 DEF get_ip_amount
  <2>3. Divides(get_ip_amount(length))
    BY ONLY <2>1, <2>2, SMT DEF Divides
  <2> QED
    BY ONLY <2>3
<1>5. CASE length = 21
  <2>1. 2 ^ 11 = 2048 /\ 32 - 21 = 11 /\ 65536 \div 2048 = 32
    BY SMT
  <2>2. get_ip_amount(length) = 2048
    BY ONLY <1>5, <2>1 DEF get_ip_amount
  <2>3. Divides(get_ip_amount(length))
    BY ONLY <2>1, <2>2, SMT DEF Divides
  <2> QED
    BY ONLY <2>3
<1>6. CASE length = 22
  <2>1. 2 ^ 10 = 1024 /\ 32 - 22 = 10 /\ 65536 \div 1024 = 64
    BY SMT
  <2>2. get_ip_amount(length) = 1024
    BY ONLY <1>6, <2>1 DEF get_ip_amount
  <2>3. Divides(get_ip_amount(length))
    BY ONLY <2>1, <2>2, SMT DEF Divides
  <2> QED
    BY ONLY <2>3
<1>7. CASE length = 23
  <2>1. 2 ^ 9 = 512 /\ 32 - 23 = 9 /\ 65536 \div 512 = 128
    BY SMT
  <2>2. get_ip_amount(length) = 512
    BY ONLY <1>7, <2>1 DEF get_ip_amount
  <2>3. Divides(get_ip_amount(length))
    BY ONLY <2>1, <2>2, SMT DEF Divides
  <2> QED
    BY ONLY <2>3
<1>8. CASE length = 24
  <2>1. 2 ^ 8 = 256 /\ 32 - 24 = 8 /\ 65536 \div 256 = 256
    BY SMT
  <2>2. get_ip_amount(length) = 256
    BY ONLY <1>8, <2>1 DEF get_ip_amount
  <2>3. Divides(get_ip_amount(length))
    BY ONLY <2>1, <2>2, SMT DEF Divides
  <2> QED
    BY ONLY <2>3
<1>9. CASE length = 25
  <2>1. 2 ^ 7 = 128 /\ 32 - 25 = 7 /\ 65536 \div 128 = 512
    BY SMT
  <2>2. get_ip_amount(length) = 128
    BY ONLY <1>9, <2>1 DEF get_ip_amount
  <2>3. Divides(get_ip_amount(length))
    BY ONLY <2>1, <2>2, SMT DEF Divides
  <2> QED
    BY ONLY <2>3
<1>10. CASE length = 26
  <2>1. 2 ^ 6 = 64 /\ 32 - 26 = 6 /\ 65536 \div 64 = 1024
    BY SMT
  <2>2. get_ip_amount(length) = 64
    BY ONLY <1>10, <2>1 DEF get_ip_amount
  <2>3. Divides(get_ip_amount(length))
    BY ONLY <2>1, <2>2, SMT DEF Divides
  <2> QED
    BY ONLY <2>3
<1>11. CASE length = 27
  <2>1. 2 ^ 5 = 32 /\ 32 - 27 = 5 /\ 65536 \div 32 = 2048
    BY SMT
  <2>2. get_ip_amount(length) = 32
    BY ONLY <1>11, <2>1 DEF get_ip_amount
  <2>3. Divides(get_ip_amount(length))
    BY ONLY <2>1, <2>2, SMT DEF Divides
  <2> QED
    BY ONLY <2>3
<1>12. CASE length = 28
  <2>1. 2 ^ 4 = 16 /\ 32 - 28 = 4 /\ 65536 \div 16 = 4096
    BY SMT
  <2>2. get_ip_amount(length) = 16
    BY ONLY <1>12, <2>1 DEF get_ip_amount
  <2>3. Divides(get_ip_amount(length))
    BY ONLY <2>1, <2>2, SMT DEF Divides
  <2> QED
    BY ONLY <2>3
<1>13. CASE length = 29
  <2>1. 2 ^ 3 = 8 /\ 32 - 29 = 3 /\ 65536 \div 8 = 8192
    BY SMT
  <2>2. get_ip_amount(length) = 8
    BY ONLY <1>13, <2>1 DEF get_ip_amount
  <2>3. Divides(get_ip_amount(length))
    BY ONLY <2>1, <2>2, SMT DEF Divides
  <2> QED
    BY ONLY <2>3
<1>14. CASE length = 30
  <2>1. 2 ^ 2 = 4 /\ 32 - 30 = 2 /\ 65536 \div 4 = 16384
    BY SMT
  <2>2. get_ip_amount(length) = 4
    BY ONLY <1>14, <2>1 DEF get_ip_amount
  <2>3. Divides(get_ip_amount(length))
    BY ONLY <2>1, <2>2, SMT DEF Divides
  <2> QED
    BY ONLY <2>3
<1> QED
  BY <1>1, <1>2, <1>3, <1>4, <1>5, <1>6, <1>7, <1>8, <1>9, <1>10, <1>11, <1>12, <1>13, <1>14, SMT

\* An offset in 169.254.0.0/16 is that of one address.
LEMMA Octets ==
  ASSUME NEW x \in Nat, x < 65536
  PROVE  /\ GetIpImp(x) = Ok(<<x \div 256, x % 256>>)
         /\ <<x \div 256, x % 256>> \in (0..255) \X (0..255)
         /\ Offset(<<x \div 256, x % 256>>) = x
<1>1. /\ x \div 256 \in Nat /\ x \div 256 < 256 /\ x % 256 \in Nat /\ x % 256 < 256
      /\ 256 * (x \div 256) + (x % 256) = x
  BY SMT
<1>2. GetIpImp(x) = Ok(<<x \div 256, x % 256>>)
  BY ONLY <1>1 DEF GetIpImp
<1> DEFINE q == x \div 256
           r == x % 256
<1>3. q \in Nat /\ q < 256 /\ r \in Nat /\ r < 256 /\ 256 * q + r = x
  BY ONLY <1>1
<1> HIDE DEF q, r
<1>4. <<q, r>> \in (0..255) \X (0..255)
  <2>1. q \in 0..255 /\ r \in 0..255
    BY ONLY <1>3, SMT
  <2> QED
    BY ONLY <2>1
<1>5. Offset(<<q, r>>) = x
  <2>1. <<q, r>>[1] = q /\ <<q, r>>[2] = r
    OBVIOUS
  <2> QED
    BY ONLY <1>3, <2>1 DEF Offset
<1> QED
  BY ONLY <1>2, <1>4, <1>5 DEF q, r

\* An address is that of its offset.
LEMMA OffsetOfAddress ==
  ASSUME NEW ip \in (0..255) \X (0..255)
  PROVE  /\ Offset(ip) \in Nat /\ Offset(ip) < 65536
         /\ ip = <<Offset(ip) \div 256, Offset(ip) % 256>>
<1>1. PICK a, b \in Nat : a < 256 /\ b < 256 /\ ip = <<a, b>>
  <2>1. ip = <<ip[1], ip[2]>> /\ ip[1] \in 0..255 /\ ip[2] \in 0..255
    BY SMT
  <2>2. \A o \in 0..255 : o \in Nat /\ o < 256
    BY SMT
  <2> QED
    BY ONLY <2>1, <2>2
<1>2. Offset(ip) = 256 * a + b
  BY ONLY <1>1, SMT DEF Offset
<1>3. /\ 256 * a + b \in Nat /\ 256 * a + b < 65536
      /\ (256 * a + b) \div 256 = a /\ (256 * a + b) % 256 = b
  BY ONLY <1>1, SMT
<1> QED
  BY ONLY <1>1, <1>2, <1>3

\* The address at an offset.
Address(x) == <<x \div 256, x % 256>>

AllAddresses == (0..255) \X (0..255)

\* A valid subnet ends in 169.254.0.0/16.
LEMMA ValidFits ==
  ASSUME NEW length, NEW index \in Int, Valid(length, index)
  PROVE  /\ length \in 17..30 /\ index < 65536 \div get_ip_amount(length)
         /\ (index + 1) * get_ip_amount(length) <= 65536
<1>1. length \in 17..30 /\ index < 65536 \div get_ip_amount(length)
  BY DEF Valid, LINK_LOCAL_IP_AMOUNT
<1> DEFINE n == get_ip_amount(length)
           q == 65536 \div n
<1>2. n \in Nat /\ n > 3 /\ q \in Nat /\ n * q = 65536
  <2>1. Divides(get_ip_amount(length))
    BY ONLY <1>1, AmountDivides
  <2> QED
    BY ONLY <2>1 DEF Divides
<1>3. index < q
  BY ONLY <1>1
<1> HIDE DEF n, q
<1>4. n > 0
  BY ONLY <1>2, SMT
<1>5. (index + 1) * n <= n * q
  BY ONLY <1>2, <1>3, <1>4, index \in Int, Ranges
<1>6. (index + 1) * n <= 65536
  BY ONLY <1>2, <1>5
<1> QED
  BY ONLY <1>1, <1>6 DEF n

\* The address that is reckoned for an offset into a valid subnet is in the subnet.
LEMMA AddressInSubnet ==
  ASSUME NEW length, NEW index \in Nat, Valid(length, index),
         NEW i \in Nat, i < get_ip_amount(length)
  PROVE  LET x == get_ip_amount(length) * index + i
         IN  /\ GetIpImp(x) = Ok(Address(x)) /\ Address(x) \in AllAddresses
             /\ InSubnet(Address(x), Subnet(index, length))
             /\ Offset(Address(x)) % get_ip_amount(length) = i
<1>1. length \in 17..30 /\ index < 65536 \div get_ip_amount(length) /\ index \in Int
  BY ValidFits, SMT
<1> DEFINE n == get_ip_amount(length)
           q == 65536 \div n
           x == n * index + i
<1>2. n \in Nat /\ n > 3 /\ q \in Nat /\ n * q = 65536
  <2>1. Divides(get_ip_amount(length))
    BY ONLY <1>1, AmountDivides
  <2> QED
    BY ONLY <2>1 DEF Divides
<1>3. index < q /\ i < n
  BY ONLY <1>1, i < get_ip_amount(length)
<1> HIDE DEF n, q
<1>4. n > 0 /\ x \in Nat
  BY ONLY <1>2, index \in Nat, i \in Nat, SMT
<1>5. x < 65536
  <2>1. x < n * q
    BY ONLY <1>1, <1>2, <1>3, <1>4, i \in Nat, Ranges
  <2> QED
    BY ONLY <1>2, <2>1
<1>6. x \div n = index /\ x % n = i
  BY ONLY <1>2, <1>3, <1>4, index \in Nat, i \in Nat, Euclid
<1> HIDE DEF x
<1>7. GetIpImp(x) = Ok(Address(x)) /\ Address(x) \in AllAddresses /\ Offset(Address(x)) = x
  BY ONLY <1>4, <1>5, Octets DEF Address, AllAddresses
<1>8. InSubnet(Address(x), Subnet(index, length))
  BY ONLY <1>6, <1>7 DEF InSubnet, IndexOf, Subnet, n
<1>9. Offset(Address(x)) % n = i
  BY ONLY <1>6, <1>7
<1> QED
  BY ONLY <1>7, <1>8, <1>9 DEF n, x

\* Every address of a subnet is reckoned for some offset.
LEMMA AddressHasOffset ==
  ASSUME NEW length \in 17..30, NEW index, NEW ip \in AllAddresses,
         InSubnet(ip, Subnet(index, length))
  PROVE  /\ Offset(ip) % get_ip_amount(length) \in Nat
         /\ Offset(ip) % get_ip_amount(length) < get_ip_amount(length)
         /\ ip = Address(get_ip_amount(length) * index + (Offset(ip) % get_ip_amount(length)))
<1> DEFINE n == get_ip_amount(length)
           x == Offset(ip)
<1>1. n \in Nat /\ n > 3
  <2>1. Divides(get_ip_amount(length))
    BY ONLY AmountDivides, length \in 17..30
  <2> QED
    BY ONLY <2>1 DEF Divides
<1>2. x \in Nat /\ ip = Address(x)
  BY ONLY OffsetOfAddress, ip \in AllAddresses DEF AllAddresses, Address
<1>3. x \div n = index
  BY ONLY InSubnet(ip, Subnet(index, length)) DEF InSubnet, IndexOf, Subnet
<1> HIDE DEF n, x
<1>4. n > 0
  BY ONLY <1>1, SMT
<1>5. n * (x \div n) + (x % n) = x /\ x % n \in Nat /\ x % n < n
  BY ONLY <1>1, <1>2, <1>4, Euclid
<1>6. ip = Address(n * index + (x % n))
  BY ONLY <1>2, <1>3, <1>5
<1> QED
  BY ONLY <1>5, <1>6 DEF n, x

-----------------------------------------------------------------------------
\* What get_ip and get_host_ip return for an index of any size.
AtItsPlace(s, i) ==
    /\ i < ip_amount(s) =>
         \E ip \in AllAddresses : /\ GetIp(s, i) = Ok(ip) /\ InSubnet(ip, s)
                                 /\ Offset(ip) % ip_amount(s) = i
    /\ ~(i < ip_amount(s)) => GetIp(s, i) = Err("IpIndexDoesNotFit")
    /\ i < host_ip_amount(s) =>
         \E ip \in AllAddresses : /\ GetHostIp(s, i) = Ok(ip) /\ InSubnet(ip, s)
                                 /\ Offset(ip) % ip_amount(s) = i + 1
                                 /\ IsHost(ip, s.network_length)
    /\ ~(i < host_ip_amount(s)) => GetHostIp(s, i) = Err("IpIndexDoesNotFit")

\* In every subnet that can be made, get_ip and get_host_ip find each address at its index,
\* the latter neither the network nor the broadcast; UnexpectedOverflow never happens.
THEOREM AddressesAtTheirPlace ==
  ASSUME NEW length, NEW index \in Nat, Valid(length, index), NEW i \in Nat
  PROVE  AtItsPlace(Subnet(index, length), i)
<1> DEFINE s == Subnet(index, length)
           n == get_ip_amount(length)
<1>1. /\ ip_amount(s) = n /\ host_ip_amount(s) = n - 2
      /\ s.subnet_index = index /\ s.network_length = length
  BY ONLY DEF ip_amount, host_ip_amount, Subnet
<1>2. n \in Nat /\ n > 3
  <2>1. length \in 17..30
    BY ONLY Valid(length, index) DEF Valid
  <2>2. Divides(get_ip_amount(length))
    BY ONLY <2>1, AmountDivides
  <2> QED
    BY ONLY <2>2 DEF Divides
<1>3. /\ GetIp(s, i) = IF i < n THEN GetIpImp(n * index + i) ELSE Err("IpIndexDoesNotFit")
      /\ GetHostIp(s, i) = IF i < n - 2 THEN GetIpImp(n * index + i + 1)
                           ELSE Err("IpIndexDoesNotFit")
  BY ONLY <1>1 DEF GetIp, GetHostIp
<1>4. \A j \in Nat : j < n =>
         \E ip \in AllAddresses : /\ GetIpImp(n * index + j) = Ok(ip) /\ InSubnet(ip, s)
                                 /\ Offset(ip) % n = j
  BY ONLY AddressInSubnet, Valid(length, index), index \in Nat
<1>5. ASSUME i < n - 2
      PROVE  \E ip \in AllAddresses : /\ GetIpImp(n * index + i + 1) = Ok(ip) /\ InSubnet(ip, s)
                                     /\ Offset(ip) % n = i + 1 /\ IsHost(ip, length)
  <2> HIDE DEF n, s
  <2>1. i + 1 \in Nat /\ i + 1 < n /\ i + 1 # 0 /\ i + 1 # n - 1
    BY ONLY <1>2, <1>5, i \in Nat, SMT
  <2>2. n * index + i + 1 = n * index + (i + 1)
    BY ONLY <1>2, i \in Nat, index \in Nat, SMT
  <2>3. PICK ip \in AllAddresses : /\ GetIpImp(n * index + (i + 1)) = Ok(ip) /\ InSubnet(ip, s)
                                   /\ Offset(ip) % n = i + 1
    BY ONLY <1>4, <2>1
  <2>4. IsHost(ip, length)
    BY ONLY <2>1, <2>3 DEF IsHost, n
  <2> QED
    BY ONLY <2>2, <2>3, <2>4
<1> HIDE DEF n, s
<1>6. AtItsPlace(s, i)
  BY ONLY <1>1, <1>3, <1>4, <1>5, i \in Nat DEF AtItsPlace
<1> QED
  BY ONLY <1>6 DEF s
\* A loop without an error collects all results.
LEMMA Collected ==
  ASSUME NEW D, NEW list, list = [k \in D |-> list[k]],
         NEW results, results = [k \in D |-> Ok(list[k])]
  PROVE  Collect(results) = Ok(list)
<1>1. \A k \in D : IsOk(results[k]) /\ results[k].ok = list[k]
  BY DEF IsOk, Ok
<1>2. DOMAIN results = D
  OBVIOUS
<1>3. [k \in DOMAIN results |-> results[k].ok] = list
  BY <1>1, <1>2
<1> QED
  BY ONLY <1>1, <1>2, <1>3 DEF Collect

\* What get_ips and get_host_ips return: nothing is missing and nothing is added.
ListsTheSubnet(s) ==
    /\ \E list : /\ GetIps(s) = Ok(list)
                /\ {list[k] : k \in DOMAIN list} = {ip \in AllAddresses : InSubnet(ip, s)}
    /\ \E list : /\ GetHostIps(s) = Ok(list)
                /\ {list[k] : k \in DOMAIN list}
                      = {ip \in AllAddresses : InSubnet(ip, s) /\ IsHost(ip, s.network_length)}

\* get_ips and get_host_ips list exactly the addresses and the hosts of the subnet, without
\* an error, for every length.
THEOREM ListsAreTheSubnet ==
  ASSUME NEW length, NEW index \in Nat, Valid(length, index)
  PROVE  ListsTheSubnet(Subnet(index, length))
<1> DEFINE s == Subnet(index, length)
           n == get_ip_amount(length)
<1>1. /\ ip_amount(s) = n /\ host_ip_amount(s) = n - 2
      /\ s.subnet_index = index /\ s.network_length = length
  BY ONLY DEF ip_amount, host_ip_amount, Subnet
<1>2. length \in 17..30 /\ n \in Nat /\ n > 3
  <2>1. length \in 17..30
    BY ONLY Valid(length, index) DEF Valid
  <2>2. Divides(get_ip_amount(length))
    BY ONLY <2>1, AmountDivides
  <2> QED
    BY ONLY <2>1, <2>2 DEF Divides
<1>3. \A i \in Nat : i < n =>
         /\ GetIpImp(n * index + i) = Ok(Address(n * index + i))
         /\ Address(n * index + i) \in AllAddresses /\ InSubnet(Address(n * index + i), s)
         /\ Offset(Address(n * index + i)) % n = i
  BY ONLY AddressInSubnet, Valid(length, index), index \in Nat
<1>4. \A ip \in AllAddresses : InSubnet(ip, s) =>
         /\ Offset(ip) % n \in Nat /\ Offset(ip) % n < n
         /\ ip = Address(n * index + (Offset(ip) % n))
  BY ONLY AddressHasOffset, <1>2
<1> HIDE DEF n, s
<1>5. \E list : /\ GetIps(s) = Ok(list)
               /\ {list[k] : k \in DOMAIN list} = {ip \in AllAddresses : InSubnet(ip, s)}
  <2> DEFINE list == [k \in 1..n |-> Address(n * index + (k - 1))]
             results == [k \in 1..n |-> GetIp(s, k - 1)]
  <2>1. \A k \in 1..n : k - 1 \in Nat /\ k - 1 < n
    BY ONLY <1>2, SMT
  <2>2. \A k \in 1..n : GetIp(s, k - 1) = Ok(Address(n * index + (k - 1)))
    BY ONLY <1>1, <1>3, <2>1 DEF GetIp
  <2>3. results = [k \in 1..n |-> Ok(list[k])] /\ list = [k \in 1..n |-> list[k]]
    BY ONLY <2>2
  <2>4. Collect(results) = Ok(list)
    <3> HIDE DEF results, list
    <3> QED
      BY ONLY <2>3, Collected
  <2>5. GetIps(s) = Ok(list)
    BY ONLY <1>1, <2>4 DEF GetIps
  <2>6. ASSUME NEW k \in DOMAIN list
        PROVE  list[k] \in AllAddresses /\ InSubnet(list[k], s)
    BY ONLY <1>3, <2>1, k \in DOMAIN list
  <2>7. ASSUME NEW ip \in AllAddresses, InSubnet(ip, s)
        PROVE  \E k \in DOMAIN list : list[k] = ip
    <3> DEFINE i == Offset(ip) % n
    <3>1. i \in Nat /\ i < n /\ ip = Address(n * index + i)
      BY ONLY <1>4, <2>7
    <3> HIDE DEF i
    <3>2. i + 1 \in 1..n /\ i + 1 - 1 = i
      BY ONLY <1>2, <3>1, SMT
    <3> QED
      BY ONLY <3>1, <3>2
  <2> HIDE DEF list
  <2>8. {list[k] : k \in DOMAIN list} = {ip \in AllAddresses : InSubnet(ip, s)}
    BY ONLY <2>6, <2>7
  <2> QED
    BY ONLY <2>5, <2>8
<1>6. \E list : /\ GetHostIps(s) = Ok(list)
               /\ {list[k] : k \in DOMAIN list}
                     = {ip \in AllAddresses : InSubnet(ip, s) /\ IsHost(ip, length)}
  <2> DEFINE list == [k \in 1..(n - 2) |-> Address(n * index + k)]
             results == [k \in 1..(n - 2) |-> GetHostIp(s, k - 1)]
  <2>1. \A k \in 1..(n - 2) : /\ k \in Nat /\ k < n /\ k - 1 < n - 2
                             /\ n * index + (k - 1) + 1 = n * index + k
                             /\ k # 0 /\ k # n - 1
    BY ONLY <1>2, index \in Nat, SMT
  <2>2. \A k \in 1..(n - 2) : GetHostIp(s, k - 1) = Ok(Address(n * index + k))
    BY ONLY <1>1, <1>3, <2>1 DEF GetHostIp
  <2>3. results = [k \in 1..(n - 2) |-> Ok(list[k])] /\ list = [k \in 1..(n - 2) |-> list[k]]
    BY ONLY <2>2
  <2>4. Collect(results) = Ok(list)
    <3> HIDE DEF results, list
    <3> QED
      BY ONLY <2>3, Collected
  <2>5. GetHostIps(s) = Ok(list)
    BY ONLY <1>1, <2>4 DEF GetHostIps
  <2>6. ASSUME NEW k \in DOMAIN list
        PROVE  list[k] \in AllAddresses /\ InSubnet(list[k], s) /\ IsHost(list[k], length)
    <3>1. k \in 1..(n - 2) /\ list[k] = Address(n * index + k)
      BY ONLY <2>6
    <3> HIDE DEF list
    <3> QED
      BY ONLY <1>3, <2>1, <3>1 DEF IsHost, n
  <2>7. ASSUME NEW ip \in AllAddresses, InSubnet(ip, s), IsHost(ip, length)
        PROVE  \E k \in DOMAIN list : list[k] = ip
    <3> DEFINE i == Offset(ip) % n
    <3>1. i \in Nat /\ i < n /\ ip = Address(n * index + i)
      BY ONLY <1>4, <2>7
    <3>2. i # 0 /\ i # n - 1
      BY ONLY <2>7 DEF IsHost, n
    <3> HIDE DEF i
    <3>3. i \in 1..(n - 2)
      BY ONLY <1>2, <3>1, <3>2, SMT
    <3> QED
      BY ONLY <3>1, <3>3
  <2> HIDE DEF list
  <2>8. {list[k] : k \in DOMAIN list}
          = {ip \in AllAddresses : InSubnet(ip, s) /\ IsHost(ip, length)}
    BY ONLY <2>6, <2>7
  <2> QED
    BY ONLY <2>5, <2>8
<1>7. ListsTheSubnet(s)
  BY ONLY <1>1, <1>5, <1>6 DEF ListsTheSubnet
<1> QED
  BY ONLY <1>7 DEF s
-----------------------------------------------------------------------------
\* A subnet that new returns is valid.
LEMMA NewIsValid ==
  ASSUME NEW length, NEW index, IsOk(New(index, length))
  PROVE  Valid(length, index) /\ New(index, length).ok = Subnet(index, length)
  BY DEF New, IsOk, Ok, Err

\* The operation of a call.
LEMMA Operations ==
  /\ LookUpIp => call'.op \in {"get_ip", "get_host_ip"}
  /\ ListIps => call'.op \in {"get_ips", "get_host_ips"}
  /\ SpawnUnrestricted \/ SpawnJailed => call'.op = "invoke"
  /\ ReplaceTexts => call'.op = "replace"
  /\ RunFcnet => call'.op = "fcnet"
  /\ NewSubnet => call'.op = "new"
  /\ ConvertInet => call'.op = "from_inet"
  /\ Idle.op = "none"
<1>1. SpawnUnrestricted \/ SpawnJailed => call'.op = "invoke"
  BY DEF SpawnUnrestricted, SpawnJailed, Spawn
<1>2. (LookUpIp => call'.op \in {"get_ip", "get_host_ip"})
      /\ (ListIps => call'.op \in {"get_ips", "get_host_ips"})
  BY DEF LookUpIp, ListIps
<1>3. ReplaceTexts => call'.op = "replace"
  <2>1. ASSUME NEW c, NEW replacements, NEW result,
               call' = [op |-> "replace", command |-> c, replacements |-> replacements,
                        result |-> result]
        PROVE  call'.op = "replace"
    BY ONLY <2>1
  <2> QED
    BY ONLY <2>1, ZenonT(60) DEF ReplaceTexts
<1>6. RunFcnet => call'.op = "fcnet"
  <2>1. ASSUME NEW type, NEW options, NEW operation, NEW result,
               call' = [op |-> "fcnet", type |-> type, options |-> options,
                        operation |-> operation, result |-> result]
        PROVE  call'.op = "fcnet"
    BY ONLY <2>1
  <2> QED
    BY ONLY <2>1, ZenonT(60) DEF RunFcnet
<1>4. (NewSubnet => call'.op = "new") /\ (ConvertInet => call'.op = "from_inet")
  BY DEF NewSubnet, ConvertInet
<1>5. Idle.op = "none"
  BY DEF Idle
<1> QED
  BY ONLY <1>1, <1>2, <1>3, <1>4, <1>5, <1>6

\* The index that from_inet computes is an integer.
LEMMA InetIndexes ==
  ASSUME NEW octet3 \in Nat, NEW octet4 \in Nat, NEW length \in Nat, length # 0
  PROVE  InetIndex(octet3, octet4, length) \in Int
<1>1. octet4 % length \in Nat
  BY Euclid, SMT
<1> DEFINE dividend == (256 * octet3 - (octet4 % length)) % 65536
<1>2. dividend \in Nat
  BY ONLY <1>1, octet3 \in Nat, SMT
<1> HIDE DEF dividend
<1>3. dividend \div length \in Int /\ dividend % length \in Int
  BY ONLY <1>2, length \in Nat, length # 0, SMT
<1>4. dividend \div length + (IF dividend % length > 0 THEN 1 ELSE 0) \in Int
  BY ONLY <1>3, SMT
<1> QED
  BY ONLY <1>4 DEF InetIndex, dividend

\* new and from_inet return no subnet that reaches out of 169.254.0.0/16.
THEOREM SubnetsAlwaysFit == Spec => []SubnetsFit
<1>1. Init => SubnetsFit
  BY Operations DEF Init, SubnetsFit
<1>2. SubnetsFit /\ [Next]_call => SubnetsFit'
  <2> SUFFICES ASSUME SubnetsFit, [Next]_call
               PROVE  SubnetsFit'
    OBVIOUS
  <2>1. ASSUME NEW length, NEW index \in Int, call'.result = New(index, length)
        PROVE  SubnetsFit'
    <3>1. ASSUME IsOk(call'.result)
          PROVE  /\ call'.result.ok.network_length \in 17..30
                 /\ (call'.result.ok.subnet_index + 1) * ip_amount(call'.result.ok) <= 65536
      <4>1. Valid(length, index) /\ call'.result.ok = Subnet(index, length)
        BY ONLY <2>1, <3>1, NewIsValid
      <4>2. /\ Subnet(index, length).network_length = length
            /\ Subnet(index, length).subnet_index = index
            /\ ip_amount(Subnet(index, length)) = get_ip_amount(length)
        BY ONLY DEF Subnet, ip_amount
      <4>3. length \in 17..30 /\ (index + 1) * get_ip_amount(length) <= 65536
        BY ONLY <4>1, ValidFits, index \in Int
      <4> QED
        BY ONLY <4>1, <4>2, <4>3
    <3> QED
      BY ONLY <3>1, SMT DEF SubnetsFit, IsOk, ip_amount, get_ip_amount
  <2>2. CASE NewSubnet
    <3>1. PICK index \in Indexes, length \in Lengths : call'.result = New(index, length)
      BY <2>2 DEF NewSubnet
    <3>2. index \in Int
      BY SMT DEF Indexes
    <3> QED
      BY ONLY <2>1, <3>1, <3>2
  <2>3. CASE ConvertInet
    <3>1. PICK isLinkLocal, overflowChecks \in BOOLEAN, octet3 \in {0, 1, 2, 128, 255},
               octet4 \in {0, 1, 4, 30, 127, 128, 255}, length \in Lengths \ {255} :
             call'.result = FromInet(isLinkLocal, octet3, octet4, length, overflowChecks)
      BY <2>3 DEF ConvertInet
    <3>2. octet3 \in Nat /\ octet4 \in Nat /\ length \in Nat
      BY SMT DEF Lengths
    <3>3. CASE length # 0 /\ call'.result = New(InetIndex(octet3, octet4, length), length)
      BY ONLY <2>1, <3>2, <3>3, InetIndexes
    <3>4. CASE ~IsOk(call'.result)
      BY ONLY <3>4 DEF SubnetsFit
    <3>5. \A e : ~IsOk(Err(e))
      BY DEF IsOk, Err
    <3> QED
      BY ONLY <3>1, <3>3, <3>4, <3>5 DEF FromInet, InetPanics
  <2>4. CASE LookUpIp \/ ListIps \/ SpawnUnrestricted \/ SpawnJailed \/ ReplaceTexts \/ RunFcnet
    <3>1. call'.op \notin {"new", "from_inet"}
      BY ONLY <2>4, Operations
    <3> QED
      BY ONLY <3>1 DEF SubnetsFit
  <2>5. CASE call' = Idle
    BY ONLY <2>5, Operations DEF SubnetsFit
  <2>6. CASE call' = call
    BY ONLY <2>6, SubnetsFit DEF SubnetsFit
  <2> QED
    BY ONLY <2>2, <2>3, <2>4, <2>5, <2>6, [Next]_call DEF Next, Call
<1> QED
  BY <1>1, <1>2, PTL DEF Spec

\* A subnet of the calls is one of the theorems above.
LEMMA ValidSubnetsAreValid ==
  ASSUME NEW s \in ValidSubnets
  PROVE  \E index \in Nat, length \in 17..30 : s = Subnet(index, length) /\ Valid(length, index)
<1>1. PICK index \in Indexes, length \in 17..30 : s = Subnet(index, length)
  BY DEF ValidSubnets, Subnets
<1>2. s.subnet_index = index /\ s.network_length = length
  BY ONLY <1>1 DEF Subnet
<1>3. Valid(length, index)
  BY ONLY <1>2, NewIsValid, s \in ValidSubnets DEF ValidSubnets
<1>4. index \in Nat
  BY SMT DEF Indexes
<1> QED
  BY ONLY <1>1, <1>3, <1>4

\* What get_ip, get_host_ip, get_ips and get_host_ips return is in the subnet and complete.
THEOREM AddressesAlwaysStayInSubnet == Spec => []AddressesStayInSubnet
<1>1. Init => AddressesStayInSubnet
  BY Operations DEF Init, AddressesStayInSubnet
<1>2. AddressesStayInSubnet /\ [Next]_call => AddressesStayInSubnet'
  <2> SUFFICES ASSUME AddressesStayInSubnet, [Next]_call
               PROVE  AddressesStayInSubnet'
    OBVIOUS
  <2>1. \A v : Ok(v).ok = v
    BY DEF Ok
  <2>2. CASE LookUpIp
    <3>0. PICK s \in ValidSubnets : \E i \in IpIndexes(s) :
             \/ call' = [op |-> "get_ip", subnet |-> s, i |-> i, result |-> GetIp(s, i)]
             \/ call' = [op |-> "get_host_ip", subnet |-> s, i |-> i, result |-> GetHostIp(s, i)]
      BY <2>2 DEF LookUpIp
    <3>1. PICK i \in IpIndexes(s) :
             \/ call' = [op |-> "get_ip", subnet |-> s, i |-> i, result |-> GetIp(s, i)]
             \/ call' = [op |-> "get_host_ip", subnet |-> s, i |-> i, result |-> GetHostIp(s, i)]
      BY ONLY <3>0
    <3>2. PICK index \in Nat, length \in 17..30 : s = Subnet(index, length) /\ Valid(length, index)
      BY ONLY ValidSubnetsAreValid, s \in ValidSubnets
    <3>3. s.network_length = length /\ ip_amount(s) = get_ip_amount(length)
      BY ONLY <3>2 DEF Subnet, ip_amount
    <3>4. ip_amount(s) \in Nat /\ ip_amount(s) > 3
      <4>1. length \in 17..30
        BY ONLY <3>2 DEF Valid
      <4>2. Divides(get_ip_amount(length))
        BY ONLY <4>1, AmountDivides
      <4> QED
        BY ONLY <3>3, <4>2 DEF Divides
    <3>5. i \in Nat
      BY ONLY <3>4, i \in IpIndexes(s), SMT DEF IpIndexes
    <3>6. AtItsPlace(s, i)
      BY ONLY <3>2, <3>5, AddressesAtTheirPlace
    <3>7. CASE call' = [op |-> "get_ip", subnet |-> s, i |-> i, result |-> GetIp(s, i)]
      <4>1. call'.op = "get_ip" /\ call'.subnet = s /\ call'.i = i /\ call'.result = GetIp(s, i)
        BY ONLY <3>7
      <4>2. i + 0 = i
        BY ONLY <3>5, SMT
      <4> QED
        BY ONLY <2>1, <3>6, <4>1, <4>2 DEF AddressesStayInSubnet, AtItsPlace
    <3>8. CASE call' = [op |-> "get_host_ip", subnet |-> s, i |-> i, result |-> GetHostIp(s, i)]
      <4>1. /\ call'.op = "get_host_ip" /\ call'.subnet = s /\ call'.i = i
            /\ call'.result = GetHostIp(s, i)
        BY ONLY <3>8
      <4> QED
        BY ONLY <2>1, <3>6, <4>1 DEF AddressesStayInSubnet, AtItsPlace
    <3> QED
      BY ONLY <3>1, <3>7, <3>8
  <2>3. CASE ListIps
    <3>1. PICK s \in ValidSubnets :
             \/ call' = [op |-> "get_ips", subnet |-> s, result |-> GetIps(s)]
             \/ call' = [op |-> "get_host_ips", subnet |-> s, result |-> GetHostIps(s)]
      BY <2>3 DEF ListIps
    <3>2. PICK index \in Nat, length \in 17..30 : s = Subnet(index, length) /\ Valid(length, index)
      BY ONLY ValidSubnetsAreValid, s \in ValidSubnets
    <3>3. ListsTheSubnet(s)
      BY ONLY <3>2, ListsAreTheSubnet
    <3>4. CASE call' = [op |-> "get_ips", subnet |-> s, result |-> GetIps(s)]
      <4>1. call'.op = "get_ips" /\ call'.subnet = s /\ call'.result = GetIps(s)
        BY ONLY <3>4
      <4> QED
        BY ONLY <2>1, <3>3, <4>1 DEF AddressesStayInSubnet, ListsTheSubnet, AllAddresses
    <3>5. CASE call' = [op |-> "get_host_ips", subnet |-> s, result |-> GetHostIps(s)]
      <4>1. call'.op = "get_host_ips" /\ call'.subnet = s /\ call'.result = GetHostIps(s)
        BY ONLY <3>5
      <4> QED
        BY ONLY <2>1, <3>3, <4>1 DEF AddressesStayInSubnet, ListsTheSubnet, AllAddresses
    <3> QED
      BY ONLY <3>1, <3>4, <3>5
  <2>4. CASE NewSubnet \/ ConvertInet \/ SpawnUnrestricted \/ SpawnJailed \/ ReplaceTexts
             \/ RunFcnet \/ call' = Idle
    <3>1. call'.op \notin {"get_ip", "get_host_ip", "get_ips", "get_host_ips"}
      BY ONLY <2>4, Operations
    <3> QED
      BY ONLY <3>1 DEF AddressesStayInSubnet
  <2>5. CASE call' = call
    BY ONLY <2>5, AddressesStayInSubnet DEF AddressesStayInSubnet
  <2> QED
    BY ONLY <2>2, <2>3, <2>4, <2>5, [Next]_call DEF Next, Call
<1> QED
  BY <1>1, <1>2, PTL DEF Spec

-----------------------------------------------------------------------------
(***************************************************************************)
(* The arguments of Firecracker and of the jailer.                         *)
(***************************************************************************)

\* Which configuration file VmmArguments::join passes: the path that an override enables,
\* none under Disable, and otherwise the one of the arguments, if any.  start enables the path
\* of InitMethod::ViaJsonConfiguration and overrides nothing in all other cases, a restoration
\* among them.  There is one API flag, and what the other methods have set gets through.
\* (An option is none of the three: the methods that set options have names of their own.)
THEOREM ConfigurationFileIsDecided ==
  ASSUME NEW a, NEW override,
         DOMAIN a.options \intersect {"config-file", "api-sock", "no-api"} = {}
  PROVE  LET args == VmmArgs(a, override)
             given == "config-file" \in DOMAIN args
         IN  /\ override = Disable => ~given
             /\ override = NoOverride =>
                  /\ given <=> a.config_path # None
                  /\ given => args["config-file"] = <<a.config_path>>
             /\ override \notin {NoOverride, Disable} =>
                  given /\ args["config-file"] = <<override>>
             /\ "no-api" \in DOMAIN args <=> a.api_socket = None
             /\ "api-sock" \in DOMAIN args <=> a.api_socket # None
             /\ a.api_socket # None => args["api-sock"] = <<a.api_socket>>
             /\ \A key \in DOMAIN a.options : key \in DOMAIN args /\ args[key] = a.options[key]
<1> DEFINE config == CASE override = NoOverride /\ a.config_path # None ->
                            Insert(a.options, "config-file", <<a.config_path>>)
                       [] override \notin {NoOverride, Disable} ->
                            Insert(a.options, "config-file", <<override>>)
                       [] OTHER -> a.options
           args == VmmArgs(a, override)
<1>1. args = InsertApi(config, a)
  BY DEF VmmArgs
<1>2. /\ DOMAIN args = DOMAIN config \union {IF a.api_socket = None THEN "no-api" ELSE "api-sock"}
      /\ a.api_socket # None => args["api-sock"] = <<a.api_socket>>
      /\ \A key \in DOMAIN config : key \notin {"no-api", "api-sock"} => args[key] = config[key]
  <2> HIDE DEF config, args
  <2>1. CASE a.api_socket = None
    <3>1. args = Insert(config, "no-api", << >>)
      BY <1>1, <2>1 DEF InsertApi
    <3> QED
      BY <2>1, <3>1 DEF Insert
  <2>2. CASE a.api_socket # None
    <3>1. args = Insert(config, "api-sock", <<a.api_socket>>)
      BY <1>1, <2>2 DEF InsertApi
    <3> QED
      BY <2>2, <3>1 DEF Insert
  <2> QED
    BY <2>1, <2>2
<1>3. /\ override = Disable => config = a.options
      /\ override = NoOverride /\ a.config_path = None => config = a.options
      /\ override = NoOverride /\ a.config_path # None =>
           config = Insert(a.options, "config-file", <<a.config_path>>)
      /\ override \notin {NoOverride, Disable} =>
           config = Insert(a.options, "config-file", <<override>>)
  BY OverridesAssumption
<1>4. /\ DOMAIN config \in {DOMAIN a.options, DOMAIN a.options \union {"config-file"}}
      /\ \A key \in DOMAIN a.options : config[key] = a.options[key]
      /\ "config-file" \in DOMAIN config <=>
           (override = NoOverride /\ a.config_path # None) \/ override \notin {NoOverride, Disable}
      /\ override = NoOverride /\ a.config_path # None =>
           config["config-file"] = <<a.config_path>>
      /\ override \notin {NoOverride, Disable} => config["config-file"] = <<override>>
  <2> HIDE DEF config, args
  <2>1. CASE config = a.options /\ ~(override = NoOverride /\ a.config_path # None)
               /\ override \in {NoOverride, Disable}
    BY <2>1
  <2>2. ASSUME NEW path, config = Insert(a.options, "config-file", <<path>>)
        PROVE  /\ DOMAIN config = DOMAIN a.options \union {"config-file"}
               /\ config["config-file"] = <<path>>
               /\ \A key \in DOMAIN a.options : config[key] = a.options[key]
    BY <2>2 DEF Insert
  <2>3. CASE override = NoOverride /\ a.config_path # None
    BY <1>3, <2>2, <2>3, OverridesAssumption
  <2>4. CASE override \notin {NoOverride, Disable}
    BY <1>3, <2>2, <2>4
  <2> QED
    BY <1>3, <2>1, <2>3, <2>4
<1> HIDE DEF config, args
<1>5. "config-file" \in DOMAIN args <=> "config-file" \in DOMAIN config
  BY <1>2
<1>6. "config-file" \in DOMAIN config => args["config-file"] = config["config-file"]
  BY <1>2
<1>7. \A key \in DOMAIN a.options : key \in DOMAIN args /\ args[key] = a.options[key]
  BY <1>2, <1>4
<1>8. /\ "no-api" \in DOMAIN args <=> a.api_socket = None
      /\ "api-sock" \in DOMAIN args <=> a.api_socket # None
  BY <1>2, <1>4
<1> QED
  BY <1>2, <1>4, <1>5, <1>6, <1>7, <1>8, OverridesAssumption DEF args

=============================================================================
